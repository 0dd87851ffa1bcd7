------------------------ MODULE IngestionJobs_proofs ------------------------
(***************************************************************************)
(* Theorems of IngestionJobs, for any sources, chunks, items, attempts,     *)
(* clients and number of process exits.                                     *)
(***************************************************************************)
EXTENDS IngestionJobs, WellFoundedInduction, FiniteSetTheorems, TLAPS

Statuses    == {"queued", "running"} \cup Settled
ChunkStates == {"queued", "running", "completed"}
Row         == [source    : Sources,
                status    : Statuses,
                attempts  : 0 .. MaxAttempts,
                error     : {"none", "restarted", "run failed"},
                chunks    : Seq(ChunkStates),
                filed     : [1 .. NumItems -> Nat],
                announced : Nat]

\* What a row says of itself.  announcing: its completion is being announced.
Whole(row) == /\ row.chunks = << >> <=> row.source \in Workbooks
              /\ Done(row) = DOMAIN row.chunks
              /\ \A k \in 1 .. NumItems : row.filed[k] > 0
Sound(row, announcing, exits) ==
    /\ row.chunks # << >> =>
           row.source \notin Workbooks /\ DOMAIN row.chunks = DOMAIN Cut(row.source)
    /\ \A k \in 1 .. NumItems : row.filed[k] <= row.attempts
    /\ row.status = "completed" =>
           Whole(row) /\ (row.announced > 0 \/ announcing \/ exits > 0)

Announcing(i) == pc = "announce" /\ job = i
RowsInv == \A i \in DOMAIN jobs : Sound(jobs[i], Announcing(i), crashes)

\* What the worker's place says of the row it is at work on: which chunks are
\* mapped and which items were consolidated in this attempt.
MappedBut(row, undone) ==
    /\ row.chunks = << >> <=> row.source \in Workbooks
    /\ undone \subseteq DOMAIN row.chunks
    /\ \A c \in DOMAIN row.chunks \ undone : row.chunks[c] = "completed"
    /\ row.source \in Long => \A c \in undone : row.chunks[c] # "completed"
FiledBut(row, unfiled) ==
    \A k \in 1 .. NumItems : IF k \in unfiled THEN row.filed[k] < row.attempts
                                              ELSE row.filed[k] > 0
AtWork(row, at, undone, unfiled) ==
    /\ at # "announce" => row.status # "completed"
    /\ at \in {"map", "mapping", "file", "announce"} => MappedBut(row, undone)
    /\ at \in {"file", "announce"} => undone = {}
    /\ at \in {"open", "map", "mapping"} => FiledBut(row, 1 .. NumItems)
    /\ at \in {"file", "announce"} => FiledBut(row, unfiled)
    /\ at = "announce" => unfiled = {}

Resting == {"down", "poll"}
WorkInv == /\ pc \in Resting => job = NoJob
           /\ pc \notin Resting => job \in DOMAIN jobs /\ AtWork(jobs[job], pc, left, items)

IInv == TypeOK /\ RowsInv /\ WorkInv
-----------------------------------------------------------------------------
(* The data: smallest elements, rows and tables *)

LEMMA UpTo ==
  ASSUME NEW x \in Nat
  PROVE  1 .. x \in FiniteSubsetsOf(Nat)
  <1>1. 1 .. x \subseteq Nat /\ IsFiniteSet(1 .. x)
    BY FS_Interval
  <1> QED BY <1>1 DEF FiniteSubsetsOf

\* Min picks an element of any set of numbers that is not empty: among the
\* intervals 1 .. x there is one that includes no other.
LEMMA HasMin ==
  ASSUME NEW S \in SUBSET Nat, S # {}
  PROVE  Min(S) \in S
  <1> DEFINE T == {1 .. x : x \in S}
  <1>1. T \subseteq FiniteSubsetsOf(Nat) /\ T # {}
    BY UpTo
  <1>2. PICK t \in T : \A u \in T : ~(<<u, t>> \in StrictSubsetOrdering(Nat))
    <2> HIDE DEF T
    <2> QED BY <1>1, WFMin, FS_StrictSubsetOrderingWellFounded
  <1>3. PICK x \in S : t = 1 .. x
    OBVIOUS
  <1>4. \A y \in S : x <= y
    <2> SUFFICES ASSUME NEW y \in S, y < x PROVE FALSE
      OBVIOUS
    <2>1. 1 .. y \subseteq 1 .. x /\ x \in 1 .. x /\ x \notin 1 .. y
      OBVIOUS
    <2>2. 1 .. y \subseteq Nat /\ 1 .. x \subseteq Nat /\ 1 .. y # 1 .. x
      BY <2>1
    <2>3. <<1 .. y, 1 .. x>> \in StrictSubsetOrdering(Nat)
      BY <2>1, <2>2, Zenon DEF StrictSubsetOrdering
    <2> QED BY <1>2, <1>3, <2>3
  <1> QED BY <1>4 DEF Min

LEMMA OneRow ==
  ASSUME NEW rows \in Seq(Row), NEW i \in DOMAIN rows, NEW row \in Row
  PROVE  /\ [rows EXCEPT ![i] = row] \in Seq(Row)
         /\ DOMAIN [rows EXCEPT ![i] = row] = DOMAIN rows
         /\ [rows EXCEPT ![i] = row][i] = row
         /\ \A j \in DOMAIN rows : j # i => [rows EXCEPT ![i] = row][j] = rows[j]
  OBVIOUS

LEMMA OneChunk ==
  ASSUME NEW chunks \in Seq(ChunkStates), NEW c \in DOMAIN chunks, NEW state \in ChunkStates
  PROVE  LET new == [chunks EXCEPT ![c] = state] IN
         /\ new \in Seq(ChunkStates) /\ new # << >> /\ DOMAIN new = DOMAIN chunks
         /\ new[c] = state
         /\ \A d \in DOMAIN chunks : d # c => new[d] = chunks[d]
  <1> DEFINE new == [chunks EXCEPT ![c] = state]
  <1>1. /\ new \in Seq(ChunkStates) /\ DOMAIN new = DOMAIN chunks
        /\ new[c] = state
        /\ \A d \in DOMAIN chunks : d # c => new[d] = chunks[d]
    OBVIOUS
  <1>2. new # << >>
    BY <1>1
  <1> QED BY <1>1, <1>2

\* What Open cuts.
LEMMA CutShape ==
  ASSUME NEW s \in Sources
  PROVE  /\ Cut(s) \in Seq(ChunkStates) /\ Cut(s) # << >>
         /\ DOMAIN Cut(s) \subseteq 1 .. NumChunks
         /\ \A c \in DOMAIN Cut(s) : Cut(s)[c] = "queued"
  <1> DEFINE n == IF s \in Long THEN NumChunks ELSE 1
  <1>1. n \in Nat \ {0} /\ n <= NumChunks
    BY IngestionConstants
  <1>2. Cut(s) = [c \in 1 .. n |-> "queued"]
    BY DEF Cut
  <1> HIDE DEF n
  <1>3. Cut(s) \in [1 .. n -> ChunkStates]
    BY <1>2 DEF ChunkStates
  <1>4. Cut(s) \in Seq(ChunkStates) /\ DOMAIN Cut(s) = 1 .. n
    BY <1>1, <1>3
  <1>5. Cut(s) # << >>
    BY <1>1, <1>4
  <1>6. 1 .. n \subseteq 1 .. NumChunks
    BY <1>1, IngestionConstants
  <1> QED BY <1>2, <1>4, <1>5, <1>6

LEMMA RowTypes ==
  ASSUME TypeOK
  PROVE  jobs \in Seq(Row) /\ \A i \in DOMAIN jobs : jobs[i] \in Row
  <1>1. jobs \in Seq(Row)
    BY DEF TypeOK, Row, Statuses, ChunkStates
  <1> QED BY <1>1

-----------------------------------------------------------------------------
(* Two kinds of step *)

\* A step that rewrites one row and leaves the worker at rest or at that row.
LEMMA RowStep ==
  ASSUME IInv, NEW i \in DOMAIN jobs, NEW row \in Row,
         jobs' = [jobs EXCEPT ![i] = row], UNCHANGED <<retry, crashes>>,
         \A j \in DOMAIN jobs : j # i => ~Announcing(j),
         pc' \in {"down", "poll", "open", "map", "mapping", "file", "announce", "fail"},
         left' \subseteq 1 .. NumChunks, items' \subseteq 1 .. NumItems,
         IF pc' \in Resting THEN job' = NoJob
                            ELSE job' = i /\ AtWork(row, pc', left', items'),
         Sound(row, pc' = "announce", crashes)
  PROVE  IInv'
  <1>1. /\ jobs' \in Seq(Row) /\ DOMAIN jobs' = DOMAIN jobs /\ jobs'[i] = row
        /\ \A j \in DOMAIN jobs : j # i => jobs'[j] = jobs[j]
    BY OneRow, RowTypes DEF IInv
  <1>2. TypeOK'
    BY <1>1 DEF IInv, TypeOK, Row, Statuses, ChunkStates
  <1>3. WorkInv'
    BY <1>1 DEF WorkInv
  <1>4. RowsInv'
    <2> SUFFICES ASSUME NEW j \in DOMAIN jobs
                 PROVE  Sound(jobs'[j], Announcing(j)', crashes')
      BY <1>1 DEF RowsInv
    <2>1. CASE j = i
      <3>1. pc' = "announce" => Announcing(j)'
        BY <2>1 DEF Announcing, Resting
      <3> QED BY <2>1, <3>1, <1>1 DEF Sound
    <2>2. CASE j # i
      <3>1. Sound(jobs[j], FALSE, crashes)
        BY <2>2 DEF IInv, RowsInv, Sound
      <3> QED BY <2>2, <3>1, <1>1 DEF Sound
    <2> QED BY <2>1, <2>2
  <1> QED BY <1>2, <1>3, <1>4 DEF IInv

\* A step of the others: rows change their status, never to completed.
Recast(row, new) ==
    /\ new.status # "completed" \/ new.status = row.status
    /\ new.source = row.source /\ new.attempts = row.attempts /\ new.chunks = row.chunks
    /\ new.filed = row.filed /\ new.announced = row.announced

LEMMA RecastStep ==
  ASSUME IInv, jobs' \in Seq(Row), DOMAIN jobs' = DOMAIN jobs,
         \A i \in DOMAIN jobs : Recast(jobs[i], jobs'[i]),
         UNCHANGED <<job, left, items, crashes>>,
         pc' = pc \/ (pc = "down" /\ pc' = "poll"),
         retry' \in [Clients -> (DOMAIN jobs) \cup {NoJob}]
  PROVE  IInv'
  <1>1. TypeOK'
    BY DEF IInv, TypeOK, Row, Statuses, ChunkStates
  <1>2. RowsInv'
    <2> SUFFICES ASSUME NEW j \in DOMAIN jobs
                 PROVE  Sound(jobs'[j], Announcing(j)', crashes')
      BY DEF RowsInv
    <2>1. Sound(jobs[j], Announcing(j), crashes) /\ Recast(jobs[j], jobs'[j])
      BY DEF IInv, RowsInv
    <2>2. Announcing(j)' = Announcing(j)
      BY DEF Announcing
    <2> QED BY <2>1, <2>2 DEF Sound, Recast, Whole, Done
  <1>3. WorkInv'
    <2>1. CASE pc \in Resting
      BY <2>1 DEF IInv, WorkInv, Resting
    <2>2. CASE pc \notin Resting
      <3>1. job \in DOMAIN jobs /\ AtWork(jobs[job], pc, left, items) /\ pc' = pc
        BY <2>2 DEF IInv, WorkInv, Resting
      <3>2. Recast(jobs[job], jobs'[job])
        BY <3>1
      <3>3. AtWork(jobs'[job], pc, left, items)
        BY <3>1, <3>2 DEF AtWork, Recast, MappedBut, FiledBut
      <3> QED BY <2>2, <3>1, <3>3 DEF WorkInv
    <2> QED BY <2>1, <2>2
  <1> QED BY <1>1, <1>2, <1>3 DEF IInv

-----------------------------------------------------------------------------
(* The steps of the others *)

LEMMA InitInv == Init => IInv
  <1> SUFFICES ASSUME Init PROVE IInv
    OBVIOUS
  <1>1. jobs \in Seq(Row) /\ DOMAIN jobs = {}
    BY DEF Init
  <1>2. TypeOK
    BY <1>1, IngestionConstants DEF Init, TypeOK, Row, Statuses, ChunkStates
  <1> QED BY <1>1, <1>2 DEF Init, IInv, RowsInv, WorkInv, Resting

LEMMA EnqueueInv ==
  ASSUME IInv, NEW s \in Sources, Enqueue(s)
  PROVE  IInv'
  <1>1. CASE Known(s)
    <2>1. UNCHANGED vars
      BY <1>1 DEF Enqueue, vars, worker
    <2> QED BY <2>1 DEF vars, IInv, TypeOK, RowsInv, WorkInv, Announcing
  <1>2. CASE ~Known(s)
    <2> DEFINE row == NewRow(s)
    <2>1. row \in Row /\ Sound(row, FALSE, crashes) /\ row.status # "completed"
      BY IngestionConstants DEF NewRow, Row, Statuses, Sound, Whole
    <2>2. jobs' = Append(jobs, row) /\ UNCHANGED <<worker, retry, crashes>>
      BY <1>2 DEF Enqueue
    <2> HIDE DEF row
    <2>3. /\ jobs' \in Seq(Row) /\ Len(jobs) \in Nat
          /\ DOMAIN jobs' = DOMAIN jobs \cup {Len(jobs) + 1}
          /\ jobs'[Len(jobs) + 1] = row /\ Len(jobs) + 1 \notin DOMAIN jobs
          /\ \A j \in DOMAIN jobs : jobs'[j] = jobs[j]
      BY <2>1, <2>2, RowTypes DEF IInv
    <2>4. TypeOK'
      BY <2>2, <2>3 DEF IInv, TypeOK, Row, Statuses, ChunkStates, worker
    <2>5. RowsInv'
      BY <2>1, <2>2, <2>3 DEF IInv, RowsInv, Announcing, Sound, worker
    <2>6. WorkInv'
      BY <2>2, <2>3 DEF IInv, WorkInv, worker
    <2> QED BY <2>4, <2>5, <2>6 DEF IInv
  <1> QED BY <1>1, <1>2

\* A row with another status and error.
LEMMA Restated ==
  ASSUME NEW row \in Row, NEW status \in Statuses, NEW error \in {"none", "restarted", "run failed"}
  PROVE  LET new == [row EXCEPT !.status = status, !.error = error] IN
         /\ new \in Row /\ new.status = status /\ new.error = error
         /\ status # "completed" => Recast(row, new)
  BY DEF Row, Recast

\* Rows rewritten one by one.
LEMMA Rewritten ==
  ASSUME TypeOK, NEW new, new = [i \in DOMAIN jobs |-> new[i]],
         \A i \in DOMAIN jobs : new[i] \in Row
  PROVE  new \in Seq(Row) /\ DOMAIN new = DOMAIN jobs
  <1>1. Len(jobs) \in Nat /\ DOMAIN jobs = 1 .. Len(jobs)
    BY RowTypes
  <1> QED BY <1>1

LEMMA ArchiveInv ==
  ASSUME IInv, Archive
  PROVE  IInv'
  <1>1. /\ jobs' = [i \in DOMAIN jobs |-> [jobs[i] EXCEPT !.status = "archived"]]
        /\ UNCHANGED <<worker, retry, crashes>>
    BY DEF Archive
  <1>2. \A i \in DOMAIN jobs : jobs'[i] = [jobs[i] EXCEPT !.status = "archived"]
    BY <1>1
  <1>3. \A i \in DOMAIN jobs : jobs'[i] \in Row /\ Recast(jobs[i], jobs'[i])
    <2> SUFFICES ASSUME NEW i \in DOMAIN jobs
                 PROVE  jobs'[i] \in Row /\ Recast(jobs[i], jobs'[i])
      OBVIOUS
    <2>1. jobs[i] \in Row /\ jobs'[i] = [jobs[i] EXCEPT !.status = "archived"]
      BY <1>2, RowTypes DEF IInv
    <2> QED BY <2>1 DEF Row, Statuses, Settled, Recast
  <1>4. jobs' \in Seq(Row) /\ DOMAIN jobs' = DOMAIN jobs
    BY <1>1, <1>3, Rewritten DEF IInv
  <1>5. retry' \in [Clients -> (DOMAIN jobs) \cup {NoJob}]
    BY <1>1 DEF IInv, TypeOK
  <1>6. /\ UNCHANGED <<job, left, items, crashes>>
        /\ pc' = pc \/ (pc = "down" /\ pc' = "poll")
    BY <1>1 DEF worker
  <1> QED BY <1>3, <1>4, <1>5, <1>6, RecastStep

\* What Start makes of a row.
Requeued(row) == [row EXCEPT !.status = "queued", !.error = "restarted"]

LEMMA StartInv ==
  ASSUME IInv, Start
  PROVE  IInv'
  <1>1. /\ jobs' = [i \in DOMAIN jobs |->
                      IF jobs[i].status = "running" THEN Requeued(jobs[i]) ELSE jobs[i]]
        /\ UNCHANGED <<job, left, items, retry, crashes>> /\ pc = "down" /\ pc' = "poll"
    BY DEF Start, Requeued, Goto
  <1>2. \A i \in DOMAIN jobs :
            jobs'[i] = IF jobs[i].status = "running" THEN Requeued(jobs[i]) ELSE jobs[i]
    BY <1>1
  <1>3. \A i \in DOMAIN jobs : jobs'[i] \in Row /\ Recast(jobs[i], jobs'[i])
    <2> SUFFICES ASSUME NEW i \in DOMAIN jobs
                 PROVE  jobs'[i] \in Row /\ Recast(jobs[i], jobs'[i])
      OBVIOUS
    <2>1. jobs[i] \in Row
      BY RowTypes DEF IInv
    <2>2. Requeued(jobs[i]) \in Row /\ Recast(jobs[i], Requeued(jobs[i]))
      BY <2>1, Restated DEF Requeued, Statuses
    <2> QED BY <1>2, <2>1, <2>2 DEF Recast
  <1>4. jobs' \in Seq(Row) /\ DOMAIN jobs' = DOMAIN jobs
    BY <1>1, <1>3, Rewritten DEF IInv
  <1>5. retry' \in [Clients -> (DOMAIN jobs) \cup {NoJob}]
    BY <1>1 DEF IInv, TypeOK
  <1> QED BY <1>1, <1>3, <1>4, <1>5, RecastStep

LEMMA RetryCheckInv ==
  ASSUME IInv, NEW c \in Clients, NEW i \in DOMAIN jobs, RetryCheck(c, i)
  PROVE  IInv'
  <1>1. retry' = [retry EXCEPT ![c] = i] /\ UNCHANGED <<jobs, worker, crashes>>
    BY DEF RetryCheck
  <1>2. retry' \in [Clients -> (DOMAIN jobs) \cup {NoJob}]
    BY <1>1 DEF IInv, TypeOK
  <1>3. jobs' \in Seq(Row) /\ \A j \in DOMAIN jobs : Recast(jobs[j], jobs'[j])
    BY <1>1, RowTypes DEF IInv, Recast
  <1>4. /\ UNCHANGED <<job, left, items, crashes>>
        /\ pc' = pc \/ (pc = "down" /\ pc' = "poll")
        /\ DOMAIN jobs' = DOMAIN jobs
    BY <1>1 DEF worker
  <1> QED BY <1>2, <1>3, <1>4, RecastStep

LEMMA RetryWriteInv ==
  ASSUME IInv, NEW c \in Clients, RetryWrite(c)
  PROVE  IInv'
  <1> DEFINE i == retry[c]
             row == [jobs[i] EXCEPT !.status = "queued", !.error = "none"]
  <1>1. i \in DOMAIN jobs /\ jobs[i] \in Row
    BY RowTypes DEF IInv, TypeOK, RetryWrite
  <1>2. jobs' = [jobs EXCEPT ![i] = row]
    BY <1>1 DEF RetryWrite, Row
  <1>3. row \in Row /\ Recast(jobs[i], row)
    BY <1>1 DEF Row, Statuses, Recast
  <1>4. /\ retry' \in [Clients -> (DOMAIN jobs) \cup {NoJob}]
        /\ UNCHANGED <<job, left, items, crashes>>
        /\ pc' = pc \/ (pc = "down" /\ pc' = "poll")
    BY DEF RetryWrite, IInv, TypeOK, worker
  <1> HIDE DEF i, row
  <1>5. /\ jobs' \in Seq(Row) /\ DOMAIN jobs' = DOMAIN jobs /\ jobs'[i] = row
        /\ \A j \in DOMAIN jobs : j # i => jobs'[j] = jobs[j]
    BY <1>1, <1>2, <1>3, OneRow, RowTypes DEF IInv
  <1>6. \A j \in DOMAIN jobs : Recast(jobs[j], jobs'[j])
    BY <1>3, <1>5 DEF Recast
  <1> QED BY <1>4, <1>5, <1>6, RecastStep

LEMMA CrashInv ==
  ASSUME IInv, Crash
  PROVE  IInv'
  <1>1. /\ jobs' = jobs /\ pc' = "down" /\ job' = NoJob /\ left' = {} /\ items' = {}
        /\ retry' = [c \in Clients |-> NoJob] /\ crashes' = crashes + 1
    BY DEF Crash
  <1>2. crashes \in Nat /\ crashes' \in 0 .. MaxCrashes
    <2>1. crashes \in 0 .. MaxCrashes /\ MaxCrashes \in Nat
      BY IngestionConstants DEF IInv, TypeOK
    <2>2. crashes < MaxCrashes
      BY DEF Crash
    <2> QED BY <1>1, <2>1, <2>2
  <1>3. TypeOK'
    BY <1>1, <1>2 DEF IInv, TypeOK
  <1>4. RowsInv'
    BY <1>1, <1>2 DEF IInv, RowsInv, Announcing, Sound
  <1>5. WorkInv'
    BY <1>1 DEF WorkInv, Resting
  <1> QED BY <1>3, <1>4, <1>5 DEF IInv

-----------------------------------------------------------------------------
(* The steps of the worker *)

\* The row the worker is at, which is the only one that may be announced.
LEMMA WorkerRow ==
  ASSUME IInv, pc \notin Resting
  PROVE  /\ job \in DOMAIN jobs /\ jobs[job] \in Row
         /\ AtWork(jobs[job], pc, left, items)
         /\ Sound(jobs[job], pc = "announce", crashes)
         /\ \A j \in DOMAIN jobs : j # job => ~Announcing(j)
         /\ left \subseteq 1 .. NumChunks /\ items \subseteq 1 .. NumItems
         /\ jobs' = jobs => jobs' = [jobs EXCEPT ![job] = jobs[job]]
  <1>1. job \in DOMAIN jobs /\ AtWork(jobs[job], pc, left, items)
    BY DEF IInv, WorkInv
  <1>2. jobs[job] \in Row /\ jobs \in Seq(Row)
    BY <1>1, RowTypes DEF IInv
  <1>3. Sound(jobs[job], pc = "announce", crashes)
    BY <1>1 DEF IInv, RowsInv, Announcing
  <1>4. jobs = [jobs EXCEPT ![job] = jobs[job]]
    BY <1>1, <1>2
  <1>5. left \subseteq 1 .. NumChunks /\ items \subseteq 1 .. NumItems
    BY DEF IInv, TypeOK
  <1> QED BY <1>1, <1>2, <1>3, <1>4, <1>5 DEF Announcing

\* Nothing is announced while the worker is anywhere else.
LEMMA NotAnnouncing ==
  ASSUME IInv, NEW i \in DOMAIN jobs, pc # "announce"
  PROVE  Sound(jobs[i], FALSE, crashes) /\ ~Announcing(i)
  BY DEF IInv, RowsInv, Announcing

LEMMA RowNumbers ==
  ASSUME NEW row \in Row
  PROVE  /\ row.attempts \in Nat /\ row.filed \in [1 .. NumItems -> Nat]
         /\ row.attempts < MaxAttempts => row.attempts + 1 \in 0 .. MaxAttempts
  <1>1. row.attempts \in 0 .. MaxAttempts /\ row.filed \in [1 .. NumItems -> Nat]
    BY DEF Row
  <1>2. MaxAttempts \in Nat
    BY IngestionConstants
  <1> QED BY <1>1, <1>2

LEMMA Claimed ==
  ASSUME NEW row \in Row, row.attempts < MaxAttempts
  PROVE  LET r == [row EXCEPT !.status = "running", !.error = "none", !.attempts = @ + 1] IN
         /\ r \in Row /\ r.status = "running" /\ r.attempts = row.attempts + 1
         /\ r.chunks = row.chunks /\ r.filed = row.filed
         /\ r.source = row.source /\ r.announced = row.announced
  <1>1. row.attempts + 1 \in 0 .. MaxAttempts
    BY RowNumbers
  <1> QED BY <1>1 DEF Row, Statuses

LEMMA ClaimInv ==
  ASSUME IInv, Claim
  PROVE  IInv'
  <1> DEFINE i == Min(Claimable)
             row == [jobs[i] EXCEPT !.status = "running", !.error = "none",
                                    !.attempts = @ + 1]
  <1>1. i \in Claimable
    <2>1. Claimable \subseteq Nat /\ Claimable # {}
      <3>1. jobs \in Seq(Row)
        BY RowTypes DEF IInv
      <3>2. DOMAIN jobs \subseteq Nat
        BY <3>1
      <3> QED BY <3>2 DEF Claim, Claimable
    <2> QED BY <2>1, HasMin
  <1>2. /\ i \in DOMAIN jobs /\ jobs[i].status = "queued" /\ jobs[i].attempts < MaxAttempts
        /\ jobs[i] \in Row
    BY <1>1, RowTypes DEF Claimable, IInv
  <1> HIDE DEF i
  <1>3. /\ row \in Row /\ row.status = "running" /\ row.attempts = jobs[i].attempts + 1
        /\ row.chunks = jobs[i].chunks /\ row.filed = jobs[i].filed
        /\ row.source = jobs[i].source /\ row.announced = jobs[i].announced
    BY <1>2, Claimed
  <1>4. jobs' = [jobs EXCEPT ![i] = row]
    BY <1>2 DEF Claim, Row, i
  <1> HIDE DEF row
  <1>5. /\ pc = "poll" /\ pc' = "open" /\ job' = i
        /\ UNCHANGED <<left, items, retry, crashes>>
    BY DEF Claim, Goto, i
  <1>6. Sound(jobs[i], FALSE, crashes) /\ \A j \in DOMAIN jobs : ~Announcing(j)
    BY <1>2, <1>5, NotAnnouncing
  <1>7. \A k \in 1 .. NumItems : row.filed[k] < row.attempts /\ row.filed[k] <= row.attempts
    <2>1. jobs[i].attempts \in Nat /\ jobs[i].filed \in [1 .. NumItems -> Nat]
      BY <1>2, RowNumbers
    <2>2. \A k \in 1 .. NumItems : jobs[i].filed[k] <= jobs[i].attempts
      BY <1>6 DEF Sound
    <2>3. \A k \in 1 .. NumItems : jobs[i].filed[k] \in Nat
      BY <2>1
    <2> QED BY <1>3, <2>1, <2>2, <2>3
  <1>8. Sound(row, pc' = "announce", crashes)
    BY <1>3, <1>6, <1>7 DEF Sound
  <1>9. AtWork(row, pc', left', items')
    BY <1>3, <1>5, <1>7 DEF AtWork, FiledBut
  <1>10. left' \subseteq 1 .. NumChunks /\ items' \subseteq 1 .. NumItems
    BY <1>5 DEF IInv, TypeOK
  <1> QED BY <1>2, <1>3, <1>4, <1>5, <1>6, <1>8, <1>9, <1>10, RowStep DEF Resting

\* A chunk list that replaces the one of the row.
LEMMA Rechunked ==
  ASSUME NEW row \in Row, NEW new \in Seq(ChunkStates)
  PROVE  LET r == [row EXCEPT !.chunks = new] IN
         /\ r \in Row /\ r.status = row.status /\ r.attempts = row.attempts
         /\ r.chunks = new /\ r.filed = row.filed /\ r.source = row.source
         /\ r.announced = row.announced
  BY DEF Row

LEMMA OpenInv ==
  ASSUME IInv, Open
  PROVE  IInv'
  <1> DEFINE old == jobs[job]
             new == IF old.chunks = << >> THEN Cut(old.source) ELSE old.chunks
             row == [old EXCEPT !.chunks = new]
  <1>1. /\ pc = "open" /\ old.status = "running" /\ pc' = "map"
        /\ old.source \notin Workbooks
        /\ UNCHANGED <<job, items, retry, crashes>>
        /\ left' = DOMAIN Cut(old.source) \ IF old.source \in Long THEN Done(old) ELSE {}
    BY DEF Open
  <1>2. /\ job \in DOMAIN jobs /\ old \in Row /\ AtWork(old, "open", left, items)
        /\ Sound(old, FALSE, crashes) /\ items \subseteq 1 .. NumItems
        /\ \A j \in DOMAIN jobs : j # job => ~Announcing(j)
    <2>1. pc \notin Resting
      BY <1>1 DEF Resting
    <2> QED BY <1>1, <2>1, WorkerRow, NotAnnouncing
  <1>3. /\ old.source \in Sources /\ old.chunks \in Seq(ChunkStates)
    BY <1>2 DEF Row
  <1>4. /\ new \in Seq(ChunkStates) /\ new # << >> /\ DOMAIN new = DOMAIN Cut(old.source)
        /\ DOMAIN new \subseteq 1 .. NumChunks
    BY <1>2, <1>3, CutShape DEF Sound
  <1>5. \A c \in DOMAIN new : new[c] = "completed" <=> c \in Done(old)
    BY <1>3, <1>4, CutShape DEF Done
  <1>6. jobs' = [jobs EXCEPT ![job] = row]
    <2>1. CASE old.chunks = << >>
      <3>1. jobs' = [jobs EXCEPT ![job].chunks = Cut(jobs[job].source)]
        BY <2>1 DEF Open
      <3> QED BY <1>2, <2>1, <3>1
    <2>2. CASE old.chunks # << >>
      <3>1. jobs' = jobs
        BY <2>2 DEF Open
      <3>2. row = old
        BY <1>2, <2>2 DEF Row
      <3>3. jobs \in Seq(Row)
        BY RowTypes DEF IInv
      <3> QED BY <1>2, <3>1, <3>2, <3>3
    <2> QED BY <2>1, <2>2
  <1>7. /\ row \in Row /\ row.status = old.status /\ row.attempts = old.attempts
        /\ row.chunks = new /\ row.filed = old.filed /\ row.source = old.source
        /\ row.announced = old.announced
    <2> HIDE DEF new
    <2> QED BY <1>2, <1>4, Rechunked
  <1> HIDE DEF new, row
  <1>8. Sound(row, pc' = "announce", crashes)
    BY <1>1, <1>2, <1>4, <1>7 DEF Sound
  <1>9. MappedBut(row, left')
    BY <1>1, <1>4, <1>5, <1>7 DEF MappedBut
  <1>10. AtWork(row, pc', left', items')
    BY <1>1, <1>2, <1>7, <1>9 DEF AtWork, FiledBut
  <1>11. left' \subseteq 1 .. NumChunks /\ items' \subseteq 1 .. NumItems
    BY <1>1, <1>2, <1>4
  <1> QED BY <1>1, <1>2, <1>6, <1>7, <1>8, <1>10, <1>11, RowStep DEF Resting

\* A workbook has no chunk to be mapped.
LEMMA OpenWorkbookInv ==
  ASSUME IInv, OpenWorkbook
  PROVE  IInv'
  <1> DEFINE row == jobs[job]
  <1>1. /\ pc = "open" /\ pc' = "file" /\ row.source \in Workbooks /\ row.status = "running"
        /\ left' = {} /\ items' = 1 .. NumItems
        /\ UNCHANGED <<jobs, job, retry, crashes>>
    BY DEF OpenWorkbook, Goto
  <1>2. /\ job \in DOMAIN jobs /\ row \in Row /\ AtWork(row, "open", left, items)
        /\ Sound(row, FALSE, crashes)
        /\ \A j \in DOMAIN jobs : j # job => ~Announcing(j)
        /\ jobs' = [jobs EXCEPT ![job] = row]
    <2>1. pc \notin Resting
      BY <1>1 DEF Resting
    <2> QED BY <1>1, <2>1, WorkerRow, NotAnnouncing
  <1>3. Sound(row, pc' = "announce", crashes)
    BY <1>1, <1>2 DEF Sound
  <1>4. row.chunks = << >> /\ MappedBut(row, {})
    BY <1>1, <1>2 DEF Sound, MappedBut
  <1>5. AtWork(row, pc', left', items')
    BY <1>1, <1>2, <1>4 DEF AtWork, FiledBut
  <1> HIDE DEF row
  <1> QED BY <1>1, <1>2, <1>3, <1>5, RowStep DEF Resting

\* A row whose chunk is put in another state.
LEMMA ChunkRow ==
  ASSUME IInv, job \in DOMAIN jobs, NEW c \in DOMAIN jobs[job].chunks,
         NEW state \in ChunkStates, jobs' = [jobs EXCEPT ![job].chunks[c] = state]
  PROVE  LET new == [jobs[job].chunks EXCEPT ![c] = state] IN
         /\ new \in Seq(ChunkStates)
         /\ jobs' = [jobs EXCEPT ![job] = [jobs[job] EXCEPT !.chunks = new]]
  <1>1. jobs[job] \in Row
    BY RowTypes DEF IInv
  <1>2. jobs[job].chunks \in Seq(ChunkStates)
    BY <1>1 DEF Row
  <1> QED BY <1>2, OneChunk

\* The smallest chunk that is left is a chunk of the row.
LEMMA NextChunk ==
  ASSUME IInv, pc \in {"map", "mapping"}, left # {}
  PROVE  /\ job \in DOMAIN jobs /\ jobs[job] \in Row
         /\ Min(left) \in left /\ Min(left) \in DOMAIN jobs[job].chunks
         /\ jobs[job].chunks \in Seq(ChunkStates)
         /\ jobs[job].status # "completed"
         /\ MappedBut(jobs[job], left) /\ FiledBut(jobs[job], 1 .. NumItems)
         /\ Sound(jobs[job], FALSE, crashes)
         /\ \A j \in DOMAIN jobs : j # job => ~Announcing(j)
         /\ left \subseteq 1 .. NumChunks /\ items \subseteq 1 .. NumItems
  <1>1. /\ job \in DOMAIN jobs /\ jobs[job] \in Row /\ AtWork(jobs[job], pc, left, items)
        /\ Sound(jobs[job], FALSE, crashes)
        /\ \A j \in DOMAIN jobs : j # job => ~Announcing(j)
        /\ left \subseteq 1 .. NumChunks /\ items \subseteq 1 .. NumItems
    <2>1. pc \notin Resting /\ pc # "announce"
      BY DEF Resting
    <2> QED BY <2>1, WorkerRow, NotAnnouncing
  <1>2. Min(left) \in left
    <2>1. left \in SUBSET Nat
      BY <1>1
    <2> QED BY <2>1, HasMin
  <1>3. MappedBut(jobs[job], left) /\ FiledBut(jobs[job], 1 .. NumItems)
        /\ jobs[job].status # "completed"
    BY <1>1 DEF AtWork
  <1> QED BY <1>1, <1>2, <1>3 DEF MappedBut, Row

LEMMA StartChunkInv ==
  ASSUME IInv, StartChunk
  PROVE  IInv'
  <1> DEFINE old == jobs[job]
             c   == Min(left)
             new == [old.chunks EXCEPT ![c] = "running"]
             row == [old EXCEPT !.chunks = new]
  <1>1. /\ pc = "map" /\ pc' = "mapping" /\ left # {} /\ old.source \in Long
        /\ UNCHANGED <<job, left, items, retry, crashes>>
    BY DEF StartChunk, Goto
  <1>2. /\ job \in DOMAIN jobs /\ old \in Row /\ c \in left /\ c \in DOMAIN old.chunks
        /\ old.chunks \in Seq(ChunkStates) /\ old.status # "completed"
        /\ MappedBut(old, left) /\ FiledBut(old, 1 .. NumItems) /\ Sound(old, FALSE, crashes)
        /\ \A j \in DOMAIN jobs : j # job => ~Announcing(j)
        /\ left \subseteq 1 .. NumChunks /\ items \subseteq 1 .. NumItems
    BY <1>1, NextChunk
  <1>3. new \in Seq(ChunkStates) /\ jobs' = [jobs EXCEPT ![job] = row]
    <2>1. jobs' = [jobs EXCEPT ![job].chunks[Min(left)] = "running"]
      BY DEF StartChunk
    <2> QED BY <1>2, <2>1, ChunkRow DEF ChunkStates
  <1>4. /\ new # << >> /\ DOMAIN new = DOMAIN old.chunks /\ new[c] = "running"
        /\ \A d \in DOMAIN old.chunks : d # c => new[d] = old.chunks[d]
    <2> HIDE DEF c
    <2> QED BY <1>2, OneChunk DEF ChunkStates
  <1>5. /\ row \in Row /\ row.status = old.status /\ row.attempts = old.attempts
        /\ row.chunks = new /\ row.filed = old.filed /\ row.source = old.source
        /\ row.announced = old.announced
    <2> HIDE DEF new
    <2> QED BY <1>2, <1>3, Rechunked
  <1> HIDE DEF new, row, c, old
  <1>6. Sound(row, pc' = "announce", crashes)
    BY <1>2, <1>4, <1>5 DEF Sound, MappedBut
  <1>7. MappedBut(row, left)
    BY <1>2, <1>4, <1>5 DEF MappedBut
  <1>8. AtWork(row, pc', left', items')
    BY <1>1, <1>2, <1>5, <1>7 DEF AtWork, FiledBut
  <1> QED BY <1>1, <1>2, <1>3, <1>5, <1>6, <1>8, RowStep DEF Resting

LEMMA FinishChunkInv ==
  ASSUME IInv, FinishChunk
  PROVE  IInv'
  <1> DEFINE old == jobs[job]
             c   == Min(left)
             new == [old.chunks EXCEPT ![c] = "completed"]
             row == [old EXCEPT !.chunks = new]
  <1>1. /\ pc \in {"map", "mapping"} /\ pc' = "map" /\ left # {} /\ left' = left \ {c}
        /\ UNCHANGED <<job, items, retry, crashes>>
    BY DEF FinishChunk, Goto
  <1>2. /\ job \in DOMAIN jobs /\ old \in Row /\ c \in left /\ c \in DOMAIN old.chunks
        /\ old.chunks \in Seq(ChunkStates) /\ old.status # "completed"
        /\ MappedBut(old, left) /\ FiledBut(old, 1 .. NumItems) /\ Sound(old, FALSE, crashes)
        /\ \A j \in DOMAIN jobs : j # job => ~Announcing(j)
        /\ left \subseteq 1 .. NumChunks /\ items \subseteq 1 .. NumItems
    BY <1>1, NextChunk
  <1>3. new \in Seq(ChunkStates) /\ jobs' = [jobs EXCEPT ![job] = row]
    <2>1. jobs' = [jobs EXCEPT ![job].chunks[Min(left)] = "completed"]
      BY DEF FinishChunk
    <2> QED BY <1>2, <2>1, ChunkRow DEF ChunkStates
  <1>4. /\ new # << >> /\ DOMAIN new = DOMAIN old.chunks /\ new[c] = "completed"
        /\ \A d \in DOMAIN old.chunks : d # c => new[d] = old.chunks[d]
    <2> HIDE DEF c
    <2> QED BY <1>2, OneChunk DEF ChunkStates
  <1>5. /\ row \in Row /\ row.status = old.status /\ row.attempts = old.attempts
        /\ row.chunks = new /\ row.filed = old.filed /\ row.source = old.source
        /\ row.announced = old.announced
    <2> HIDE DEF new
    <2> QED BY <1>2, <1>3, Rechunked
  <1> HIDE DEF new, row, c, old
  <1>6. Sound(row, pc' = "announce", crashes)
    BY <1>2, <1>4, <1>5 DEF Sound, MappedBut
  <1>7. MappedBut(row, left')
    BY <1>1, <1>2, <1>4, <1>5 DEF MappedBut
  <1>8. AtWork(row, pc', left', items')
    BY <1>1, <1>2, <1>5, <1>7 DEF AtWork, FiledBut
  <1>9. left' \subseteq 1 .. NumChunks /\ items' \subseteq 1 .. NumItems
    BY <1>1, <1>2
  <1> QED BY <1>1, <1>2, <1>3, <1>5, <1>6, <1>8, <1>9, RowStep DEF Resting

\* Steps that leave the rows alone.
LEMMA MoveInv ==
  ASSUME IInv, OpenRefused \/ Raise \/ Extract
  PROVE  IInv'
  <1>1. /\ pc \in {"open", "map", "mapping", "file"} /\ pc' \in {"fail", "file"}
        /\ UNCHANGED <<jobs, job, left, retry, crashes>>
    BY DEF OpenRefused, Raise, Extract, Goto
  <1>2. /\ job \in DOMAIN jobs /\ jobs[job] \in Row /\ AtWork(jobs[job], pc, left, items)
        /\ Sound(jobs[job], FALSE, crashes)
        /\ \A j \in DOMAIN jobs : j # job => ~Announcing(j)
        /\ left \subseteq 1 .. NumChunks /\ items \subseteq 1 .. NumItems
        /\ jobs' = [jobs EXCEPT ![job] = jobs[job]]
    <2>1. pc \notin Resting /\ pc # "announce"
      BY <1>1 DEF Resting
    <2> QED BY <1>1, <2>1, WorkerRow, NotAnnouncing
  <1>3. AtWork(jobs[job], pc', left', items') /\ items' \subseteq 1 .. NumItems
    <2>1. CASE Extract
      BY <1>1, <1>2, <2>1 DEF Extract, Goto, AtWork
    <2>2. CASE OpenRefused \/ Raise
      BY <1>1, <1>2, <2>2 DEF OpenRefused, Raise, AtWork
    <2> QED BY <2>1, <2>2
  <1>4. Sound(jobs[job], pc' = "announce", crashes)
    BY <1>2 DEF Sound
  <1> QED BY <1>1, <1>2, <1>3, <1>4, RowStep DEF Resting

LEMMA OneMore ==
  ASSUME NEW f \in [1 .. NumItems -> Nat], NEW k \in 1 .. NumItems
  PROVE  LET g == [f EXCEPT ![k] = f[k] + 1] IN
         /\ g \in [1 .. NumItems -> Nat] /\ g[k] = f[k] + 1
         /\ \A n \in 1 .. NumItems : n # k => g[n] = f[n]
  <1>1. f[k] + 1 \in Nat
    OBVIOUS
  <1> QED BY <1>1

LEMMA ConsolidateInv ==
  ASSUME IInv, Consolidate
  PROVE  IInv'
  <1> DEFINE old == jobs[job]
             k   == Min(items)
             new == [old.filed EXCEPT ![k] = old.filed[k] + 1]
             row == [old EXCEPT !.filed = new]
  <1>1. /\ pc = "file" /\ items # {} /\ items' = items \ {k}
        /\ UNCHANGED <<pc, job, left, retry, crashes>>
    BY DEF Consolidate
  <1>2. /\ job \in DOMAIN jobs /\ old \in Row /\ AtWork(old, "file", left, items)
        /\ Sound(old, FALSE, crashes)
        /\ \A j \in DOMAIN jobs : j # job => ~Announcing(j)
        /\ left \subseteq 1 .. NumChunks /\ items \subseteq 1 .. NumItems
    <2>1. pc \notin Resting
      BY <1>1 DEF Resting
    <2> QED BY <1>1, <2>1, WorkerRow, NotAnnouncing
  <1>3. k \in items /\ k \in 1 .. NumItems
    <2>1. items \in SUBSET Nat
      BY <1>2
    <2> QED BY <1>1, <1>2, <2>1, HasMin
  <1>4. /\ old.filed \in [1 .. NumItems -> Nat] /\ old.attempts \in Nat
        /\ old.filed[k] \in Nat
    BY <1>2, <1>3, RowNumbers
  <1>5. jobs' = [jobs EXCEPT ![job] = row]
    <2>1. jobs' = [jobs EXCEPT ![job].filed[k] = @ + 1]
      BY DEF Consolidate
    <2> HIDE DEF k
    <2> QED BY <1>2, <1>3, <1>4, <2>1
  <1> HIDE DEF k
  <1>6. /\ new \in [1 .. NumItems -> Nat] /\ new[k] = old.filed[k] + 1
        /\ \A n \in 1 .. NumItems : n # k => new[n] = old.filed[n]
    BY <1>3, <1>4, OneMore
  <1> HIDE DEF new
  <1>7. /\ row \in Row /\ row.status = old.status /\ row.attempts = old.attempts
        /\ row.chunks = old.chunks /\ row.filed = new /\ row.source = old.source
        /\ row.announced = old.announced
    BY <1>2, <1>6 DEF Row
  <1> HIDE DEF row, old
  <1>8. old.status # "completed" /\ old.filed[k] < old.attempts /\ FiledBut(old, items)
    BY <1>2, <1>3 DEF AtWork, FiledBut
  <1>9. \A n \in 1 .. NumItems : new[n] <= old.attempts
    <2> SUFFICES ASSUME NEW n \in 1 .. NumItems PROVE new[n] <= old.attempts
      OBVIOUS
    <2>1. CASE n = k
      BY <1>4, <1>6, <1>8, <2>1
    <2>2. CASE n # k
      BY <1>2, <1>6, <2>2 DEF Sound
    <2> QED BY <2>1, <2>2
  <1>10. Sound(row, pc' = "announce", crashes)
    BY <1>2, <1>7, <1>8, <1>9 DEF Sound
  <1>11. FiledBut(row, items')
    <2> SUFFICES ASSUME NEW n \in 1 .. NumItems
                 PROVE  IF n \in items' THEN new[n] < old.attempts ELSE new[n] > 0
      BY <1>7 DEF FiledBut
    <2>1. CASE n = k
      BY <1>1, <1>4, <1>6, <2>1
    <2>2. CASE n # k
      BY <1>1, <1>6, <1>8, <2>2 DEF FiledBut
    <2> QED BY <2>1, <2>2
  <1>12. AtWork(row, pc', left', items')
    BY <1>1, <1>2, <1>7, <1>11 DEF AtWork, MappedBut
  <1>13. items' \subseteq 1 .. NumItems
    BY <1>1, <1>2
  <1> QED BY <1>1, <1>2, <1>5, <1>7, <1>10, <1>12, <1>13, RowStep DEF Resting

LEMMA CompleteInv ==
  ASSUME IInv, Complete
  PROVE  IInv'
  <1> DEFINE old == jobs[job]
             row == [old EXCEPT !.status = "completed", !.error = "none"]
  <1>1. /\ pc = "file" /\ pc' = "announce" /\ items = {}
        /\ UNCHANGED <<job, left, items, retry, crashes>>
    BY DEF Complete, Goto
  <1>2. /\ job \in DOMAIN jobs /\ old \in Row /\ AtWork(old, "file", left, items)
        /\ Sound(old, FALSE, crashes)
        /\ \A j \in DOMAIN jobs : j # job => ~Announcing(j)
        /\ left \subseteq 1 .. NumChunks /\ items \subseteq 1 .. NumItems
    <2>1. pc \notin Resting
      BY <1>1 DEF Resting
    <2> QED BY <1>1, <2>1, WorkerRow, NotAnnouncing
  <1>3. jobs' = [jobs EXCEPT ![job] = row]
    BY <1>2 DEF Complete, Row
  <1>4. /\ row \in Row /\ row.attempts = old.attempts /\ row.chunks = old.chunks
        /\ row.filed = old.filed /\ row.source = old.source
    BY <1>2 DEF Row, Statuses, Settled
  <1> HIDE DEF row, old
  <1>5. MappedBut(old, {}) /\ FiledBut(old, {}) /\ left = {}
    BY <1>1, <1>2 DEF AtWork
  <1>6. Whole(row)
    BY <1>4, <1>5 DEF Whole, MappedBut, FiledBut, Done
  <1>7. Sound(row, pc' = "announce", crashes)
    BY <1>1, <1>2, <1>4, <1>6 DEF Sound
  <1>8. AtWork(row, pc', left', items')
    BY <1>1, <1>4, <1>5 DEF AtWork, MappedBut, FiledBut
  <1> QED BY <1>1, <1>2, <1>3, <1>4, <1>7, <1>8, RowStep DEF Resting

LEMMA AnnounceInv ==
  ASSUME IInv, Announce
  PROVE  IInv'
  <1> DEFINE old == jobs[job]
             row == [old EXCEPT !.announced = @ + 1]
  <1>1. /\ pc = "announce" /\ pc' = "poll" /\ job' = NoJob
        /\ UNCHANGED <<left, items, retry, crashes>>
    BY DEF Announce, Goto
  <1>2. /\ job \in DOMAIN jobs /\ old \in Row /\ Sound(old, TRUE, crashes)
        /\ \A j \in DOMAIN jobs : j # job => ~Announcing(j)
        /\ left \subseteq 1 .. NumChunks /\ items \subseteq 1 .. NumItems
    <2>1. pc \notin Resting
      BY <1>1 DEF Resting
    <2> QED BY <1>1, <2>1, WorkerRow DEF Sound
  <1>3. jobs' = [jobs EXCEPT ![job] = row]
    BY <1>2 DEF Announce, Row
  <1>4. /\ row \in Row /\ row.attempts = old.attempts /\ row.chunks = old.chunks
        /\ row.filed = old.filed /\ row.source = old.source /\ row.status = old.status
        /\ row.announced > 0
    <2>1. old.announced \in Nat
      BY <1>2 DEF Row
    <2>2. old.announced + 1 \in Nat /\ old.announced + 1 > 0
      BY <2>1
    <2> QED BY <1>2, <2>2 DEF Row
  <1> HIDE DEF row, old
  <1>5. Sound(row, pc' = "announce", crashes)
    BY <1>2, <1>4 DEF Sound, Whole, Done
  <1> QED BY <1>1, <1>2, <1>3, <1>4, <1>5, RowStep DEF Resting

LEMMA FailInv ==
  ASSUME IInv, Fail
  PROVE  IInv'
  <1> DEFINE old == jobs[job]
             row == [old EXCEPT !.status = "failed", !.error = "run failed"]
  <1>1. /\ pc = "fail" /\ pc' = "poll" /\ job' = NoJob /\ left' = {} /\ items' = {}
        /\ UNCHANGED <<retry, crashes>>
    BY DEF Fail, Goto
  <1>2. /\ job \in DOMAIN jobs /\ old \in Row /\ Sound(old, FALSE, crashes)
        /\ \A j \in DOMAIN jobs : j # job => ~Announcing(j)
    <2>1. pc \notin Resting
      BY <1>1 DEF Resting
    <2> QED BY <1>1, <2>1, WorkerRow, NotAnnouncing
  <1>3. jobs' = [jobs EXCEPT ![job] = row]
    BY <1>2 DEF Fail, Row
  <1>4. /\ row \in Row /\ row.status = "failed" /\ row.attempts = old.attempts
        /\ row.chunks = old.chunks /\ row.filed = old.filed /\ row.source = old.source
    BY <1>2 DEF Row, Statuses, Settled
  <1> HIDE DEF row, old
  <1>5. Sound(row, pc' = "announce", crashes)
    BY <1>2, <1>4 DEF Sound
  <1> QED BY <1>1, <1>2, <1>3, <1>4, <1>5, RowStep DEF Resting

-----------------------------------------------------------------------------
(* The invariant *)

LEMMA NextInv == IInv /\ [Next]_vars => IInv'
  <1> SUFFICES ASSUME IInv, [Next]_vars PROVE IInv'
    OBVIOUS
  <1>1. CASE Work
    BY <1>1, ClaimInv, OpenInv, OpenWorkbookInv, StartChunkInv, FinishChunkInv, MoveInv, ConsolidateInv,
       CompleteInv, AnnounceInv, FailInv DEF Work
  <1>2. CASE Start \/ Crash \/ Archive
    BY <1>2, StartInv, CrashInv, ArchiveInv
  <1>3. CASE \E s \in Sources : Enqueue(s)
    BY <1>3, EnqueueInv
  <1>4. CASE \E c \in Clients : RetryWrite(c) \/ \E i \in DOMAIN jobs : RetryCheck(c, i)
    BY <1>4, RetryWriteInv, RetryCheckInv
  <1>5. CASE UNCHANGED vars
    BY <1>5 DEF vars, IInv, TypeOK, RowsInv, WorkInv, Announcing
  <1> QED BY <1>1, <1>2, <1>3, <1>4, <1>5 DEF Next

\* The rows stay sound and the worker's place agrees with the row it is at.
THEOREM Invariance == Spec => []IInv
  BY InitInv, NextInv, PTL DEF Spec

\* Rows, chunks and the worker keep their form.
THEOREM TypeCorrect == Spec => []TypeOK
  <1>1. IInv => TypeOK
    BY DEF IInv
  <1> QED BY <1>1, Invariance, PTL

\* A completed job has every chunk mapped and every item consolidated, or every
\* row imported and no chunk if it is a workbook; nothing is filed more often than
\* there were attempts, and the event is missing only after an exit
\* (complete_ingestion_job at the end of _process_meeting_source and of
\* StructuredIngestionService.process_job).
THEOREM CompletionComplete == Spec => []CompletedIsComplete
  <1>1. IInv => CompletedIsComplete
    <2> SUFFICES ASSUME IInv PROVE CompletedIsComplete
      OBVIOUS
    <2>1. \A i \in DOMAIN jobs : Sound(jobs[i], Announcing(i), crashes)
      BY DEF IInv, RowsInv
    <2>2. TypeOK
      BY DEF IInv
    <2> QED BY <2>1, <2>2 DEF CompletedIsComplete, Sound, Whole, Announcing
  <1> QED BY <1>1, Invariance, PTL

-----------------------------------------------------------------------------
(* What a step may do to a row *)

\* Where a status and the chunks of row i come from.
Fate(i) ==
    /\ \/ jobs'[i].status = jobs[i].status
       \/ jobs'[i].status = "archived"
       \/ jobs'[i].status = "queued" /\ Checked(i)
       \/ /\ jobs'[i].status = "queued" /\ jobs'[i].error = "restarted"
          /\ jobs[i].status = "running"
       \/ jobs'[i].status = "running" /\ jobs[i].status = "queued"
       \/ jobs'[i].status \in {"completed", "failed"} /\ job = i
    /\ \/ jobs'[i].chunks = jobs[i].chunks
       \/ jobs[i].chunks = << >>
       \/ \E c \in DOMAIN jobs[i].chunks : \E state \in ChunkStates :
             /\ jobs'[i].chunks = [jobs[i].chunks EXCEPT ![c] = state]
             /\ state = "completed" \/ c \notin Done(jobs[i]) \/ jobs[i].source \notin Long
    /\ jobs'[i].source = jobs[i].source

\* One row is rewritten.
LEMMA OneFate ==
  ASSUME TypeOK, NEW i \in DOMAIN jobs, NEW row, jobs' = [jobs EXCEPT ![i] = row],
         jobs'[i] = row => Fate(i)
  PROVE  DOMAIN jobs' = DOMAIN jobs /\ \A j \in DOMAIN jobs : Fate(j)
  <1>1. jobs \in Seq(Row)
    BY RowTypes
  <1>2. DOMAIN jobs' = DOMAIN jobs /\ jobs'[i] = row
    BY <1>1
  <1>3. \A j \in DOMAIN jobs : j # i => jobs'[j] = jobs[j]
    BY <1>1
  <1>4. ASSUME NEW j \in DOMAIN jobs PROVE Fate(j)
    <2>1. CASE j = i
      BY <1>2, <2>1
    <2>2. CASE j # i
      BY <1>3, <2>2 DEF Fate
    <2> QED BY <2>1, <2>2
  <1> QED BY <1>2, <1>4

LEMMA WorkFate ==
  ASSUME IInv, Work
  PROVE  DOMAIN jobs' = DOMAIN jobs /\ \A j \in DOMAIN jobs : Fate(j)
  <1>1. TypeOK /\ \A i \in DOMAIN jobs : jobs[i] \in Row
    BY RowTypes DEF IInv
  <1>2. pc \notin Resting => job \in DOMAIN jobs
    BY DEF IInv, WorkInv
  <1>3. CASE OpenRefused \/ OpenWorkbook \/ Raise \/ Extract
    BY <1>3 DEF OpenRefused, OpenWorkbook, Raise, Extract, Fate
  <1>4. CASE Claim
    <2>1. job' \in DOMAIN jobs /\ jobs[job'].status = "queued"
      <3>1. jobs \in Seq(Row)
        BY RowTypes DEF IInv
      <3>2. Claimable \in SUBSET Nat /\ Claimable # {}
        <4>1. DOMAIN jobs \subseteq Nat
          BY <3>1
        <4> QED BY <1>4, <4>1 DEF Claim, Claimable
      <3>3. job' \in Claimable
        BY <1>4, <3>2, HasMin DEF Claim
      <3> QED BY <3>3 DEF Claimable
    <2>2. jobs' = [jobs EXCEPT ![job'] = [jobs[job'] EXCEPT !.status = "running",
                                 !.error = "none", !.attempts = jobs[job'].attempts + 1]]
      BY <1>1, <1>4, <2>1 DEF Claim, Row
    <2>3. jobs[job'] \in Row
      BY <1>1, <2>1
    <2>4. jobs'[job'].status = "running" /\ jobs'[job'].chunks = jobs[job'].chunks
          /\ jobs'[job'].source = jobs[job'].source
      BY <2>1, <2>2, <2>3 DEF Row
    <2> QED BY <1>1, <2>1, <2>2, <2>4, OneFate DEF Fate
  <1>5. CASE Open
    <2>1. job \in DOMAIN jobs /\ jobs[job] \in Row
      BY <1>1, <1>2, <1>5 DEF Open, Resting
    <2>2. CASE jobs[job].chunks = << >>
      <3>1. jobs' = [jobs EXCEPT ![job] = [jobs[job] EXCEPT !.chunks = Cut(jobs[job].source)]]
        BY <1>5, <2>1, <2>2 DEF Open
      <3>2. jobs'[job] = [jobs[job] EXCEPT !.chunks = Cut(jobs[job].source)] => Fate(job)
        BY <2>1, <2>2 DEF Fate, Row
      <3> QED BY <1>1, <2>1, <3>1, <3>2, OneFate
    <2>3. CASE jobs[job].chunks # << >>
      <3>1. jobs' = jobs
        BY <1>5, <2>3 DEF Open
      <3> QED BY <3>1 DEF Fate
    <2> QED BY <2>2, <2>3
  <1>6. CASE StartChunk \/ FinishChunk
    <2>1. PICK state \in {"running", "completed"} :
             /\ jobs' = [jobs EXCEPT ![job].chunks[Min(left)] = state]
             /\ pc \in {"map", "mapping"} /\ left # {}
             /\ state = "running" => jobs[job].source \in Long
      BY <1>6 DEF StartChunk, FinishChunk, Goto
    <2>2. /\ job \in DOMAIN jobs /\ jobs[job] \in Row /\ Min(left) \in DOMAIN jobs[job].chunks
          /\ MappedBut(jobs[job], left) /\ Min(left) \in left
      BY <2>1, NextChunk
    <2>3. jobs' = [jobs EXCEPT ![job] = [jobs[job] EXCEPT !.chunks =
                                           [jobs[job].chunks EXCEPT ![Min(left)] = state]]]
      BY <2>1, <2>2, ChunkRow DEF ChunkStates
    <2>4. state = "completed" \/ Min(left) \notin Done(jobs[job])
      BY <2>1, <2>2 DEF MappedBut, Done
    <2>5. ASSUME jobs'[job] = [jobs[job] EXCEPT !.chunks =
                                 [jobs[job].chunks EXCEPT ![Min(left)] = state]]
          PROVE  Fate(job)
      <3>1. /\ jobs'[job].status = jobs[job].status /\ jobs'[job].source = jobs[job].source
            /\ jobs'[job].chunks = [jobs[job].chunks EXCEPT ![Min(left)] = state]
        BY <2>2, <2>5 DEF Row
      <3> QED BY <2>2, <2>4, <3>1 DEF Fate, ChunkStates
    <2> QED BY <1>1, <2>2, <2>3, <2>5, OneFate
  <1>7. CASE Consolidate
    <2> DEFINE row == [jobs[job] EXCEPT !.filed =
                         [jobs[job].filed EXCEPT ![Min(items)] = jobs[job].filed[Min(items)] + 1]]
    <2>1. job \in DOMAIN jobs /\ jobs[job] \in Row /\ Min(items) \in 1 .. NumItems
      <3>1. items \in SUBSET Nat /\ items # {} /\ items \subseteq 1 .. NumItems
        <4>1. items # {} /\ items \subseteq 1 .. NumItems
          BY <1>7 DEF Consolidate, IInv, TypeOK
        <4> QED BY <4>1
      <3> QED BY <1>1, <1>2, <1>7, <3>1, HasMin DEF Consolidate, Resting
    <2>2. jobs[job].filed \in [1 .. NumItems -> Nat]
      BY <2>1 DEF Row
    <2>3. jobs' = [jobs EXCEPT ![job] = row]
      BY <1>7, <2>1, <2>2 DEF Consolidate
    <2>4. jobs'[job] = row => Fate(job)
      BY <2>1 DEF Fate, Row
    <2> QED BY <1>1, <2>1, <2>3, <2>4, OneFate
  <1>8. CASE Complete \/ Announce \/ Fail
    <2>1. job \in DOMAIN jobs /\ jobs[job] \in Row
      BY <1>1, <1>2, <1>8 DEF Complete, Announce, Fail, Goto, Resting
    <2>2. PICK row : /\ jobs' = [jobs EXCEPT ![job] = row]
                     /\ row.status \in {"completed", "failed", jobs[job].status}
                     /\ row.chunks = jobs[job].chunks /\ row.source = jobs[job].source
      <3>1. CASE Complete
        <4> DEFINE row == [jobs[job] EXCEPT !.status = "completed", !.error = "none"]
        <4>1. jobs' = [jobs EXCEPT ![job] = row]
          BY <2>1, <3>1 DEF Complete, Row
        <4>2. /\ row.status = "completed"
              /\ row.chunks = jobs[job].chunks /\ row.source = jobs[job].source
          BY <2>1 DEF Row
        <4> HIDE DEF row
        <4> QED BY <4>1, <4>2
      <3>2. CASE Announce
        <4> DEFINE row == [jobs[job] EXCEPT !.announced = jobs[job].announced + 1]
        <4>1. jobs' = [jobs EXCEPT ![job] = row]
          BY <2>1, <3>2 DEF Announce, Row
        <4>2. /\ row.status = jobs[job].status
              /\ row.chunks = jobs[job].chunks /\ row.source = jobs[job].source
          BY <2>1 DEF Row
        <4> HIDE DEF row
        <4> QED BY <4>1, <4>2
      <3>3. CASE Fail
        <4> DEFINE row == [jobs[job] EXCEPT !.status = "failed", !.error = "run failed"]
        <4>1. jobs' = [jobs EXCEPT ![job] = row]
          BY <2>1, <3>3 DEF Fail, Row
        <4>2. /\ row.status = "failed"
              /\ row.chunks = jobs[job].chunks /\ row.source = jobs[job].source
          BY <2>1 DEF Row
        <4> HIDE DEF row
        <4> QED BY <4>1, <4>2
      <3> QED BY <1>8, <3>1, <3>2, <3>3
    <2> QED BY <1>1, <2>1, <2>2, OneFate DEF Fate
  <1> QED BY <1>3, <1>4, <1>5, <1>6, <1>7, <1>8 DEF Work

LEMMA OthersFate ==
  ASSUME IInv, Start \/ Crash \/ Archive
               \/ \E c \in Clients : RetryWrite(c) \/ \E i \in DOMAIN jobs : RetryCheck(c, i)
  PROVE  DOMAIN jobs' = DOMAIN jobs /\ \A j \in DOMAIN jobs : Fate(j)
  <1>1. TypeOK /\ \A i \in DOMAIN jobs : jobs[i] \in Row
    BY RowTypes DEF IInv
  <1>2. CASE Start
    <2>1. /\ DOMAIN jobs' = DOMAIN jobs
          /\ \A j \in DOMAIN jobs :
                jobs'[j] = IF jobs[j].status = "running" THEN Requeued(jobs[j]) ELSE jobs[j]
      BY <1>2 DEF Start, Requeued
    <2>2. ASSUME NEW j \in DOMAIN jobs PROVE Fate(j)
      <3>1. CASE jobs[j].status = "running"
        <4>1. jobs[j] \in Row /\ jobs'[j] = Requeued(jobs[j])
          BY <1>1, <2>1, <3>1
        <4>2. /\ jobs'[j].status = "queued" /\ jobs'[j].error = "restarted"
              /\ jobs'[j].chunks = jobs[j].chunks /\ jobs'[j].source = jobs[j].source
          BY <4>1 DEF Requeued, Row
        <4> QED BY <3>1, <4>2 DEF Fate
      <3>2. CASE jobs[j].status # "running"
        BY <2>1, <3>2 DEF Fate
      <3> QED BY <3>1, <3>2
    <2> QED BY <2>1, <2>2
  <1>3. CASE Archive
    <2>1. /\ DOMAIN jobs' = DOMAIN jobs
          /\ \A j \in DOMAIN jobs : jobs'[j] = [jobs[j] EXCEPT !.status = "archived"]
      BY <1>3 DEF Archive
    <2>2. ASSUME NEW j \in DOMAIN jobs PROVE Fate(j)
      <3>1. jobs[j] \in Row /\ jobs'[j] = [jobs[j] EXCEPT !.status = "archived"]
        BY <1>1, <2>1
      <3> QED BY <3>1 DEF Fate, Row
    <2> QED BY <2>1, <2>2
  <1>4. ASSUME NEW c \in Clients, RetryWrite(c)
        PROVE  DOMAIN jobs' = DOMAIN jobs /\ \A j \in DOMAIN jobs : Fate(j)
    <2> DEFINE i == retry[c]
               row == [jobs[i] EXCEPT !.status = "queued", !.error = "none"]
    <2>1. i \in DOMAIN jobs /\ Checked(i)
      BY <1>1, <1>4 DEF RetryWrite, TypeOK, Checked
    <2>2. jobs[i] \in Row
      BY <1>1, <2>1
    <2>3. jobs' = [jobs EXCEPT ![i] = row]
      BY <1>4, <2>1, <2>2 DEF RetryWrite, Row
    <2> HIDE DEF i
    <2>4. jobs'[i] = row => Fate(i)
      BY <2>1, <2>2 DEF Fate, Row
    <2> QED BY <1>1, <2>1, <2>3, <2>4, OneFate
  <1>5. CASE Crash \/ \E c \in Clients : \E i \in DOMAIN jobs : RetryCheck(c, i)
    <2>1. jobs' = jobs
      BY <1>5 DEF Crash, RetryCheck
    <2> QED BY <2>1 DEF Fate
  <1> QED BY <1>2, <1>3, <1>4, <1>5

LEMMA EnqueueFate ==
  ASSUME IInv, NEW s \in Sources, Enqueue(s)
  PROVE  /\ DOMAIN jobs \subseteq DOMAIN jobs' /\ \A j \in DOMAIN jobs : Fate(j)
         /\ \A j \in DOMAIN jobs' \ DOMAIN jobs : jobs'[j].attempts = 0
  <1>1. CASE Known(s)
    <2>1. jobs' = jobs
      BY <1>1 DEF Enqueue
    <2> QED BY <2>1 DEF Fate
  <1>2. CASE ~Known(s)
    <2> DEFINE row == NewRow(s)
    <2>1. row.attempts = 0
      BY DEF NewRow
    <2>2. jobs' = Append(jobs, row) /\ jobs \in Seq(Row)
      BY <1>2, RowTypes DEF Enqueue, IInv
    <2> HIDE DEF row
    <2>3. /\ DOMAIN jobs' = DOMAIN jobs \cup {Len(jobs) + 1} /\ jobs'[Len(jobs) + 1] = row
          /\ \A j \in DOMAIN jobs : jobs'[j] = jobs[j]
      BY <2>2
    <2> QED BY <2>1, <2>3 DEF Fate
  <1> QED BY <1>1, <1>2

\* Every row keeps its place and has a fate; a new one has had no attempt.
LEMMA Fates ==
  ASSUME IInv, [Next]_vars
  PROVE  /\ DOMAIN jobs \subseteq DOMAIN jobs' /\ \A j \in DOMAIN jobs : Fate(j)
         /\ \A j \in DOMAIN jobs' \ DOMAIN jobs : jobs'[j].attempts = 0
  <1>1. CASE Work
    BY <1>1, WorkFate
  <1>2. CASE \E s \in Sources : Enqueue(s)
    BY <1>2, EnqueueFate
  <1>3. CASE UNCHANGED vars
    BY <1>3 DEF vars, Fate
  <1>4. CASE Start \/ Crash \/ Archive
             \/ \E c \in Clients : RetryWrite(c) \/ \E i \in DOMAIN jobs : RetryCheck(c, i)
    BY <1>4, OthersFate
  <1> QED BY <1>1, <1>2, <1>3, <1>4 DEF Next

\* A chunk of a long transcript that was mapped is never mapped again, over
\* failures, retries and restarts (process_job, the resumption of the chunk loop).
THEOREM ChunksStay == Spec => MappedChunksStay
  <1>1. ASSUME IInv, [Next]_vars, NEW i \in DOMAIN jobs, jobs[i].source \in Long,
               NEW c \in Done(jobs[i])
        PROVE  c \in DOMAIN jobs'[i].chunks /\ jobs'[i].chunks[c] = "completed"
    <2>1. Fate(i) /\ c \in DOMAIN jobs[i].chunks /\ jobs[i].chunks[c] = "completed"
      BY <1>1, Fates DEF Done
    <2>2. jobs[i].chunks # << >>
      BY <2>1
    <2>3. CASE jobs'[i].chunks = jobs[i].chunks
      BY <2>1, <2>3
    <2>4. ASSUME NEW d \in DOMAIN jobs[i].chunks, NEW state \in ChunkStates,
                 jobs'[i].chunks = [jobs[i].chunks EXCEPT ![d] = state],
                 state = "completed" \/ d \notin Done(jobs[i]) \/ jobs[i].source \notin Long
          PROVE  c \in DOMAIN jobs'[i].chunks /\ jobs'[i].chunks[c] = "completed"
      BY <1>1, <2>1, <2>4
    <2> QED BY <2>1, <2>2, <2>3, <2>4 DEF Fate
  <1>2. IInv /\ [Next]_vars =>
          [\A i \in DOMAIN jobs : jobs[i].source \in Long =>
             \A c \in Done(jobs[i]) :
                c \in DOMAIN jobs'[i].chunks /\ jobs'[i].chunks[c] = "completed"]_vars
    BY <1>1
  <1> QED BY <1>2, Invariance, PTL DEF Spec, MappedChunksStay

\* A settled job is reopened, and one without attempts left is queued, only by the
\* steps that the property names (retry_ingestion_job, archive_project_workspace,
\* complete_ingestion_job, fail_ingestion_job, IngestionWorker.start).
THEOREM SettledStay == Spec => SettledJobsStay
  <1>1. ASSUME IInv, [Next]_vars, NEW i \in DOMAIN jobs, Reopened(i)
        PROVE  \/ jobs'[i].status = "archived"
               \/ jobs'[i].status = "queued" /\ Checked(i)
               \/ jobs'[i].status \in {"completed", "failed"} /\ job = i
    BY <1>1, Fates DEF Fate, Reopened, Settled
  <1>2. ASSUME IInv, [Next]_vars, NEW i \in DOMAIN jobs', Stranded(i)
        PROVE  jobs'[i].error = "restarted" \/ Checked(i)
    <2>1. CASE i \in DOMAIN jobs
      BY <1>2, <2>1, Fates DEF Fate, Stranded
    <2>2. CASE i \notin DOMAIN jobs
      <3>1. jobs'[i].attempts = 0
        BY <1>2, <2>2, Fates
      <3> QED BY <1>2, <3>1, IngestionConstants DEF Stranded
    <2> QED BY <2>1, <2>2
  <1>3. IInv /\ [Next]_vars =>
          [/\ \A i \in DOMAIN jobs : Reopened(i) =>
                \/ jobs'[i].status = "archived"
                \/ jobs'[i].status = "queued" /\ Checked(i)
                \/ jobs'[i].status \in {"completed", "failed"} /\ job = i
           /\ \A i \in DOMAIN jobs' : Stranded(i) =>
                jobs'[i].error = "restarted" \/ Checked(i)]_vars
    BY <1>1, <1>2
  <1> QED BY <1>3, Invariance, PTL DEF Spec, SettledJobsStay
=============================================================================
