-------------------------- MODULE ConversationRuns --------------------------
(***************************************************************************)
(* Conversation runs: a request of the browser becomes a durable run that  *)
(* a thread pool executes apart from the HTTP connection, and its events   *)
(* are replayed to whoever is listening.                                   *)
(*                                                                         *)
(*   agent/conversation/run_manager.py   ConversationRunManager            *)
(*   store/runtime_repository.py         RuntimeRunRepository              *)
(*   store/session_repository.py         SessionRepository                 *)
(*   agent/conversation_agent.py         iter_conversation_agent_events    *)
(*   backend/routers/conversation.py     the endpoints, _persisted_events  *)
(*                                                                         *)
(* The endpoints that submit are coroutines that call submit without       *)
(* awaiting, so that one process submits one request at a time; executions *)
(* (pool threads), event streams and the other endpoints (server threads)  *)
(* run beside it.  One SQLite transaction is one step.                     *)
(***************************************************************************)
EXTENDS Integers, Sequences, FiniteSets

CONSTANTS Requests,     \* client request ids of one actor and project
          NoRequest,
          MaxTasks,     \* bound: futures alive at one time
          MaxWorkers,   \* threads of the pool
          RecoverLimit, \* limit of the list_runs call of recover
          MaxLog,       \* bound: events of a run before a delta may still be added
          MaxCrashes,   \* bound: process exits
          MaxDeletes    \* bound: deletions of a session

ASSUME RunConstants ==
    /\ NoRequest \notin Requests
    /\ MaxTasks \in Nat \ {0}
    /\ MaxWorkers \in Nat \ {0}
    /\ RecoverLimit \in Nat \ {0}
    /\ MaxLog \in Nat /\ MaxCrashes \in Nat /\ MaxDeletes \in Nat

VARIABLES run,      \* status of the runtime_runs row of a request
          log,      \* its runtime_events
          session,  \* its session row exists
          user,     \* state of its user message
          answers,  \* states of its assistant messages
          proc,     \* the backend process
          backlog,  \* runs that recover has still to tell so, or to launch
          loop,     \* the event loop inside submit
          tasks,    \* executions given to the pool
          future,   \* _futures
          reader,   \* the event stream of a request's client
          crashes, deletes

store   == <<run, log, session, user, answers>>
memory  == <<proc, backlog, loop, tasks, future>>
bounds  == <<crashes, deletes>>
vars    == <<run, log, session, user, answers, proc, backlog, loop, tasks, future,
             reader, crashes, deletes>>

Tasks      == 1 .. MaxTasks
NoTask     == 0
Terminal   == {"completed", "failed"}
LastWords  == {"final", "error"}
RunStates  == {"absent", "queued", "running"} \cup Terminal
TurnStates == {"running", "committed", "failed"}
Events     == {"run_recovered", "model_output_reset", "run_started", "delta",
               "memory_evolution"} \cup LastWords

NoOne == [at |-> "idle", req |-> NoRequest]

\* Where an execution is.  heard: the model's history holds the user's message.
Points == {"idle", "pool", "mark", "reset", "start", "open", "talk", "commit",
           "finish", "failing", "fail", "close", "done"}

Free == [at |-> "idle", req |-> NoRequest, heard |-> FALSE]

Silent == [at |-> "off", cursor |-> 0, fresh |-> FALSE]

Init == /\ run = [q \in Requests |-> "absent"]
        /\ log = [q \in Requests |-> << >>]
        /\ session = [q \in Requests |-> FALSE]
        /\ user = [q \in Requests |-> "none"]
        /\ answers = [q \in Requests |-> << >>]
        /\ proc = "down"
        /\ backlog = {}
        /\ loop = NoOne
        /\ tasks = [t \in Tasks |-> Free]
        /\ future = [q \in Requests |-> NoTask]
        /\ reader = [q \in Requests |-> Silent]
        /\ crashes = 0
        /\ deletes = 0

-----------------------------------------------------------------------------
\* _launch: a run whose future is still at work is not given another one.

Pending(q) == future[q] # NoTask /\ tasks[future[q]].at # "done"

NewTask == CHOOSE t \in Tasks : tasks[t] = Free

\* Mutant: the future on record is not looked at.
LaunchAnyway(q) ==
    /\ \E t \in Tasks : tasks[t] = Free
    /\ tasks' = [tasks EXCEPT ![NewTask] = [Free EXCEPT !.at = "pool", !.req = q]]
    /\ future' = [future EXCEPT ![q] = NewTask]

Launched(q) ==
    IF Pending(q) THEN UNCHANGED <<tasks, future>>
    ELSE /\ \E t \in Tasks : tasks[t] = Free
         /\ tasks' = [tasks EXCEPT ![NewTask] = [Free EXCEPT !.at = "pool", !.req = q]]
         /\ future' = [future EXCEPT ![q] = NewTask]

-----------------------------------------------------------------------------
\* The process: startup, recovery, exit.

Record(q, e) == log' = [log EXCEPT ![q] = Append(@, e)]

\* Mutant: only runs that are still queued are recovered.
StartForgetful ==
    /\ proc = "down"
    /\ proc' = "telling"
    /\ UNCHANGED <<store, backlog, loop, tasks, future, reader, bounds>>

\* recover_interrupted puts the running runs back into the queue, in one
\* transaction, and then tells each of them so, in one of its own.
Start == /\ proc = "down"
         /\ proc' = "telling"
         /\ run' = [q \in Requests |-> IF run[q] = "running" THEN "queued" ELSE run[q]]
         /\ backlog' = {q \in Requests : run[q] = "running"}
         /\ UNCHANGED <<log, session, user, answers, loop, tasks, future, reader, bounds>>

TellRecovered(q) ==
    /\ proc = "telling" /\ q \in backlog
    /\ backlog' = backlog \ {q}
    /\ Record(q, "run_recovered")
    /\ UNCHANGED <<run, session, user, answers, proc, loop, tasks, future, reader, bounds>>

\* The queued runs are listed, up to the limit, and launched one by one.
ListQueued == /\ proc = "telling" /\ backlog = {}
              /\ proc' = "recovering"
              /\ LET queued == {q \in Requests : run[q] = "queued"} IN
                 \E S \in SUBSET queued :
                    /\ Cardinality(S) <= RecoverLimit
                    /\ S # queued => Cardinality(S) = RecoverLimit
                    /\ backlog' = S
              /\ UNCHANGED <<store, loop, tasks, future, reader, bounds>>

RecoverLaunch(q) == /\ proc = "recovering" /\ q \in backlog
                    /\ backlog' = backlog \ {q}
                    /\ Launched(q)
                    /\ UNCHANGED <<store, proc, loop, reader, bounds>>

Serve == /\ proc = "recovering" /\ backlog = {}
         /\ proc' = "up"
         /\ UNCHANGED <<store, backlog, loop, tasks, future, reader, bounds>>

\* Everything in memory is gone; a client keeps the last event id it received.
Crash == /\ proc # "down" /\ crashes < MaxCrashes
         /\ crashes' = crashes + 1
         /\ proc' = "down"
         /\ backlog' = {}
         /\ loop' = NoOne
         /\ tasks' = [t \in Tasks |-> Free]
         /\ future' = [q \in Requests |-> NoTask]
         /\ reader' = [q \in Requests |->
                IF reader[q].at = "ended" THEN reader[q]
                ELSE [Silent EXCEPT !.cursor = reader[q].cursor]]
         /\ UNCHANGED <<store, deletes>>

-----------------------------------------------------------------------------
\* submit, in the event loop.

\* ensure_session and create_run: a new request gets a queued row, a repeated
\* one the row it has, of which submit keeps the status it read.  (The session
\* that a repeat without session id opens stays empty and is not modelled.)
Submit(q) ==
    /\ proc = "up" /\ loop.at = "idle"
    /\ IF run[q] = "absent"
       THEN /\ run' = [run EXCEPT ![q] = "queued"]
            /\ session' = [session EXCEPT ![q] = TRUE]
            /\ loop' = [at |-> "append", req |-> q]
       ELSE /\ run[q] \notin Terminal
            /\ loop' = [at |-> "launch", req |-> q]
            /\ UNCHANGED <<run, session>>
    /\ UNCHANGED <<log, user, answers, proc, backlog, tasks, future, reader, bounds>>

\* append_session_message raises if the session has been deleted meanwhile: the
\* request is answered with an error and the run is left in the queue.
AppendUser ==
    /\ loop.at = "append"
    /\ IF session[loop.req]
       THEN /\ user' = [user EXCEPT ![loop.req] = "running"]
            /\ loop' = [loop EXCEPT !.at = "launch"]
       ELSE /\ loop' = NoOne
            /\ UNCHANGED user
    /\ UNCHANGED <<run, log, session, answers, proc, backlog, tasks, future, reader, bounds>>

LaunchSubmitted == /\ loop.at = "launch"
                   /\ Launched(loop.req)
                   /\ loop' = NoOne
                   /\ UNCHANGED <<store, proc, backlog, reader, bounds>>

\* DELETE /sessions/{session_id}, in a server thread.
DeleteSession(q) ==
    /\ proc = "up" /\ session[q] /\ deletes < MaxDeletes
    /\ deletes' = deletes + 1
    /\ session' = [session EXCEPT ![q] = FALSE]
    /\ user' = [user EXCEPT ![q] = "none"]
    /\ answers' = [answers EXCEPT ![q] = << >>]
    /\ UNCHANGED <<run, log, memory, reader, crashes>>

-----------------------------------------------------------------------------
\* _execute, in a pool thread.

Working(t) == tasks[t].at \notin {"idle", "pool"}

Move(t, from, to) == tasks[t].at = from /\ tasks' = [tasks EXCEPT ![t].at = to]

Happened(q, e) == \E i \in DOMAIN log[q] : log[q][i] = e

\* update_turn_state: every message of the turn, whatever its state.
SetTurn(q, state) ==
    /\ user' = [user EXCEPT ![q] = IF @ = "none" THEN @ ELSE state]
    /\ answers' = [answers EXCEPT ![q] = [i \in DOMAIN @ |-> state]]

Room == Cardinality({t \in Tasks : Working(t)}) < MaxWorkers

\* Mutant: the run is executed whatever its status.
BeginAnyway(t) ==
    /\ Room
    /\ Move(t, "pool", "mark")
    /\ UNCHANGED <<store, proc, backlog, loop, future, reader, bounds>>

\* A thread takes the task up and reads the run: a terminal one is left alone.
Begin(t) ==
    /\ tasks[t].at = "pool" /\ Room
    /\ Move(t, "pool", IF run[tasks[t].req] \in Terminal THEN "done" ELSE "mark")
    /\ UNCHANGED <<store, proc, backlog, loop, future, reader, bounds>>

MarkRunning(t) ==
    /\ tasks[t].at = "mark"
    /\ Move(t, "mark", IF Happened(tasks[t].req, "delta") THEN "reset" ELSE "start")
    /\ run' = [run EXCEPT ![tasks[t].req] = "running"]
    /\ UNCHANGED <<log, session, user, answers, proc, backlog, loop, future, reader, bounds>>

\* Mutant: the run is named only if nothing has been recorded of it.
AnnounceOnce(t) ==
    /\ \/ Move(t, "reset", "start") /\ Record(tasks[t].req, "model_output_reset")
       \/ /\ Move(t, "start", "open")
          /\ IF log[tasks[t].req] = << >> THEN Record(tasks[t].req, "run_started")
                                          ELSE UNCHANGED log
    /\ UNCHANGED <<run, session, user, answers, proc, backlog, loop, future, reader, bounds>>

Announce(t) ==
    /\ \/ Move(t, "reset", "start") /\ Record(tasks[t].req, "model_output_reset")
       \/ Move(t, "start", "open") /\ Record(tasks[t].req, "run_started")
    /\ UNCHANGED <<run, session, user, answers, proc, backlog, loop, future, reader, bounds>>

\* iter_conversation_agent_events: ensure_session puts a deleted session back,
\* and the model's history is read from its messages.
OpenTurn(t) ==
    LET q == tasks[t].req IN
    /\ tasks[t].at = "open"
    /\ session' = [session EXCEPT ![q] = TRUE]
    /\ tasks' = [tasks EXCEPT ![t].at = "talk", ![t].heard = (user[q] # "none")]
    /\ UNCHANGED <<run, log, user, answers, proc, backlog, loop, future, reader, bounds>>

\* A piece of the reply, or any other event of the agent's turn.
Delta(t) ==
    /\ tasks[t].at = "talk"
    /\ Len(log[tasks[t].req]) < MaxLog
    /\ Record(tasks[t].req, "delta")
    /\ UNCHANGED <<run, session, user, answers, memory, reader, bounds>>

\* The turn's answer is stored as a message, if the session is still there.
Answer(t) ==
    LET q == tasks[t].req IN
    /\ Move(t, "talk", "commit")
    /\ session[q]
    /\ answers' = [answers EXCEPT ![q] = Append(@, "running")]
    /\ UNCHANGED <<run, log, session, user, proc, backlog, loop, future, reader, bounds>>

\* The turn is committed by the agent and once more by the manager; the second
\* update adds nothing to the first.
CommitTurn(t) ==
    /\ Move(t, "commit", "finish")
    /\ SetTurn(tasks[t].req, "committed")
    /\ UNCHANGED <<run, log, session, proc, backlog, loop, future, reader, bounds>>

\* complete_run_with_event
Finish(t) ==
    /\ Move(t, "finish", "close")
    /\ run' = [run EXCEPT ![tasks[t].req] = "completed"]
    /\ Record(tasks[t].req, "final")
    /\ UNCHANGED <<session, user, answers, proc, backlog, loop, future, reader, bounds>>

\* Mutant: the handler does not settle the messages of the turn.
TurnRaisesQuietly(t) ==
    /\ \E point \in {"open", "talk", "commit", "finish"} : Move(t, point, "fail")
    /\ UNCHANGED <<store, proc, backlog, loop, future, reader, bounds>>

\* The turn raises: the input cannot be loaded, the model or the loop fails, the
\* session is gone when the answer is stored, the final payload is refused.
TurnRaises(t) ==
    /\ \E point \in {"open", "talk", "commit", "finish"} : Move(t, point, "failing")
    /\ UNCHANGED <<store, proc, backlog, loop, future, reader, bounds>>

FailTurn(t) ==
    /\ Move(t, "failing", "fail")
    /\ SetTurn(tasks[t].req, "failed")
    /\ UNCHANGED <<run, log, session, proc, backlog, loop, future, reader, bounds>>

\* fail_run_with_event
FailRun(t) ==
    /\ Move(t, "fail", "close")
    /\ run' = [run EXCEPT ![tasks[t].req] = "failed"]
    /\ Record(tasks[t].req, "error")
    /\ UNCHANGED <<session, user, answers, proc, backlog, loop, future, reader, bounds>>

\* _close_memory_evolution appends memory_evolution or memory_evolution_error.
CloseEvolution(t) ==
    /\ Move(t, "close", "done")
    /\ Record(tasks[t].req, "memory_evolution")
    /\ UNCHANGED <<run, session, user, answers, proc, backlog, loop, future, reader, bounds>>

\* The done callback: whatever future the run has by now is forgotten.
Forget(t) ==
    /\ tasks[t].at = "done"
    /\ future' = [future EXCEPT ![tasks[t].req] = NoTask]
    /\ tasks' = [tasks EXCEPT ![t] = Free]
    /\ UNCHANGED <<store, proc, backlog, loop, reader, bounds>>

Execute(t) == \/ Begin(t) \/ MarkRunning(t) \/ Announce(t) \/ OpenTurn(t)
              \/ Delta(t) \/ Answer(t) \/ CommitTurn(t) \/ Finish(t)
              \/ TurnRaises(t) \/ FailTurn(t) \/ FailRun(t)
              \/ CloseEvolution(t) \/ Forget(t)

-----------------------------------------------------------------------------
\* _persisted_events, in a server thread, for a client that resumes after the
\* last event it has.

Go(q, from, to) == reader[q].at = from /\ reader' = [reader EXCEPT ![q].at = to]

Connect(q) == /\ proc = "up" /\ run[q] # "absent"
              /\ Go(q, "off", "list")
              /\ UNCHANGED <<store, memory, bounds>>

ListEvents(q) ==
    /\ reader[q].at = "list"
    /\ reader' = [reader EXCEPT ![q] = [at |-> "check", cursor |-> Len(log[q]),
                                        fresh |-> Len(log[q]) > reader[q].cursor]]
    /\ UNCHANGED <<store, memory, bounds>>

\* Mutant: the terminal event must have been sent, but only looked for anywhere.
CheckAnywhere(q) ==
    /\ Go(q, "check", IF run[q] \in Terminal /\ ~reader[q].fresh
                      THEN "wait" ELSE "list")
    /\ UNCHANGED <<store, memory, bounds>>

\* The run is terminal, the last look brought nothing new, and the last terminal
\* event has been sent.  (A terminal run always has a terminal event, so that the
\* grace period for a missing one is left out.)
Check(q) ==
    /\ Go(q, "check",
          IF /\ run[q] \in Terminal
             /\ ~reader[q].fresh
             /\ \A i \in DOMAIN log[q] : log[q][i] \in LastWords => i <= reader[q].cursor
          THEN "wait" ELSE "list")
    /\ UNCHANGED <<store, memory, bounds>>

\* wait, then one more look at the events.
Wait(q) == /\ ~Pending(q)
           /\ Go(q, "wait", "last")
           /\ UNCHANGED <<store, memory, bounds>>

WaitTimesOut(q) == /\ Pending(q)
                   /\ Go(q, "wait", "off")
                   /\ UNCHANGED <<store, memory, bounds>>

LastLook(q) == /\ Go(q, "last", IF Len(log[q]) > reader[q].cursor THEN "list" ELSE "ended")
               /\ UNCHANGED <<store, memory, bounds>>

Stream(q) == ListEvents(q) \/ Check(q) \/ Wait(q) \/ LastLook(q)

-----------------------------------------------------------------------------

Recover == ListQueued \/ Serve \/ \E q \in Requests : TellRecovered(q) \/ RecoverLaunch(q)

Startup == Start \/ Recover

Next == \/ Startup \/ Crash
        \/ AppendUser \/ LaunchSubmitted
        \/ \E q \in Requests : \/ Submit(q) \/ DeleteSession(q)
                               \/ Connect(q) \/ Stream(q) \/ WaitTimesOut(q)
        \/ \E t \in Tasks : Execute(t)

Spec == Init /\ [][Next]_vars

\* Threads run, the event loop finishes what it began and so does startup; model
\* calls end (the loop is bounded by rounds and by time).  Nobody promises that
\* the process is started again.
Fairness == /\ \A t \in Tasks : WF_vars(Execute(t))
            /\ \A q \in Requests : WF_vars(Stream(q))
            /\ WF_vars(AppendUser \/ LaunchSubmitted)
            /\ WF_vars(Recover)

FairSpec == Spec /\ Fairness

-----------------------------------------------------------------------------
\* Properties.

\* Every variable keeps its form and stays within its bounds.
TypeOK ==
    /\ run \in [Requests -> RunStates]
    /\ log \in [Requests -> Seq(Events)]
    /\ session \in [Requests -> BOOLEAN]
    /\ user \in [Requests -> TurnStates \cup {"none"}]
    /\ answers \in [Requests -> Seq(TurnStates)]
    /\ proc \in {"down", "telling", "recovering", "up"}
    /\ backlog \subseteq Requests
    /\ loop \in [at : {"idle", "append", "launch"}, req : Requests \cup {NoRequest}]
    /\ tasks \in [Tasks -> [at : Points, req : Requests \cup {NoRequest}, heard : BOOLEAN]]
    /\ future \in [Requests -> Tasks \cup {NoTask}]
    /\ reader \in [Requests -> [at : {"off", "list", "check", "wait", "last", "ended"},
                                cursor : Nat, fresh : BOOLEAN]]
    /\ crashes \in 0 .. MaxCrashes
    /\ deletes \in 0 .. MaxDeletes

AtWork(t) == Working(t) /\ tasks[t].at # "done"

\* Repeated requests, recovery and the callback that forgets whatever future a
\* run has never put two executions to work on one run.  An execution answers a
\* message it has not seen only if the process died between the run's row and its
\* message, or the session was deleted.
SoundExecution ==
    /\ TypeOK
    /\ \A s, t \in Tasks :
           AtWork(s) /\ AtWork(t) /\ tasks[s].req = tasks[t].req => s = t
    /\ \A t \in Tasks :
           tasks[t].at = "talk" /\ ~tasks[t].heard => crashes + deletes > 0

\* A run that has ended is never executed again: mark_running does not look at
\* the status it overwrites, and a repeat may launch a run that ended meanwhile.
\* A stream that closed had sent everything the run would ever record.
EndsAreFinal ==
    [][\A q \in Requests :
          /\ run[q] \in Terminal => run'[q] = run[q]
          /\ reader[q].at = "ended" => log'[q] = log[q]]_vars

\* What the other end of a stream may rely upon: the log of every run grows as
\* RunLog says.  A run has settled when it has ended and nobody is at work on it.
Over(q) == run[q] \in Terminal /\ \A t \in Tasks : tasks[t].req = q => ~AtWork(t)
Log == INSTANCE RunLog WITH Runs <- Requests, settled <- [q \in Requests |-> Over(q)]
LogsAreTold == Log!Spec

TurnOf(status) == IF status = "completed" THEN "committed" ELSE "failed"

\* The messages of an ended run are settled the way the run ended: they and the
\* run are written in different transactions, and by two threads.  A process exit
\* adds at most one answer to a turn, and nothing else does.
MessagesFollowRun ==
    \A q \in Requests :
        /\ Len(answers[q]) <= crashes + 1
        /\ run[q] \in Terminal =>
              /\ user[q] \in {"none", TurnOf(run[q])}
              /\ \A i \in DOMAIN answers[q] : answers[q][i] = TurnOf(run[q])

\* A stream that waits for the execution or has closed has sent the last words of
\* the run: it looks at the events, the status and the execution one after the
\* other while all three change.
StreamSawTheEnd ==
    \A q \in Requests : reader[q].at \in {"wait", "ended"} =>
        /\ \E i \in 1 .. reader[q].cursor : log[q][i] \in LastWords
        /\ \A i \in DOMAIN log[q] : log[q][i] \in LastWords => i <= reader[q].cursor

StaysUp == <>[](proc # "down")

\* A run that was given to the pool ends, over process exits, if the process is
\* up in the end and recovery lists every queued run.
LaunchedRunsEnd ==
    StaysUp /\ Cardinality(Requests) <= RecoverLimit =>
        \A q \in Requests :
            (\E t \in Tasks : tasks[t].req = q) ~> run[q] \in Terminal

\* A stream of a run that has ended is closed, though the answer to its memory
\* evolution may have been lost with the process.
StreamsEnd ==
    StaysUp => \A q \in Requests :
        (reader[q].at # "off" /\ run[q] \in Terminal) ~> reader[q].at \in {"ended", "off"}

\* Turns end for those who execute them and for those who watch them.
TurnsEnd == LaunchedRunsEnd /\ StreamsEnd
=============================================================================
