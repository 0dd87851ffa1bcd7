# Formal models of the project delivery agent

TLA+ specifications of the parts of this repository that run concurrently, survive
restarts, talk over connections that break or are bounded by budgets, the TLC
configurations that check them on small instances, and proofs, checked by TLAPS, for every
value of the constants. `PROJECT.json` maps every definition to the lines it is translated
from.

## The system

One FastAPI process (`src/backend/main.py`) serves the API, starts its background
threads in its startup hooks (`main.py:602-612`) and stops them in its shutdown hooks.
All durable state is one SQLite database; every write is one transaction under the
store's process-wide lock (`src/store/database.py`), so one transaction is one atomic
step of a model, and two transactions of one call are two steps with anything in
between, a process exit included. The user interface is a React application
(`src/frontend/src`). It has one thread, so a handler is atomic between two awaits, and
what it read before an await is old when it uses it afterwards: a step of a model there is
the code from one await to the next.

| component | state it keeps | operations | interacts with | what makes it correct |
|---|---|---|---|---|
| inspection queue (`agent/inspection_jobs.py`, `store/inspection_repository.py`) | `inspection_jobs`, the dispatch cursor | dispatch events, enqueue (API, cron, tool), claim with lease, complete, fail | reads the event log; runs the inspection agent | one job per key, no event lost, attempts bounded, reports not overwritten |
| conversation runs (`agent/conversation/run_manager.py`, `store/runtime_repository.py`, `store/session_repository.py`, `backend/routers/conversation.py`) | `runtime_runs`, `runtime_events`, `sessions`, `messages`; futures of a thread pool | submit, execute, recover, stream, wait, delete session | event loop, pool threads, server threads; runs the agent loop | one execution per run, ended runs stay, messages agree with runs, streams close complete |
| agent runtime (`agent/runtime/executor.py`, `state.py`) | `RuntimeState`, the checkpoint of the run | ask, call tools, judge, finalize, stop, resume | model, tools, completion gate | budgets hold over restarts, tools invoked once, only verified answers returned, termination |
| ingestion queue (`agent/ingestion_worker.py`, `agent/meeting_ingestion.py`, `store/sqlite_store.py`) | `ingestion_jobs`, `ingestion_chunks` | enqueue, claim, map chunks, extract, consolidate, complete, fail, retry, archive, requeue | emits the events the inspection queue dispatches; writes memory | chunks mapped once, completed means complete, settled jobs stay |
| deliverables (`agent/deliverables.py`, `store/sqlite_store.py`) | `deliverables`, `deliverable_versions`, `deliverable_files`, a directory per version | create, edit the row, submit a version with its files, download | event log, file system | a submitted version keeps its bytes, a failed one leaves no whole file and at most the one it was writing, the current version is the newest, scopes agree, a closed deliverable takes no version |
| stream client (`frontend/src/api/client.ts`, `sse.ts`) | one call: its attempt, run, last event id, the text so far | post, read, deduplicate, resume, retry, return or throw | the log of the run, over a connection | the text is the log, one run per call, the call ends |
| chat pane (`frontend/src/App.tsx`, `chat/SenderBar.tsx`, `layout/ProjectListPane.tsx`) | conversation on the screen, active session, composer, turn in flight, session requests | send, take an answer, restore what failed, open, rename, delete, start a session, switch actor or view | stream client, sessions of the server | what is sent goes to the conversation shown, no conversation of another actor, no entry lost |
| workspace synchronisation (`App.tsx`, `hooks/useIngestionPolling.ts`, `layout/MainPane.tsx`, `IconRail.tsx`, `api/workspaceValidation.ts`) | the tab's copy of the workspace, the polling effect | boot, retry, reload, refresh, save of a panel, turn, brief, poll, retry of a job, switch actor or view | workspace endpoint, ingestion queue | the workspace is the current actor's, the tab catches up |
| row editing (`panels/useRowEditor.ts`, `useAsyncAction.ts` and eight editable panels) | drafts, rows shown, the row being saved | open, type, cancel, save, pick, reply, roll back | tables of the server, other users | no draft lost, no field of others overwritten, the table shows what the server said |
| review queue (`panels/ReviewQueue.tsx`, `backend/main.py`, `store/sqlite_store.py`) | cards, drafts and notes per place; candidates and their tasks | edit, note, confirm, reject, publish, archive | other reviewers, replies that move the cards | words stay with the candidate they were written for, what is published is what was edited |
| memory items and threads (`store/sqlite_store.py`) | `items`, `memory_threads`, versions | consolidate, confirm, merge, resolve | fed by ingestion and conversations | one current item per thread, history kept |
| daily journals, work records (`agent/daily_journal.py`, `agent/work_records.py`) | journals, records | generate, submit, backfill | scheduler, API | one journal per actor and day |
| project skills (`agent/project_skills.py`) | skills and their versions | propose, publish, run, retire | conversations | only published versions run |
| memory-skill evolution (`agent/memory_skill_evolution.py`) | episodes, traces, policies | close a run, reward, promote | called at the end of a conversation run | one episode per run |
| memory embeddings (`agent/memory_embedding_worker.py`) | `embeddings` | embed stale items | memory items | an embedding belongs to the text it was made from |
| the rest | | | | read-only projections, parsing, configuration, rendering: see `components` in `PROJECT.json` |

Hard behaviours, each listed under `hazards` at its line: two transactions where one was
meant; leases that run out under a living run; read-then-write across transactions;
statuses kept over an unlock; process exits between any two steps; repeated requests;
budgets counted in memory and in a checkpoint; streams that read four changing things
one after the other; a file system that is not part of the transaction; an edit that writes
back every field of a row it read earlier; a stream that breaks at any frame and is resumed
while the run goes on; replies that arrive after the actor, the session or the view has
changed; optimistic rows rolled back over one another; state that React keeps for a place
while the row in it changes.

## Modules

| module | models | runs |
|---|---|---|
| `JobLifecycle` | abstract: what a durable job queue promises | property of `inspection` |
| `InspectionJobs` | the inspection queue in full | `inspection` |
| `RunLog` | abstract: how the event log of a run grows, whoever writes it | property of `conversation` |
| `ConversationRuns` | conversation runs from submit to the closed stream | `conversation` |
| `AgentRuntime` | one run of the bounded agent loop, over its lives | `agent_runtime`, `agent_repeats` |
| `IngestionJobs` | the ingestion queue and its chunks | `ingestion` |
| `Deliverables` | one deliverable: submissions, their files, edits of its row | `deliverable_files`, `deliverable_regress` |
| `StreamClient` (vocabulary and safety in `StreamCall`) | one call of `streamWorkspaceMessage` against the log of its run | `stream` |
| `ChatPane` | sessions, messages, composer and turn in one tab | `chat` |
| `WorkspaceSync` (vocabulary and safety in `WorkspaceTab`) | the tab's copy of the workspace and its polling | `workspace` |
| `RowEditing` | drafts, saves and rollbacks of eight editable panels | `rows` |
| `ReviewQueue` | the review panel, the decisions and what the store makes of them | `review` |

The theorems about a module `M` are in `M_proofs`. Two of these hold the proofs of two modules
that run in one tab: `Chat_proofs` extends `ChatPane` and takes `StreamClient` as the instance
`Stream`, `Workspace_proofs` extends `RowEditing` and takes `WorkspaceSync` as the instance
`Sync`. An instance needs the variables it is substituted for declared beforehand, and these
are declared in `StreamCall` and `WorkspaceTab`; a property stated there is the same formula in
the run and in the theorem. Each `MC...` module declares the model values
of its instance; the `.cfg` of the same name gives the constants their values. A definition
commented *Mutant* is a plausible bug that replaces a definition after it; `mutants` names
the property each one breaks.

How the modules meet. `ConversationRuns` writes the event logs that `StreamClient` reads at the
other end of a connection, and `RunLog` is what the two agree upon: a run is named before it
talks (a recovery alone may come first), has last words at most once, adds at most the outcome
of its episode to them, and settles only after them. `LogsAreTold` says that `ConversationRuns`
implements it, and the theorem `ToldRunsAreStreamed` that a client over logs that grow this way
implements `StreamClient`; what is proved of a call, `OneRunOneText`, therefore holds over the
logs that the backend really writes. `ChatPane` sees a call of `StreamClient` only as taken,
answered or failed, `WorkspaceSync` sees `IngestionJobs` only as the status of a job, and its
*panel* and *turn* requests are the saves of `RowEditing` and `ReviewQueue` and the turns of
`ChatPane`. What one of them promises is what the next assumes: `CallEnds` is why the turn of
`ChatPane` may be given fairness, `TurnsEnd` why the run behind `StreamClient` ends.

### InspectionJobs

`projects`, `events`, `cursor`, `jobs` are tables; the remaining variables are the locals of
each worker's `process_once`. A row keeps its status, attempts, owner, the state of its
lease, its error and the *run* whose report is stored: attempts count the claims, so the
attempts a worker saw when it claimed name its run. `Fetch`, `EnqueueForEvent`,
`IgnoreEvent`, `DispatchFails`, `AdvanceCursor` are `dispatch_new_events`; `Claim` and
`ClaimNone` are `claim_next` with the recovery of expired leases in the same transaction;
`Complete`, `FailRead`, `FailWrite` are the ends of a run. `Crash` loses the locals, never
the row. Environment: projects appear, events are appended (with or without a project, relevant
or not), the API and the cron ask, time passes.

The abstract `JobLifecycle` knows only status and attempts of each key.
`FollowsLifecycle` says that every step, taken while no run has outlived its lease, is one
of its steps; with a lease outlived the code really departs from it, since `complete` and
`fail` do not look at the owner, and `OnlyLostRunsUndo` says how far: the report of a row's
newest run is replaced or reopened only by a run that is no longer the newest, and a row is
stranded in the queue with its attempts used up only by the recovery of its last lease or by
such a run.

### ConversationRuns

Per request: the row's status, its event log, whether its session exists, the state of its
user message and of its answers. In memory: the process, the event loop inside `submit`
(there is no await between its steps, so one submission at a time), tasks of the pool, the
future on record, the client's stream. `DeleteSession`, streams and pool threads interleave
with everything. `Start` re-queues the running rows in one transaction, `TellRecovered` appends
the notice to each in one of its own, `ListQueued` lists the queued ones up to the limit, and
`RecoverLaunch` launches them; an exit between any two of these leaves rows re-queued and
untold. A client keeps its last event id over an exit and resumes.

The model shows that the combination of lock, future and terminal check keeps one execution
per run although `_forget` does not compare the future it forgets, and that an execution
misses its message only after an exit or a deletion (`SoundExecution`); what a repeat with a
stale status can do, and that nothing is recorded after a stream has closed
(`EndsAreFinal`); that the messages of a run are settled as the run is and that exits alone
duplicate answers, one each (`MessagesFollowRun`); that the four reads of the stream are in
an order in which it misses nothing (`StreamSawTheEnd`); that the log of every run grows as
`RunLog` says, over exits and repeats (`LogsAreTold`); and that runs and streams end
(`TurnsEnd`).

### AgentRuntime

The loop of `stream` cut at the points where time is read, the checkpoint saved or the
outside called: `Ask`, `Heard`, `Skip`, `Prepare`, `Invoke`, `Result`, `EndCalls`, `Judge`,
`Finalize`, `Final`, `Return`. `ran` is a history variable: the invocations over all lives.
The model, the gate and the clock answer as they like, but for an empty answer, which the gate
of the conversations refuses (`conversation_agent.py:69`); the gate of the inspections judges
the report instead (`completion.py:10`), so what is said of empty answers is said of
conversations. A step between `Prepare` and
`EndCalls` leaves the checkpoint at `tool_inflight`, which `restore` refuses: this is why
`NoInvocationForgotten` holds: a run goes on only with the results of all it did.

`BudgetOverLives` bounds tool calls and turns by the run, and rejections by their budget and
one more per exit: the rejection is counted in memory and reaches the checkpoint in a later
save (`executor.py:598`), so an exit in between gives it back.

`agent_repeats` is a run that must find a violation: with `duplicate_call_limit = 3`, which
`RuntimeFeatures` accepts, `RepetitionStops` is false, because each executed call resets its
own count to one (`executor.py:363`). With the default of 2 it holds.

### IngestionJobs

A row carries its chunks, how often each item was consolidated and how often its completion was
announced. A source is a document, cut into chunks that are mapped and consolidated one by one,
or one of `Workbooks`: these are handed to `StructuredIngestionService`
(`source_ingestion.py:34-35`), which keeps no chunk and imports the rows of the sheet
(`OpenWorkbook`), each with the same chance to fail and to be interrupted. There is one worker
thread; retries are served by other threads in two transactions, the archive in one. Leases are
written by the code and never read, so they are not in the model: restarts alone take a running
job back, and they do it without looking at the attempts. `SettledJobsStay` and `JobsSettle`
make that explicit: a job on its last attempt whose process dies is left in the queue, where it
is neither claimed nor retried. `CompletedIsComplete` says what a completed job has done (a
document every chunk and every item, a workbook every row that is not skipped, without a chunk),
and that its announcement is missing only if the process died between the two transactions of
the completion.

### Deliverables

`deliverable` and `versions` are rows, `disk` the files below the versions' directories,
`sub` and `edit` the locals of the threads that serve `submit_version` and
`update_requirement`. A version's number is its position: `Reserve` takes the maximum plus one
in the transaction that inserts the row, and rows are never deleted. A file is a version, a
position and the thread whose bytes it holds. A scope stands for the tags copied from the row
to its versions and files; `Shared` are the scopes in which `_require_deliverable_submission_access`
lets members submit.

A submission is `Submit` (the checks), `Reserve`, `WriteFile` for each file, `Complete`,
`Answer`. It may raise wherever the code calls the file system or the store: `WriteFails`,
`CompleteFails`, `AnswerLost` go to the `except` clause (`Clean`, `Unlink`, `Fail`), which may
itself raise (`Abandon`); `ReserveLost` ends the handler before its `try`. A file that is being
written exists before its bytes do (`deliverables.py:249`) and is noted for the clean-up only
after them (line 250): `WriteFails` and `Exit` may leave it on disk in part. `disk` are the
whole files and `cut` those left in part; no clean-up knows these, and a failed version may keep
one. `Sizes` are the numbers of files a submission may have. An edit is `Read`, `Look` and
`Save` (the row is read, read again by `save_deliverable_record`, and written with its versions'
scope), `Announce`. `Exit` loses the locals.

Three history variables say what went wrong before: `stale` (an edit was written over a row
that had changed since it was read), `torn` (the scope changed between the second read of a
save and its write) and `lost` (versions whose handler never came to its end). They qualify
the properties exactly as far as the code does. Submissions alone may complete in any order
(`OnlyStaleEditsRegress`), scopes agree unless a save was torn (`ScopeIsCommon`), and a
version stays in staging only if its handler was lost (`VersionsSettle`): nothing settles it
at the next start. `deliverable_regress` must find a violation: `CurrentIsNewest`, without
the reservation, is false, because an edit begun before a submission and saved after it
writes back the old `current_version` and the old status (`deliverables.py:133`). The list of
deliverables then shows an older version as current, and `tests/test_deliverables.py:114` and
the page `Deliverables.tsx:238` expect the newest.

### StreamClient

A run is a log whose positions are the event ids; `RunBegins`, `RunTalks`, `RunSpeaks`,
`RunEvolves`, `RunSettles` append to it as `RunLog` does, recoveries and resets of a
repeated execution included; a run may also settle without last words, which the server then
makes up (`DeliverMissingEnd`) and `ConversationRuns`, whose storage answers, never needs.
`call` holds the locals of `streamWorkspaceMessage`, `pos` the server's cursor on the open
connection. `Connect`, `ConnectFails`, `Refuse`, `Deliver`, `DeliverMissingEnd`,
`EndOfBody`, `Break`, `Resume` are an attempt: a POST, or a GET from the last id once the
run is known; each frame, dropped if its id is not above the last; the end of the body, with
or without last words; the delay. A frame cut short never parses, so it is delivered whole
or not at all. `copies` counts how often the delta of each event is in the text that the
callbacks have built. `OneRunOneText` says that the `client_request_id`, made once before
the loop, leads every attempt to one run (`OneRunPerCall`), and that the text is what the
log of this run says up to the cursor (`TextIsTheLog`).

### ChatPane

`ui` is the state of `App` and of `SenderBar`: `base` is the conversation whose messages are
on the screen, `active` the session the next message will name, and keeping the two together
is what the handlers must do. `turn` is the message in flight, `requests` the session
requests that have not come back; both were begun with what was read at the click.
`SwitchActor`, `BootArrives`, `BootFails`, `Retry` load an actor; `Revive` is a workspace
that was asked for before the actor was left and lands after a failed boot. Deleting and
opening sessions, renaming, briefs and changes of view overlap with the turn.

`adrift` remembers that messages and active session came apart in one of the two ways the
code permits (the conversation was replaced while a turn was in flight; an old request landed
while the actor was loading again) until something brings them together; outside these ways
`OneConversation` holds, and `OwnConversation` holds without exception: no late reply shows or
continues a conversation of an actor who has left. `owed` are the entries that nothing has
excused from being kept: `EntriesKept` says that a text or a file is in the composer or in a
message, over failed sends, unless it had to make room in a way its comment lists.

### WorkspaceSync

Of a workspace the model keeps the actor it was computed for and the ingestion jobs. A request
is answered with the jobs as they are at some moment before its arrival, and arrives in any
order or fails. A workspace that lacks a section (`ServeLacking`) is refused by
`workspaceValidation.ts` before anything looks at it (`Whole`). `Accepts` is the comparison of
actors that all replies but those of a turn or a brief (`Composed`) pass; switching is disabled
while one of these is in flight, which is why they need none (`OwnWorkspace`). The refresh that
a panel awaits after a save may be sent when the panel has gone and another actor has come
(`RefreshAfterSave`). `RetryJob` is the button that the review panel shows at a failed job.
`Render` is what every new state does to the polling effect: it is cleaned up and armed again
when its key (the active jobs) or its actor changes, and the request of the old effect is
orphaned. `CatchesUp` says that a job that has settled is shown as settled at some time, however
many polls fail or are overtaken, unless it is retried first, and that a skeleton does not stay.

### RowEditing

Eight panels (the three lists are one each) share two hooks and differ in what they keep: one
draft or one per row, rows of the workspace or rows of their own, optimistic or not, a whole row
or a patch; the sets `Lists`, `WorkPanels`, `OwnRows`, `OneDraft`, `WithEditor` name the
differences, and each action has the case of each panel. `Inputs` is what the cells of a row
show in each of them, and what a save sends without its having been typed (`Resent`, `Sent`). A
save is written by the server (`Write`) and answered with the table of that moment (`Land`), or
fails before or after it was written (`Fail`). `Deliverables` does it in two steps: it closes
the editor (`Close`), then asks for the table again (`Read`, `Reload`, `ReloadFails`), its
button loading all along, and leaves its draft as it is. `Other` changes rows elsewhere,
`Refresh` shows them. Title and progress stand for the fields that a milestone save always and
only sometimes sends.

History: `owed` are the typed values that are neither saved, given up nor dropped, `since` (of a
save) the values entered by the time of its click, `entered` the fields typed since the draft
was dropped, `told` the table the server last spoke of, `crossed` that a save began during the
save of another row of a local table. `EditsKept` says where every owed value is and names each
step that may end the debt. Two of these are losses of the code: in a panel with one draft per
row, a save drops what was typed in its row after the click; in a panel with one draft, the
success of row A's save drops what has been typed in row B, opened since
(`DailyWorkRecords.tsx:82-84`, `People.tsx:94-98`, `Deliverables.tsx:96`). No other save and no
failed one drops anything, and what was there at the click goes only if it was sent. `crossed`
is needed because the optimistic table of `DailyWorkRecords` is restored to what it was before
the save, another row's saved values included.

### ReviewQueue

The list of cards has no key (`ReviewQueue.tsx:39`), so React keeps the state of a card by its
place: `places[i]` is the state of the card in place `i`, and stays when the queue moves. A
text is named by the candidate it was written for. A request is sent with the words of the
click; `Write`, `Publish`, `Archive` are the transactions of the store, `Load` the reading of
the reply; other reviewers decide in between (`Other`). A field `moved` of a place says that
its card was replaced under what was typed there, `misled` are the cards that got such words,
`alone` that nobody else wrote the candidate since the click. `OwnWords` says that words reach
another candidate in no way but this one; `PublishedAsEdited` that the two requests behind
*edit and publish* leave the task with the text that was typed.

`Listed` is `_build_confirmation_cards` (`presentation.py:1769-1808`): the gaps of the latest
inspection's report in report order and as often as it names them, whether the store has them
(`Unfiled`: it has not) or not, then the candidates of the report's other lists and then all
others by their last update, these two only while pending and at their first mention. The cut
at 240 items (`presentation.py:343-350`) and the filters of visibility, which only shorten the
list, are not in the model.

## Runs, bounds and why they are enough

| run | instance | shows |
|---|---|---|
| `inspection` | 2 workers, 2 attempts, 2 inputs (events that ask for an inspection, events that do not, a request), batches of 1 | overlapping runs of one row, stale fails, re-dispatch by either worker, an older cursor written over a newer one, an event before its project; crashes are not bounded |
| `conversation` | 1 request repeated at will, 3 tasks, 2 threads, 1 exit, 1 deletion, 4 events of the turn, a recovery list of 1 | requests share nothing but the pool and the recovery list; 3 tasks allow a third execution to be asked for while two are there |
| `agent_runtime` | 2 calls, 5 rounds, 4 tool calls, 2 rejections, 2 calls per turn, 2 exits | every budget is reached first in some behaviour, and each in every life |
| `agent_repeats` | 3 rounds, 3 tool calls, 1 exit, a duplicate limit of 3 | the violation above |
| `ingestion` | 2 uploads out of a transcript of 2 chunks, a short document and a workbook, 1 item or row each, 2 attempts, 2 retrying clients, 1 exit | racing retries, archive under a running job, exit at every step, a workbook beside a document; a third job would only wait for the one worker |
| `deliverable_files` | 2 submitters, 1 edit, 2 versions of 2 files each, 1 exit | an exception or exit after or within each file, an archive or a move out of sight during each upload, one thread that cleans beside one that completes; edits that overlap each other are left to the theorems, which hold for any number |
| `deliverable_regress` | 2 submitters, 1 edit, 2 versions, 1 file, no exit | the violation above |
| `stream` | 4 attempts as in the code, 3 events of the turn and its end | a break after any frame, twice in the same place and once after a reset; the last attempt used up with and without last words |
| `chat` | 2 actors, 2 sessions (one of an earlier visit), 2 entries, 1 session request out, 2 moves | an actor left and come back to, a request that outlives both switches, an entry added while a turn is in flight; a second request would only be a second late reply |
| `workspace` | 2 actors, 1 of them a reviewer, 1 job, 2 requests out, 2 moves | two replies in either order, of either actor, with a boot, a poll, a turn or a brief among them, any of them without a section, and a job retried while it is polled |
| `rows` | 2 symmetric rows, 2 values, 2 saves, 1 change of panel, any first panel | two saves of one row and of two, either failing, with the panel left and entered between them, and a value typed in one row during the save of the other |
| `review` | 1 task card and 1 fact card, 2 reports (the fact under two gaps; the fact, the task and the fact again in the other lists), 1 typed text, 2 clicks, 1 change by others | the queue moved under a typed draft or note by a second click, by another reviewer, by a new candidate or by a new report; one candidate in two cards |

`CHECK_DEADLOCK FALSE` everywhere: with the bounds used up the environment stops and an
idle system has nothing to do.

Fairness of the server. A polling thread polls (`_run` loops until shutdown), a thread of the
pool runs its task, the event loop finishes a handler, startup finishes, leases expire because
time passes, the loop of a run is straight code, a server thread runs its submission to the
end. No run assumes that a process is started again, a client stays connected, an event
arrives or the model says anything in particular; where progress needs the process to be up in
the end the property says so. `EventsSettle` assumes that the projects the events name exist
in the end: one event that names an unknown project stops the dispatch and, with it, every
claim (`inspection_jobs.py:222-230`). `TurnsEnd` assumes that recovery's list of 200 is long
enough.

Fairness of the browser. Timers and intervals fire, and a fetch settles one way or the other:
it may always fail. `CallEnds` needs in addition only that the pool executes an accepted run
to its end. `CatchesUp` needs strong fairness of polls: a poll that is repeated without end is
answered at some time; without it a server that fails every poll would refute the property and
say nothing about the code. The user owes nothing: no click, no keystroke has fairness.

## Proofs

Every invariant and action property that a passing run checks is proved, for every value of
the constants. Each proof has the same plan: an inductive invariant, the lemmas on the data, one
lemma per action (or for one kind of step that several actions share), `Invariance`, and the
properties as theorems.

* `InspectionJobs_proofs`. `IInv` is `TypeOK`, `OneJobPerKey`, `NoEventSkipped`,
  `CurrentRunUnique` and three parts that make them inductive. `BatchInv`: the batch a worker
  holds lies within the log, every wanted event before it has its job, and so has the event
  whose cursor is about to be saved; without it `AdvanceCursor` could skip. `HeldInv`: an
  executing worker's row exists and its run is not newer than the row's attempts; without it a
  second claim could give the number of a living run. `TerminalInv`: what `FailRead` concluded
  still decides the row unless a later claim has taken it. `StepsFollowLifecycle` proves the
  action property `FollowsLifecycle`, one case per action; `ImplementsLifecycle` proves, for one
  worker, `Spec => Lifecycle!LSpec` under the refinement mapping, since only the worker itself
  could take back the row it is running. `OnlyStaleRunsUndo` proves `OnlyLostRunsUndo` with one
  more invariant, `ResultInv`: no stored report is that of a run still at work, nor of one not
  yet begun.
* `ConversationRuns_proofs`. `TaskInv` is the heart: the future on record of a run that has not
  ended, or that some execution works on, is its only execution; a forgotten future is one whose
  execution is over. `LoopInv` says what the event loop knows between the steps of a submission,
  `WordInv` that a log has last words exactly if its run has ended,
  `ReaderInv` what a stream has sent at each of its four reads, `TurnInv` which messages belong
  to which status, `HeardInv` that without exits and deletions an execution sees its message.
  One lemma, `WorkStep`, carries `TaskInv` through all steps of an execution. `RunsAreTold` is
  the refinement of `RunLog`, with *settled* refined by `Over`: the row is terminal and nobody
  is at work on the run. It needs one more invariant, `NamedInv`: an execution that is past its
  beginning, and an ended run, have the run's name in the log. A lemma says what each kind of
  step does to log and row, and another that a step of one run leaves every other one where
  `RunLog` lets it wait or, for an exit, settle.
* `AgentRuntime_proofs`. `RoundInv` relates the round to the turns of the state and of the
  checkpoint, place by place; `CallInv` relates the invocations made to the results held;
  `RejectInv` says what rejection is left for whoever goes on, `TextInv` and `RepairInv` what
  text and repair may be in the state and in the checkpoint. `NoRepetition` has an invariant of
  its own, `RepeatInv`: the last call that ran is on the count, in memory and wherever a run
  resumes, and the call in flight is another one.
* `IngestionJobs_proofs`. `RowsInv` is what a row says of itself (its chunks, none of a
  workbook; its counts, its announcement), `WorkInv` what the worker's place says of the row it
  is at. The two action properties follow from lemmas on the fate of a row in each kind of step.
  That `Min` of a set of numbers is its smallest element is a lemma, from the finiteness of
  intervals.
* `Deliverables_proofs`. `SubInv`: a thread past its reservation holds a version whose row names
  it (so no two threads hold one), in staging while it writes and unlinks and submitted while
  it answers, and the files of that version on disk are exactly those the thread has written
  and not yet unlinked. Without it `Unlink` could remove the files of a submitted version.
  `WholeInv`: a submitted version has its files and a failed one no whole file. `CutInv`: a
  version has at most one file left in part, none while its thread goes on writing, and none if
  it is submitted.
  `DiskInv`: every file belongs to a reserved version, so a reservation finds an empty
  directory. `EditInv`: what an edit will write has the current version of the row it read, and
  that version exists.
* `Chat_proofs`, of `StreamClient`. All attempts have one id, so `accepted` has one member
  (`OneId`) and the run that is known is that run (`RunKnown`); every event of a log but a
  recovery comes after the run's name, and only a run that has begun settles (`LogInv`); a
  client that fetches has an attempt left (`Tries`); the cursor of the client is between what
  the connection has sent and what the run has said (`Cursor`), so a frame either repeats what
  is known or is the next event, and `TextIsTheLog` goes on. `ToldRunsAreStreamed`: every
  step `RunLog` allows a run is, within the bounds on events, one of the run's steps here.
* `Chat_proofs`, of `ChatPane`. `TurnInv` says which turn each phase of the composer has,
  `OwnInv` whose the sessions in lists, turns and requests are, `OneInv` when the messages and
  the active session agree, `KeptInv` where entries are while a turn holds them.
* `Workspace_proofs`, of `WorkspaceSync`. `TurnInv`: of the replies under way those taken
  without a comparison, of a turn or a brief, are the current actor's. `CopyInv`: the copy is
  the current actor's. The assumption on its constants is the hypothesis `Sync!SyncConstants`,
  which the run `workspace` evaluates.
* `Workspace_proofs`, of `RowEditing`. `SavesInv`: what a save sends of a field was typed or is
  of a draft that the panel is known to send again, and once written it carries the table it
  was written to. `DraftInv`: a draft holds nothing that nobody typed, but what is sent again
  anyway; without it a save could pick up the rest of an old draft. `OwedInv`: what is owed is
  in its draft. `SentInv`, `SinceInv`: what a save has not sent of an owed value was typed after
  its click, in a panel with one draft possibly in another row; this is what decides which
  successes may drop it. `OwnInv`: as long as no two saves have crossed, a table kept by its panel
  differs from what the server last said only in the row being saved, and that save remembers
  what to put back.
* `ReviewQueue_proofs`. `StoreInv`: text, note and task of a card that was not misled are its
  own; `ScreenInv`: so is what is typed in a place, or the place has moved; `RequestInv`: so is
  what a request carries, and between the two halves of *edit and publish* the candidate, then
  the task, has the words of the edit unless somebody else wrote it. `EveryCardListed` is the
  lemma on the data: a pending candidate of a gap is shown wherever the report lists it there, any
  other one exactly once, at its first mention or by its last update, each in the place that the
  number of entries before it gives. That there is a *k*-th
  entry is shown from the cardinality of what comes before one, not by induction.

The only assumptions on constants are the named `ASSUME`s of the modules, each evaluated by the
runs, and `DuplicateLimit = 2`, the default, for `NoRepetition`: the run `agent_repeats` shows
that it is needed.

Only model-checked: all liveness (`EventsSettle`, `TurnsEnd`, `RunsEnd`, `JobsSettle`,
`VersionsSettle`, `CallEnds`, `ComposerFreed`, `CatchesUp`), which with `ENABLED` is out of the
prover's reach. `ImplementsLifecycle` is proved for one worker because it is false for two
(`OnlyLostRunsUndo` says by how much). `ToldRunsAreStreamed` is about safety: that a run behind a
stream ends is `TurnsEnd` in one run and fairness in the other.

## Observations

What the history variables and the wording of the properties record, where the repository
states nothing that the code contradicts:

* `OwnWords`: notes and drafts follow the place of a card, not the card (`ReviewQueue.tsx:39`),
  and a note is not cleared by the decision it was sent with. The endpoints that confirm, reject
  and publish do not look at the status of the candidate (`main.py:1403`).
* `BytesFollowVersions`: a version that failed can keep the one file it was writing, in part
  (`deliverables.py:249-250`).
* `EditsKept`, `OthersKept`: the reply to a save closes the editor of whatever row is open by
  then, and where there is one draft what was typed in that row is lost; `Milestone` sends its
  drafts again with later saves; `useAsyncAction` has one pending state for all rows.
* `TableIsTold`: a failed save of `DailyWorkRecords` restores the table of before, without what
  another save has changed since.
* `OneConversation`: a session opened while a turn is in flight shows its messages, and the
  answer of the turn makes its own session the active one.
* `OnlyLostRunsUndo`, `SettledJobsStay`: a job on its last attempt whose process exits stays in
  its queue for ever, with the status queued.

## Plan

1. `MemoryThreads`: items, threads and versions under concurrent consolidation, confirmation
   and merge; `IngestionJobs!Consolidate` composes with it.
2. `WorkRecords`: submission and correction, with the events the inspection queue dispatches.
3. `DailyJournals`: generation, submission, scheduler, backfill at startup.
4. `ProjectSkills`, `SkillEvolution`: life cycles and promotion.
5. `Embeddings`: the worker against edits of an item.
6. Proofs of 1 to 5. `MemoryThreads` would implement an abstract thread as `InspectionJobs` does
   `JobLifecycle`; `WorkspaceSync` and the panels could meet in an abstract tab as the two ends
   of a stream do in `RunLog`.

Runs stay one per question, with bounds of a few minutes at most. A property of a component
already here that turns out shallower than one of a new component makes room for it.

## Not modelled, and why

Briefs, dashboards, parsing, prompts, evaluation and configuration have no concurrent or
durable state of their own. The panels without a module load once and show; their saves are the
panel requests of `WorkspaceSync`. Of the panels in `RowEditing` the model
has the rows that are edited in place. Left out are the group form of `People`
(`People.tsx:94-112`), which has a draft of its own that the reply to a save drops as the form of
a person does, the plan form of `Milestone`, the transfer of a
task in `TaskList`, the file list of `Deliverables`, and the creation and archiving of rows.
The conversation of `ChatPane` is
named by its session: the order and the wording of messages are not in the model.

Only in `Deliverables` may the storage fail in the middle of a handler, because the code there
catches it and cleans up; the other server models assume that it answers (two hazards name
where an SQLite error would bite). Downloads and lists of deliverables only read. Renaming and
archiving a session change nothing a run reads. The wall clock appears as *a lease runs out* and
*the time is up*. Graceful shutdown is a special case of an exit: it only lets running tasks
finish first.
