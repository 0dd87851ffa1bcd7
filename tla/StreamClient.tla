----------------------------- MODULE StreamClient -----------------------------
(***************************************************************************)
(* The browser's end of one conversation turn: a POST opens the event      *)
(* stream, and whenever the stream breaks the client resumes it from the   *)
(* last event it has accepted.                                             *)
(*                                                                         *)
(*   frontend/src/api/client.ts   streamWorkspaceMessage, consumeSse       *)
(*   frontend/src/api/sse.ts      SseReplayCursor, parseSseEvent           *)
(*                                                                         *)
(* The other end is seen from the connection: a run keeps a log whose      *)
(* positions are the event ids (ConversationRuns has its inside).  A frame *)
(* that is cut short never parses, so a frame is delivered whole or not at *)
(* all; heartbeats are comments and deliver nothing.                       *)
(***************************************************************************)
EXTENDS StreamCall

VARIABLE pos \* the server's cursor on the open connection

vars == <<accepted, log, settled, call, pos>>

Init == /\ accepted = {}
        /\ log = [q \in RequestIds |-> << >>]
        /\ settled = [q \in RequestIds |-> FALSE]
        /\ call = [at |-> "fetch", attempt |-> 0, runId |-> NoRun, lastEventId |-> 0,
                   replaying |-> FALSE, finalPayload |-> FALSE, copies |-> NoText,
                   outcome |-> ""]
        /\ pos = 0

-----------------------------------------------------------------------------
(* The run behind the stream *)

Append1(q, kind) ==
    /\ q \in accepted /\ ~settled[q] /\ Len(log[q]) < MaxEvents + 2
    /\ log' = [log EXCEPT ![q] = Append(@, kind)]
    /\ UNCHANGED <<accepted, call, pos>>

\* A run that a process exit has interrupted is told so, even before it has begun,
\* and begins again; every run_started names the same run.
RunBegins(q) == /\ ~HasSpoken(q)
                /\ \/ Len(log[q]) < MaxEvents /\ Append1(q, "run_recovered")
                   \/ (HasBegun(q) => Len(log[q]) < MaxEvents) /\ Append1(q, "run_started")
                /\ UNCHANGED settled

RunTalks(q) == /\ HasBegun(q) /\ ~HasSpoken(q) /\ Len(log[q]) < MaxEvents
               /\ \E kind \in Chatter : Append1(q, kind)
               /\ UNCHANGED settled

RunSpeaks(q) == /\ HasBegun(q) /\ ~HasSpoken(q)
                /\ \E kind \in LastWords : Append1(q, kind)
                /\ UNCHANGED settled

\* The episode of the turn is closed after its answer, and the execution is over.
RunEvolves(q) == /\ HasSpoken(q)
                 /\ Append1(q, "memory_evolution")
                 /\ settled' = [settled EXCEPT ![q] = TRUE]

\* The execution is lost, or a row becomes terminal without last words (a failing
\* append).
RunSettles(q) == /\ q \in accepted /\ HasBegun(q) /\ ~settled[q]
                 /\ settled' = [settled EXCEPT ![q] = TRUE]
                 /\ UNCHANGED <<accepted, log, call, pos>>

-----------------------------------------------------------------------------
(* The client *)

\* One id for the whole call.
ClientRequestId(attempt) == 1

\* The run whose events the open connection carries.
Streamed(c) == IF c.replaying THEN c.runId ELSE ClientRequestId(c.attempt)

\* The catch block: wait and try again, or throw the reason.
CaughtForever(c) == [c EXCEPT !.at = "delay", !.attempt = @ - 1]
Caught(c) == IF c.attempt >= MaxStreamAttempts
               THEN [c EXCEPT !.at = "thrown", !.outcome = "lost"]
               ELSE [c EXCEPT !.at = "delay"]

\* cursor.startAttempt() at the head of the loop.
StartAttempt(c) == [c EXCEPT !.attempt = @ + 1, !.replaying = c.runId # NoRun]

\* A replay asks for the events after the cursor, a first attempt posts.
After(c) == IF c.replaying THEN c.lastEventId ELSE 0

Reaches(c) == IF c.replaying THEN accepted ELSE accepted \cup {ClientRequestId(c.attempt)}

\* The request is answered with an event stream.
Connect == /\ call.at = "fetch"
           /\ LET c == StartAttempt(call) IN
                /\ accepted' = Reaches(c)
                /\ call' = [c EXCEPT !.at = "open"]
                /\ pos' = After(c)
           /\ UNCHANGED <<log, settled>>

\* The request or its answer is lost, or the status is a retryable one; the
\* server may have accepted the message.
ConnectFails == /\ call.at = "fetch"
                /\ LET c == StartAttempt(call) IN
                     /\ accepted' \in {accepted, Reaches(c)}
                     /\ call' = Caught(c)
                /\ UNCHANGED <<log, settled, pos>>

\* Any other status: the session, the run or the model is refused.
Refuse == /\ call.at = "fetch"
          /\ call' = [StartAttempt(call) EXCEPT !.at = "thrown", !.outcome = "refused"]
          /\ UNCHANGED <<accepted, log, settled, pos>>

\* SseReplayCursor.accept
Accepts(c, id) == id > c.lastEventId

\* The handler of an accepted event; forgetting to move the cursor is the slip.
HandledAgain(c, id, kind, q) ==
    CASE kind = "delta"              -> [c EXCEPT !.copies[id] = @ + 1]
      [] kind = "model_output_reset" -> [c EXCEPT !.copies = NoText]
      [] kind = "run_started"        -> [c EXCEPT !.runId = q, !.lastEventId = id]
      [] kind = "error"              -> [c EXCEPT !.at = "thrown", !.outcome = "run_error"]
      [] kind = "final"              -> [c EXCEPT !.finalPayload = TRUE]
      [] OTHER                       -> c
Handled(c, id, kind, q) ==
    LET seen == [c EXCEPT !.lastEventId = id] IN
    CASE kind = "delta"              -> [seen EXCEPT !.copies[id] = @ + 1]
      [] kind = "model_output_reset" -> [seen EXCEPT !.copies = NoText]
      [] kind = "run_started"        -> [seen EXCEPT !.runId = q]
      [] kind = "error"              -> [seen EXCEPT !.at = "thrown", !.outcome = "run_error"]
      [] kind = "final"              -> [seen EXCEPT !.finalPayload = TRUE]
      [] OTHER                       -> seen

\* The next frame of the connection arrives.
Deliver == LET q == Streamed(call) IN
           /\ call.at = "open" /\ pos < Len(log[q])
           /\ pos' = pos + 1
           /\ call' = IF Accepts(call, pos + 1)
                        THEN Handled(call, pos + 1, log[q][pos + 1], q)
                        ELSE call
           /\ UNCHANGED <<accepted, log, settled>>

\* The error frame the server makes up for a run that ended without last words.
DeliverMissingEnd == LET q == Streamed(call) IN
                     /\ call.at = "open" /\ pos = Len(log[q]) /\ settled[q]
                     /\ ~HasSpoken(q)
                     /\ call' = [call EXCEPT !.lastEventId = pos + 1, !.at = "thrown",
                                             !.outcome = "run_error"]
                     /\ UNCHANGED <<accepted, log, settled, pos>>

\* After the loop the workspace of the payload is validated.
Finished(c) == {[c EXCEPT !.at = "returned", !.outcome = "answer"],
                [c EXCEPT !.at = "thrown", !.outcome = "invalid"]}

\* The body ends, because the server has said everything or too early.
EndOfBody == /\ call.at = "open"
             /\ IF call.finalPayload THEN call' \in Finished(call)
                                     ELSE call' = Caught(call)
             /\ UNCHANGED <<accepted, log, settled, pos>>

\* reader.read() rejects.
Break == /\ call.at = "open"
         /\ call' = Caught(call)
         /\ UNCHANGED <<accepted, log, settled, pos>>

\* The retry delay is over and the loop condition is evaluated.
Resume == /\ call.at = "delay"
          /\ IF call.finalPayload THEN call' \in Finished(call)
                                  ELSE call' = [call EXCEPT !.at = "fetch"]
          /\ UNCHANGED <<accepted, log, settled, pos>>

-----------------------------------------------------------------------------
Client == \/ Connect \/ ConnectFails \/ Refuse
          \/ Deliver \/ DeliverMissingEnd \/ EndOfBody \/ Break \/ Resume

Runs(q) == RunBegins(q) \/ RunTalks(q) \/ RunSpeaks(q) \/ RunEvolves(q) \/ RunSettles(q)

Next == Client \/ \E q \in RequestIds : Runs(q)

Spec == Init /\ [][Next]_vars

\* A fetch settles, a body that has something to read or an end is read, and
\* the retry timer fires; the pool executes an accepted run to its end.
FairSpec == /\ Spec /\ WF_vars(Client)
            /\ \A q \in RequestIds : WF_vars(Runs(q)) /\ WF_vars(RunSettles(q))

-----------------------------------------------------------------------------
\* Every variable keeps its form and stays within its bounds.
TypeOK == /\ accepted \subseteq RequestIds
          /\ log \in [RequestIds -> Logs]
          /\ settled \in [RequestIds -> BOOLEAN]
          /\ call \in Calls
          /\ pos \in 0 .. MaxEvents + 2

\* The call returns or throws; the composer does not stay busy.
CallEnds == <>(call.at \in {"returned", "thrown"})
=============================================================================
