------------------------------ MODULE StreamCall ------------------------------
(***************************************************************************)
(* One call of streamWorkspaceMessage and the runs it may have started:     *)
(* what the client holds, what the server has of it, and what must be true  *)
(* of the two together.  StreamClient has the steps.                        *)
(*                                                                         *)
(*   frontend/src/api/client.ts   the local variables of the call           *)
(*   frontend/src/api/sse.ts      SseReplayCursor                           *)
(***************************************************************************)
EXTENDS Naturals, Sequences, FiniteSets

CONSTANTS MaxStreamAttempts, \* MAX_STREAM_ATTEMPTS
          MaxEvents          \* bound: events of a run before its last words

ASSUME StreamConstants == /\ MaxStreamAttempts \in Nat \ {0}
                          /\ MaxEvents \in Nat \ {0}

VARIABLES accepted, \* client_request_ids the server has accepted
          log,      \* events of the run of a request id
          settled,  \* its row is terminal and nothing will be appended
          call      \* the call of streamWorkspaceMessage

RequestIds == 1 .. MaxStreamAttempts
NoRun      == 0
LastWords  == {"final", "error"}
Chatter    == {"tool", "delta", "model_output_reset"}
Beginning  == {"run_started", "run_recovered"}
Kinds      == Beginning \cup Chatter \cup LastWords \cup {"memory_evolution"}
EventIds   == 1 .. MaxEvents + 2
Logs       == {run \in Seq(Kinds) : Len(run) <= MaxEvents + 2}

\* at: in the loop before a fetch, reading a body, waiting for the retry delay,
\* returned, thrown.  copies: how often the delta of an event id is part of the
\* text that onDelta and onReset have built.
Calls == [at: {"fetch", "open", "delay", "returned", "thrown"},
          attempt: 0 .. MaxStreamAttempts, runId: {NoRun} \cup RequestIds,
          lastEventId: 0 .. MaxEvents + 3, replaying: BOOLEAN,
          finalPayload: BOOLEAN, copies: [EventIds -> Nat],
          outcome: {"", "answer", "invalid", "run_error", "refused", "lost"}]

NoText == [i \in EventIds |-> 0]

HasBegun(q)  == \E i \in DOMAIN log[q] : log[q][i] = "run_started"
HasSpoken(q) == \E i \in DOMAIN log[q] : log[q][i] \in LastWords

-----------------------------------------------------------------------------
\* A delta belongs to the text when the client has read past it and no reset
\* between it and the cursor has thrown it away.
InText(run, last, i) == /\ i \in DOMAIN run /\ i <= last /\ run[i] = "delta"
                        /\ \A j \in DOMAIN run : i < j /\ j <= last
                                                   => run[j] # "model_output_reset"

\* The text on the screen is what the run has said up to the cursor, every delta
\* exactly once, however often the stream broke and was resumed.
TextIsTheLog ==
    \A i \in EventIds :
      call.copies[i] = IF call.runId # NoRun /\ InText(log[call.runId], call.lastEventId, i)
                         THEN 1 ELSE 0

\* However often the POST is repeated, the message is executed as one run, and
\* the stream that is followed is the stream of that run.
OneRunPerCall == /\ Cardinality(accepted) <= 1
                 /\ call.runId # NoRun => call.runId \in accepted

\* Whatever is lost, cut or repeated, one run answers the call and its text is
\* what is read.
OneRunOneText == OneRunPerCall /\ TextIsTheLog
=============================================================================
