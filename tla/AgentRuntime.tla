---------------------------- MODULE AgentRuntime ----------------------------
(***************************************************************************)
(* One run of the bounded agent loop: the model is asked for a turn, its   *)
(* tool calls are invoked one by one, its answer is put to the completion  *)
(* gate, until the answer is accepted or a budget is used up.  The state   *)
(* is checkpointed in the run's row, and a run that lost its process is    *)
(* resumed from there.                                                     *)
(*                                                                         *)
(*   agent/runtime/executor.py   BoundedAgentRuntime.stream                *)
(*   agent/runtime/state.py      RuntimeState.checkpoint, restore          *)
(*   agent/runtime/contracts.py  RuntimeFeatures                           *)
(*                                                                         *)
(* What the model says, which tools it calls and what the gate thinks of   *)
(* an answer is up to them; the gate is that of the conversations, which   *)
(* never accepts an empty answer.  Tool calls are told apart by their      *)
(* signature (name and arguments).                                         *)
(***************************************************************************)
EXTENDS Integers, Sequences, FiniteSets, SequencesExt

CONSTANTS Calls,          \* signatures of tool calls
          MaxRounds,      \* features.max_rounds
          DuplicateLimit, \* features.duplicate_call_limit
          MaxToolCalls,   \* features.max_tool_calls
          MaxRejections,  \* features.max_verification_rejections
          FinalAnswer,    \* features.final_answer_on_stop
          MaxPerTurn,     \* bound: tool calls of one turn
          MaxCrashes      \* bound: process exits

\* RuntimeFeatures.__post_init__
ASSUME FeatureLimits ==
    /\ MaxRounds \in Nat \ {0}
    /\ DuplicateLimit \in Nat /\ DuplicateLimit >= 2
    /\ MaxToolCalls \in Nat \ {0}
    /\ MaxRejections \in Nat \ {0}
    /\ FinalAnswer \in BOOLEAN
    /\ MaxPerTurn \in Nat \ {0}
    /\ MaxCrashes \in Nat

VARIABLES pc,       \* where the loop is; "down" between two lives of the process
          state,    \* RuntimeState, in memory
          round,    \* round_index of the loop
          turn,     \* the model's turn: its text, the calls still to be handled
          flags,    \* what the calls of the current turn ran into
          late,     \* max_elapsed_seconds have passed in this life
          ckpt,     \* the checkpoint column of the run
          ran,      \* the invocations of tools, over all lives
          crashes

vars == <<pc, state, round, turn, flags, late, ckpt, ran, crashes>>

\* results: the results of invoked tools in tool_results (and in the messages).
Fresh == [turns |-> 0, calls |-> 0, results |-> 0, counts |-> [c \in Calls |-> 0],
          rejections |-> 0, repair |-> FALSE, text |-> "none",
          completed |-> FALSE, stop |-> "none"]

\* Mutant: the checkpoint does not hold the number of calls.
SavedUncounted(s, stage, next) ==
    [stage |-> stage, next |-> next, turns |-> s.turns, calls |-> 0,
     results |-> s.results, counts |-> s.counts, rejections |-> s.rejections,
     repair |-> s.repair, text |-> s.text]

\* RuntimeState.checkpoint leaves completed and stop_reason to the stage.
Saved(s, stage, next) ==
    [stage |-> stage, next |-> next, turns |-> s.turns, calls |-> s.calls,
     results |-> s.results, counts |-> s.counts, rejections |-> s.rejections,
     repair |-> s.repair, text |-> s.text]

\* RuntimeState.restore
Restored(c) ==
    [turns |-> c.turns, calls |-> c.calls, results |-> c.results, counts |-> c.counts,
     rejections |-> c.rejections, repair |-> c.repair, text |-> c.text,
     completed |-> c.stage = "completed",
     stop |-> IF c.stage = "completed" THEN "model_completed" ELSE "none"]

NoTurn  == [text |-> "none", calls |-> << >>]
NoFlags == [progress |-> FALSE, duplicate |-> FALSE, budget |-> FALSE, elapsed |-> FALSE]

Init == /\ pc = "down"
        /\ state = Fresh
        /\ round = 0
        /\ turn = NoTurn
        /\ flags = NoFlags
        /\ late = FALSE
        /\ ckpt = Saved(Fresh, "empty", 1)
        /\ ran = << >>
        /\ crashes = 0

-----------------------------------------------------------------------------
\* A life begins, or ends.

\* stream: restore the checkpoint, if there is one, and save it again as the
\* stage the loop starts from; a stop that had been saved is forgotten.
Begin ==
    /\ pc = "down"
    /\ ckpt.stage # "tool_inflight"
    /\ LET s == Restored(ckpt) IN
       /\ state' = s
       /\ round' = ckpt.next
       /\ ckpt' = Saved(s, IF s.completed THEN "completed" ELSE "before_model", ckpt.next)
       /\ pc' = IF s.completed THEN "stopped" ELSE "ask"
    /\ turn' = NoTurn /\ flags' = NoFlags /\ late' = FALSE
    /\ UNCHANGED <<ran, crashes>>

\* Interrupted tool execution requires explicit reconciliation: restore raises.
Refuse ==
    /\ pc = "down"
    /\ ckpt.stage = "tool_inflight"
    /\ pc' = "returned"
    /\ state' = [state EXCEPT !.stop = "refused"]
    /\ UNCHANGED <<round, turn, flags, late, ckpt, ran, crashes>>

Alive == pc \notin {"down", "returned"}

\* The process dies while the run is not terminal.
Crash == /\ Alive /\ crashes < MaxCrashes
         /\ crashes' = crashes + 1
         /\ pc' = "down"
         /\ state' = Fresh /\ round' = 0 /\ turn' = NoTurn
         /\ flags' = NoFlags /\ late' = FALSE
         /\ UNCHANGED <<ckpt, ran>>

TimePasses == /\ Alive /\ ~late
              /\ late' = TRUE
              /\ UNCHANGED <<pc, state, round, turn, flags, ckpt, ran, crashes>>

\* The planner, the gate, the middleware or the checkpoint raises: the run fails.
Raise == /\ Alive /\ pc \notin {"stopped", "said"}
         /\ pc' = "returned"
         /\ state' = [state EXCEPT !.stop = "runtime_failed"]
         /\ UNCHANGED <<round, turn, flags, late, ckpt, ran, crashes>>

-----------------------------------------------------------------------------
\* A round.

StopWith(reason) == pc' = "stopped" /\ state' = [state EXCEPT !.stop = reason]

OutOfRounds == /\ pc = "ask" /\ round > MaxRounds
               /\ StopWith("max_rounds_reached")
               /\ UNCHANGED <<round, turn, flags, late, ckpt, ran, crashes>>

OutOfTime == /\ pc = "ask" /\ round <= MaxRounds /\ late
             /\ StopWith("max_elapsed_time_reached")
             /\ UNCHANGED <<round, turn, flags, late, ckpt, ran, crashes>>

\* The model's turn: an answer, which may be empty, or tool calls.
Turns == {[text |-> t, calls |-> << >>] : t \in {"none", "draft"}}
           \cup {[text |-> "none", calls |-> cs] :
                    cs \in BoundedSeq(Calls, MaxPerTurn) \ {<< >>}}

\* Mutant: tool calls made while a repair is pending are not blocked.
AskUnblocked ==
    /\ pc = "ask" /\ round <= MaxRounds /\ ~late
    /\ turn' \in Turns
    /\ state' = [state EXCEPT !.turns = @ + 1]
    /\ flags' = NoFlags
    /\ pc' = "heard"
    /\ UNCHANGED <<round, late, ckpt, ran, crashes>>

\* While a repair is pending the model is given no tools, and the calls it makes
\* all the same are blocked.
Ask ==
    /\ pc = "ask" /\ round <= MaxRounds /\ ~late
    /\ \E t \in Turns :
          turn' = IF state.repair THEN [t EXCEPT !.calls = << >>] ELSE t
    /\ state' = [state EXCEPT !.turns = @ + 1]
    /\ flags' = NoFlags
    /\ pc' = "heard"
    /\ UNCHANGED <<round, late, ckpt, ran, crashes>>

\* The turn is dropped if the time ran out meanwhile.
Heard ==
    /\ pc = "heard"
    /\ IF late
       THEN /\ StopWith("max_elapsed_time_reached")
            /\ ckpt' = Saved(state, "stopped", round + 1)
       ELSE /\ pc' = IF turn.calls # << >> THEN "calls" ELSE "judge"
            /\ UNCHANGED <<state, ckpt>>
    /\ UNCHANGED <<round, turn, flags, late, ran, crashes>>

-----------------------------------------------------------------------------
\* The calls of a turn, in order.

Call == Head(turn.calls)

\* The call counts, towards the budget and towards its own repetition.
Repeats == [state.counts EXCEPT ![Call] = @ + 1]
Counted == [state EXCEPT !.calls = @ + 1, !.counts = Repeats]

OverBudget == Counted.calls > MaxToolCalls
Repeated   == Repeats[Call] >= DuplicateLimit
Allowed    == ~OverBudget /\ ~late /\ ~Repeated

Skip ==
    /\ pc = "calls" /\ turn.calls # << >>
    /\ ~Allowed
    /\ state' = Counted
    /\ flags' = IF OverBudget THEN [flags EXCEPT !.budget = TRUE]
                ELSE IF late THEN [flags EXCEPT !.elapsed = TRUE]
                ELSE [flags EXCEPT !.duplicate = TRUE]
    /\ turn' = [turn EXCEPT !.calls = Tail(@)]
    /\ UNCHANGED <<pc, round, late, ckpt, ran, crashes>>

\* Mutant: the checkpoint still says before_model.
PrepareUnmarked ==
    /\ pc = "calls" /\ turn.calls # << >>
    /\ Allowed
    /\ state' = Counted
    /\ flags' = [flags EXCEPT !.progress = TRUE]
    /\ ckpt' = Saved(Counted, "before_model", round)
    /\ pc' = "inflight"
    /\ UNCHANGED <<round, turn, late, ran, crashes>>

\* The checkpoint says that the call is in flight before it is made.
Prepare ==
    /\ pc = "calls" /\ turn.calls # << >>
    /\ Allowed
    /\ state' = Counted
    /\ flags' = [flags EXCEPT !.progress = TRUE]
    /\ ckpt' = Saved(Counted, "tool_inflight", round)
    /\ pc' = "inflight"
    /\ UNCHANGED <<round, turn, late, ran, crashes>>

\* The tool is invoked.  What it does is done, whether its answer (or exception)
\* gets back or not.
Invoke ==
    /\ pc = "inflight"
    /\ ran' = Append(ran, Call)
    /\ pc' = "result"
    /\ UNCHANGED <<state, round, turn, flags, late, ckpt, crashes>>

\* Mutant: executing a call does not begin a new count.
ResultUncounted ==
    /\ pc = "result"
    /\ turn' = [turn EXCEPT !.calls = Tail(@)]
    /\ flags' = [flags EXCEPT !.elapsed = @ \/ late]
    /\ state' = [state EXCEPT !.results = @ + 1, !.counts = [c \in Calls |-> 0]]
    /\ pc' = "calls"
    /\ UNCHANGED <<round, late, ckpt, ran, crashes>>

\* An executed call is progress: only repetitions of it count from here.
Result ==
    /\ pc = "result"
    /\ turn' = [turn EXCEPT !.calls = Tail(@)]
    /\ flags' = [flags EXCEPT !.elapsed = @ \/ late]
    /\ state' = [state EXCEPT !.results = @ + 1,
                              !.counts = [c \in Calls |-> IF c = Call THEN 1 ELSE 0]]
    /\ pc' = "calls"
    /\ UNCHANGED <<round, late, ckpt, ran, crashes>>

EndCalls ==
    /\ pc = "calls" /\ turn.calls = << >>
    /\ ckpt' = Saved(state, "before_model", round + 1)
    /\ round' = round + 1
    /\ IF flags.budget THEN StopWith("max_tool_calls_reached")
       ELSE IF flags.elapsed THEN StopWith("max_elapsed_time_reached")
       ELSE IF flags.duplicate /\ ~flags.progress THEN StopWith("no_progress")
       ELSE pc' = "ask" /\ UNCHANGED state
    /\ UNCHANGED <<turn, flags, late, ran, crashes>>

-----------------------------------------------------------------------------
\* The answer.

\* What the gate of the conversations may say: an empty answer is missing, and the
\* errors it finds ask for a repair without tools.  (The gate of the inspections, which
\* judges a report and not the answer, may accept an empty one.)
Verdicts(text) == IF text = "none" THEN {"missing"} ELSE {"complete", "missing", "errors"}

\* Mutant: the repair of a rejected answer is free of charge.
JudgeAgain ==
    /\ pc = "judge"
    /\ \E verdict \in Verdicts(turn.text) :
          IF verdict = "complete"
          THEN /\ state' = [state EXCEPT !.text = turn.text, !.completed = TRUE,
                                         !.stop = "model_completed"]
               /\ ckpt' = Saved(state', "completed", round + 1)
               /\ pc' = "stopped"
          ELSE /\ state' = [state EXCEPT !.text = "none", !.turns = @ - 1]
               /\ ckpt' = Saved(state', "before_model", round)
               /\ pc' = "ask"
    /\ UNCHANGED <<round, turn, flags, late, ran, crashes>>

Judge ==
    /\ pc = "judge"
    /\ \E verdict \in Verdicts(turn.text) :
          IF verdict = "complete"
          THEN /\ state' = [state EXCEPT !.text = turn.text, !.completed = TRUE,
                                         !.stop = "model_completed"]
               /\ ckpt' = Saved(state', "completed", round + 1)
               /\ pc' = "stopped"
               /\ UNCHANGED round
          ELSE LET s == [state EXCEPT !.rejections = @ + 1, !.text = "none",
                                      !.repair = @ \/ verdict = "errors"]
               IN IF s.rejections >= MaxRejections
                  THEN /\ state' = [s EXCEPT !.stop = "verification_rejected"]
                       /\ pc' = "stopped"
                       /\ UNCHANGED <<round, ckpt>>
                  ELSE /\ state' = s
                       /\ round' = round + 1
                       /\ ckpt' = Saved(s, "before_model", round + 1)
                       /\ pc' = "ask"
    /\ UNCHANGED <<turn, flags, late, ran, crashes>>

\* final_answer_on_stop: one more turn without tools for a run that stopped over
\* its calls, if a turn is left.
Finalizes == /\ FinalAnswer /\ state.text = "none"
             /\ state.turns < MaxRounds
             /\ state.stop \in {"no_progress", "max_tool_calls_reached"}
             /\ ~late

Finalize ==
    /\ pc = "stopped" /\ Finalizes
    /\ state' = [state EXCEPT !.turns = @ + 1]
    /\ \E text \in {"none", "draft"} : turn' = [NoTurn EXCEPT !.text = text]
    /\ pc' = "final"
    /\ UNCHANGED <<round, flags, late, ckpt, ran, crashes>>

\* Mutant: what was said after the stop is taken unseen.
FinalUnjudged ==
    /\ pc = "final"
    /\ IF late
       THEN /\ state' = [state EXCEPT !.stop = "max_elapsed_time_reached"]
            /\ ckpt' = Saved(state', "stopped", state.turns + 1)
       ELSE /\ state' = [state EXCEPT !.text = turn.text]
            /\ ckpt' = Saved(state', "stopped", state.turns + 1)
    /\ pc' = "said"
    /\ UNCHANGED <<round, turn, flags, late, ran, crashes>>

Final ==
    /\ pc = "final"
    /\ IF late
       THEN /\ state' = [state EXCEPT !.stop = "max_elapsed_time_reached"]
            /\ ckpt' = Saved(state', "stopped", state.turns + 1)
       ELSE \E verdict \in Verdicts(turn.text) :
            /\ state' = IF verdict = "complete"
                        THEN [state EXCEPT !.text = turn.text, !.completed = TRUE]
                        ELSE IF turn.text = "none" THEN state
                        ELSE [state EXCEPT !.rejections = @ + 1]
            /\ ckpt' = IF turn.text = "none" THEN ckpt
                       ELSE Saved(state', IF state'.completed THEN "completed" ELSE "stopped",
                                  state.turns + 1)
    /\ pc' = "said"
    /\ UNCHANGED <<round, turn, flags, late, ran, crashes>>

\* The result is returned and the run becomes terminal.
Return == /\ pc = "said" \/ (pc = "stopped" /\ ~Finalizes)
          /\ pc' = "returned"
          /\ UNCHANGED <<state, round, turn, flags, late, ckpt, ran, crashes>>

-----------------------------------------------------------------------------

Loop == \/ Begin \/ Refuse \/ OutOfRounds \/ OutOfTime \/ Ask \/ Heard
        \/ Skip \/ Prepare \/ Invoke \/ Result \/ EndCalls
        \/ Judge \/ Finalize \/ Final \/ Return

Next == Loop \/ Raise \/ Crash \/ TimePasses

Spec == Init /\ [][Next]_vars

\* The loop is one thread of straight code, recovery begins it again.
FairSpec == Spec /\ WF_vars(Loop)

-----------------------------------------------------------------------------
\* Properties.

Stages == {"empty", "before_model", "tool_inflight", "stopped", "completed"}
Texts  == {"none", "draft"}
Stops  == {"none", "model_completed", "max_rounds_reached", "max_elapsed_time_reached",
           "max_tool_calls_reached", "no_progress", "verification_rejected",
           "runtime_failed", "refused"}

\* Every variable keeps its form and stays within its bounds.
TypeOK ==
    /\ pc \in {"down", "ask", "heard", "calls", "inflight", "result", "judge",
               "stopped", "final", "said", "returned"}
    /\ state \in [turns : Nat, calls : Nat, results : Nat, counts : [Calls -> Nat],
                  rejections : Nat, repair : BOOLEAN, text : Texts,
                  completed : BOOLEAN, stop : Stops]
    /\ round \in Nat
    /\ turn \in [text : Texts, calls : Seq(Calls)]
    /\ flags \in [progress : BOOLEAN, duplicate : BOOLEAN, budget : BOOLEAN,
                  elapsed : BOOLEAN]
    /\ late \in BOOLEAN
    /\ ckpt \in [stage : Stages, next : Nat \ {0}, turns : Nat, calls : Nat, results : Nat,
                 counts : [Calls -> Nat], rejections : Nat,
                 repair : BOOLEAN, text : Texts]
    /\ ran \in Seq(Calls)
    /\ crashes \in 0 .. MaxCrashes

\* No tool that was ever invoked is forgotten: whenever the run goes on, in this
\* life or a later one, the results of all invocations are before the model.
\* Wherever the process dies, the checkpoint holds them or is not resumed.
NoInvocationForgotten ==
    Alive => Len(ran) = state.results + (IF pc = "result" THEN 1 ELSE 0)

\* The budgets are the run's, not the process's: restarts included, no more than
\* max_tool_calls tools are ever invoked, and rounds and turns stay in step, so
\* that max_rounds bounds the turns the model has been given on the record.
BudgetOverLives ==
    /\ TypeOK
    /\ Len(ran) <= MaxToolCalls
    /\ state.turns <= MaxRounds
    /\ ckpt.turns <= MaxRounds
    /\ state.rejections <= MaxRejections + crashes
    /\ ckpt.stage = "tool_inflight" => ckpt.turns = ckpt.next
    /\ ckpt.stage # "tool_inflight" => ckpt.turns = ckpt.next - 1

\* What a conversation returns as its final text has passed its gate: no rejected draft
\* and nothing said after the time ran out is left in the state, nor comes back
\* from a checkpoint.
OnlyVerifiedTextReturned ==
    pc \in {"said", "returned"} => (state.completed <=> state.text # "none")

\* Once a repair without tools was asked for, no tool is invoked any more, in
\* this life or, as far as the checkpoint knows of it, in a later one.
RepairsUseNoTools ==
    [][ran' # ran => ~state.repair /\ ~ckpt.repair]_vars

\* The same call is not executed duplicate_call_limit times in a row.
RepetitionStops ==
    \A i \in DOMAIN ran :
        i + DuplicateLimit - 1 <= Len(ran)
        => \E k \in i .. i + DuplicateLimit - 1 : ran[k] # ran[i]

\* A run comes to an end, however the model behaves and whenever the process dies.
RunsEnd == <>(pc = "returned")
=============================================================================
