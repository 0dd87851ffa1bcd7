-------------------------------- MODULE RunLog --------------------------------
(***************************************************************************)
(* What the two ends of an event stream agree upon: how the log of a        *)
(* conversation run grows.                                                  *)
(*                                                                         *)
(*   agent/conversation/run_manager.py   the events of an execution         *)
(*   store/runtime_repository.py         runtime_events                     *)
(*                                                                         *)
(* ConversationRuns writes such logs, StreamClient reads them.              *)
(***************************************************************************)
EXTENDS Sequences

CONSTANT Runs

VARIABLES log,    \* the events of a run, from the first
          settled \* nothing will be added to them

LastWords == {"final", "error"}
Chatter   == {"tool", "delta", "model_output_reset"}

Said(q, kinds) == \E i \in DOMAIN log[q] : log[q][i] \in kinds

Init == /\ log = [q \in Runs |-> << >>]
        /\ settled = [q \in Runs |-> FALSE]

Adds(q, kinds) == \E kind \in kinds : log'[q] = Append(log[q], kind)

\* An execution names the run, and a run that is taken up again is told so first.
Begins(q) == /\ ~Said(q, LastWords)
             /\ Adds(q, {"run_started", "run_recovered"})
             /\ settled'[q] = settled[q]

Talks(q) == /\ Said(q, {"run_started"}) /\ ~Said(q, LastWords)
            /\ Adds(q, Chatter)
            /\ settled'[q] = settled[q]

Speaks(q) == /\ Said(q, {"run_started"}) /\ ~Said(q, LastWords)
             /\ Adds(q, LastWords)
             /\ settled'[q] = settled[q]

\* The last thing an execution adds is what came of the episode of the turn.
Evolves(q) == /\ Said(q, LastWords) /\ ~settled[q]
              /\ Adds(q, {"memory_evolution"})
              /\ settled'[q] = TRUE

\* The execution of a run that has spoken is over, or lost with its process.
Settles(q) == /\ Said(q, LastWords)
              /\ log'[q] = log[q] /\ settled'[q] = TRUE

Waits(q) == log'[q] = log[q] /\ settled'[q] = settled[q]

Step(q) == Begins(q) \/ Talks(q) \/ Speaks(q) \/ Evolves(q) \/ Settles(q) \/ Waits(q)

\* Runs are independent of each other; an exit settles several at once.
Next == /\ log' = [q \in Runs |-> log'[q]]
        /\ settled' = [q \in Runs |-> settled'[q]]
        /\ \A q \in Runs : Step(q)

Spec == Init /\ [][Next]_<<log, settled>>
=============================================================================
