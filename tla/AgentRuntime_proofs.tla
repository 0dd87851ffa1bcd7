------------------------ MODULE AgentRuntime_proofs ------------------------
(***************************************************************************)
(* Theorems of AgentRuntime, for any calls, budgets and process exits.      *)
(***************************************************************************)
EXTENDS AgentRuntime, SequenceTheorems, TLAPS

Talking == {"heard", "calls", "inflight", "result", "judge"}
Working == Talking \cup {"ask"}

\* Rounds and turns stay in step, in memory and in the checkpoint.
RoundInv ==
    /\ pc = "ask" => state.turns = round - 1
    /\ pc \in Talking => state.turns = round /\ round > 0
    /\ state.turns <= MaxRounds /\ ckpt.turns <= MaxRounds
    /\ ckpt.stage = "tool_inflight" => ckpt.turns = ckpt.next
    /\ ckpt.stage # "tool_inflight" => ckpt.turns = ckpt.next - 1

\* Every invocation is among the calls that were counted, and a checkpoint that
\* may be resumed has the results of all of them.
CallInv ==
    /\ NoInvocationForgotten
    /\ Len(ran) <= MaxToolCalls
    /\ Alive => state.results <= state.calls
    /\ pc \in {"inflight", "result"} =>
         /\ ckpt.stage = "tool_inflight" /\ turn.calls # << >>
         /\ state.results < state.calls /\ state.calls <= MaxToolCalls
    /\ ckpt.stage # "tool_inflight" => /\ ckpt.results <= ckpt.calls
                                       /\ Len(ran) = ckpt.results

\* A life that begins has a rejection left.
RejectInv ==
    /\ state.rejections <= MaxRejections + crashes
    /\ ckpt.rejections <= MaxRejections + crashes
    /\ pc = "down" => ckpt.rejections < MaxRejections + crashes
    /\ pc \in Working \cup {"final"} => state.rejections < MaxRejections + crashes
    /\ pc = "stopped" /\ state.stop \in {"no_progress", "max_tool_calls_reached"} =>
         state.rejections < MaxRejections + crashes

\* Only an accepted answer is kept, in memory and in the checkpoint.
TextInv ==
    /\ state.completed <=> state.text # "none"
    /\ pc \in Working \cup {"final"} => state.text = "none"
    /\ ckpt.stage = "completed" <=> ckpt.text # "none"

\* A turn that calls tools is no repair.
RepairInv ==
    /\ pc \in {"heard", "calls", "inflight", "result"} /\ turn.calls # << >> => ~state.repair
    /\ pc = "inflight" => ~ckpt.repair /\ turn.calls # << >>

IInv == TypeOK /\ RoundInv /\ CallInv /\ RejectInv /\ TextInv /\ RepairInv
-----------------------------------------------------------------------------
States == [turns : Nat, calls : Nat, results : Nat, counts : [Calls -> Nat],
           rejections : Nat, repair : BOOLEAN, text : Texts,
           completed : BOOLEAN, stop : Stops]
Ckpts  == [stage : Stages, next : Nat \ {0}, turns : Nat, calls : Nat, results : Nat,
           counts : [Calls -> Nat], rejections : Nat, repair : BOOLEAN, text : Texts]
Flags  == [progress : BOOLEAN, duplicate : BOOLEAN, budget : BOOLEAN, elapsed : BOOLEAN]
TurnsSaid == [text : Texts, calls : Seq(Calls)]

LEMMA Types ==
  ASSUME TypeOK
  PROVE  /\ state \in States /\ ckpt \in Ckpts /\ flags \in Flags /\ turn \in TurnsSaid
         /\ ran \in Seq(Calls) /\ Len(ran) \in Nat /\ crashes \in Nat /\ crashes <= MaxCrashes
         /\ round \in Nat /\ late \in BOOLEAN
  BY FeatureLimits DEF TypeOK, States, Ckpts, Flags, TurnsSaid

Places == {"down", "ask", "heard", "calls", "inflight", "result", "judge",
           "stopped", "final", "said", "returned"}

\* A checkpoint holds what the state holds.
LEMMA SavedFields ==
  ASSUME NEW s \in States, NEW stage \in Stages, NEW next \in Nat \ {0}
  PROVE  LET c == Saved(s, stage, next) IN
         /\ c \in Ckpts /\ c.stage = stage /\ c.next = next /\ c.turns = s.turns
         /\ c.calls = s.calls /\ c.results = s.results /\ c.counts = s.counts
         /\ c.rejections = s.rejections /\ c.repair = s.repair /\ c.text = s.text
  BY DEF Saved, States, Ckpts

LEMMA RestoredFields ==
  ASSUME NEW c \in Ckpts
  PROVE  LET s == Restored(c) IN
         /\ s \in States /\ s.turns = c.turns /\ s.calls = c.calls /\ s.results = c.results
         /\ s.counts = c.counts /\ s.rejections = c.rejections /\ s.repair = c.repair
         /\ s.text = c.text /\ s.completed = (c.stage = "completed")
         /\ s.stop = IF c.stage = "completed" THEN "model_completed" ELSE "none"
  BY DEF Restored, States, Ckpts, Stops

LEMMA FreshFields ==
  /\ Fresh \in States /\ Fresh.turns = 0 /\ Fresh.results = 0 /\ Fresh.calls = 0
  /\ Fresh.rejections = 0 /\ Fresh.text = "none" /\ Fresh.completed = FALSE
  /\ Fresh.stop = "none" /\ NoTurn \in TurnsSaid /\ NoTurn.text = "none"
  /\ NoTurn.calls = << >> /\ NoFlags \in Flags
  BY DEF Fresh, States, Texts, Stops, NoTurn, TurnsSaid, NoFlags, Flags

LEMMA InitInv == Init => IInv
  <1> SUFFICES ASSUME Init PROVE IInv
    OBVIOUS
  <1> DEFINE c == Saved(Fresh, "empty", 1)
  <1>1. /\ c \in Ckpts /\ c.stage = "empty" /\ c.next = 1 /\ c.turns = 0 /\ c.calls = 0
        /\ c.results = 0 /\ c.rejections = 0 /\ c.text = "none"
    BY FreshFields, SavedFields DEF Stages
  <1> HIDE DEF c
  <1>2. /\ pc = "down" /\ state = Fresh /\ round = 0 /\ turn = NoTurn /\ flags = NoFlags
        /\ late = FALSE /\ ckpt = c /\ ran = << >> /\ crashes = 0
    BY DEF Init, c
  <1>3. TypeOK
    <2>1. crashes \in 0 .. MaxCrashes /\ round \in Nat
      BY <1>2, FeatureLimits
    <2>2. pc \in Places /\ late \in BOOLEAN
      BY <1>2 DEF Places
    <2>3. ran \in Seq(Calls)
      BY <1>2
    <2> QED BY <1>1, <1>2, <2>1, <2>2, <2>3, FreshFields
            DEF TypeOK, Places, States, Ckpts, Flags, TurnsSaid
  <1>4. RoundInv
    BY <1>1, <1>2, FreshFields, FeatureLimits DEF RoundInv, Talking
  <1>5. CallInv
    BY <1>1, <1>2, FreshFields, FeatureLimits DEF CallInv, NoInvocationForgotten, Alive
  <1>6. RejectInv
    BY <1>1, <1>2, FreshFields, FeatureLimits DEF RejectInv, Working, Talking
  <1>7. TextInv /\ RepairInv
    BY <1>1, <1>2, FreshFields DEF TextInv, RepairInv, Working, Talking
  <1> QED BY <1>3, <1>4, <1>5, <1>6, <1>7 DEF IInv

-----------------------------------------------------------------------------
(* Lives *)

LEMMA BeginInv ==
  ASSUME IInv, Begin
  PROVE  IInv'
  <1> DEFINE s == Restored(ckpt)
             stage == IF s.completed THEN "completed" ELSE "before_model"
             c == Saved(s, stage, ckpt.next)
  <1>1. /\ pc = "down" /\ ckpt.stage # "tool_inflight" /\ state' = s /\ round' = ckpt.next
        /\ ckpt' = c /\ pc' = IF s.completed THEN "stopped" ELSE "ask"
        /\ turn' = NoTurn /\ flags' = NoFlags /\ late' = FALSE /\ UNCHANGED <<ran, crashes>>
    BY DEF Begin
  <1>2. ckpt \in Ckpts /\ ckpt.next \in Nat \ {0} /\ ckpt.turns \in Nat
    BY Types DEF IInv, Ckpts
  <1>3. /\ s \in States /\ s.turns = ckpt.turns /\ s.calls = ckpt.calls
        /\ s.results = ckpt.results /\ s.rejections = ckpt.rejections
        /\ s.text = ckpt.text /\ s.completed = (ckpt.stage = "completed")
        /\ s.stop = IF ckpt.stage = "completed" THEN "model_completed" ELSE "none"
    BY <1>2, RestoredFields
  <1> HIDE DEF s
  <1>4. /\ c \in Ckpts /\ c.stage = stage /\ c.next = ckpt.next /\ c.turns = s.turns
        /\ c.calls = s.calls /\ c.results = s.results /\ c.rejections = s.rejections
        /\ c.text = s.text
    BY <1>2, <1>3, SavedFields DEF Stages
  <1> HIDE DEF c
  <1>5. TypeOK'
    BY <1>1, <1>2, <1>3, <1>4, FreshFields
       DEF IInv, TypeOK, States, Ckpts, Flags, TurnsSaid
  <1>6. RoundInv'
    BY <1>1, <1>2, <1>3, <1>4, FeatureLimits DEF IInv, RoundInv, Talking
  <1>7. CallInv'
    BY <1>1, <1>2, <1>3, <1>4 DEF IInv, CallInv, NoInvocationForgotten, Alive
  <1>8. RejectInv'
    BY <1>1, <1>2, <1>3, <1>4 DEF IInv, RejectInv, Working, Talking
  <1>9. TextInv' /\ RepairInv'
    BY <1>1, <1>2, <1>3, <1>4, FreshFields DEF IInv, TextInv, RepairInv, Working, Talking
  <1> QED BY <1>5, <1>6, <1>7, <1>8, <1>9 DEF IInv

LEMMA CrashInv ==
  ASSUME IInv, Crash
  PROVE  IInv'
  <1>1. /\ pc' = "down" /\ state' = Fresh /\ round' = 0 /\ turn' = NoTurn
        /\ flags' = NoFlags /\ late' = FALSE /\ crashes' = crashes + 1
        /\ crashes < MaxCrashes /\ UNCHANGED <<ckpt, ran>>
    BY DEF Crash
  <1>2. crashes \in Nat /\ MaxRejections \in Nat /\ MaxCrashes \in Nat
    BY FeatureLimits, Types DEF IInv
  <1>3. ckpt.rejections \in Nat /\ ckpt.turns \in Nat
    BY Types DEF IInv, Ckpts
  <1>4. TypeOK'
    <2>1. crashes' \in 0 .. MaxCrashes
      BY <1>1, <1>2
    <2>2. pc' \in Places /\ round' \in Nat /\ late' \in BOOLEAN
      BY <1>1 DEF Places
    <2>3. ckpt' \in Ckpts /\ ran' \in Seq(Calls)
      BY <1>1, Types DEF IInv
    <2>4. state' \in States /\ flags' \in Flags /\ turn' \in TurnsSaid
      BY <1>1, FreshFields
    <2> QED BY <2>1, <2>2, <2>3, <2>4 DEF TypeOK, Places, States, Ckpts, Flags, TurnsSaid
  <1>5. RoundInv'
    BY <1>1, FreshFields, FeatureLimits DEF IInv, RoundInv, Talking
  <1>6. CallInv'
    BY <1>1 DEF IInv, CallInv, NoInvocationForgotten, Alive
  <1>7. RejectInv'
    BY <1>1, <1>2, <1>3, FreshFields DEF IInv, RejectInv, Working, Talking
  <1>8. TextInv' /\ RepairInv'
    BY <1>1, FreshFields DEF IInv, TextInv, RepairInv, Working, Talking
  <1> QED BY <1>4, <1>5, <1>6, <1>7, <1>8 DEF IInv

\* A run that refuses, fails or returns only says why.
LEMMA OverInv ==
  ASSUME IInv, pc' = "returned", UNCHANGED <<round, turn, flags, late, ckpt, ran, crashes>>,
         NEW why \in Stops, state' = [state EXCEPT !.stop = why] \/ UNCHANGED state
  PROVE  IInv'
  <1>1. state \in States
    BY Types DEF IInv
  <1>2. /\ state' \in States /\ state'.turns = state.turns /\ state'.rejections = state.rejections
        /\ state'.text = state.text /\ state'.completed = state.completed
    BY <1>1 DEF States
  <1>3. TypeOK'
    BY <1>2 DEF IInv, TypeOK, States
  <1>4. RoundInv' /\ CallInv' /\ RejectInv' /\ TextInv' /\ RepairInv'
    BY <1>2 DEF IInv, RoundInv, CallInv, RejectInv, TextInv, RepairInv, Working, Talking,
            NoInvocationForgotten, Alive
  <1> QED BY <1>3, <1>4 DEF IInv

LEMMA TimePassesInv ==
  ASSUME IInv, TimePasses
  PROVE  IInv'
  BY DEF IInv, TimePasses, TypeOK, RoundInv, CallInv, RejectInv, TextInv, RepairInv,
         NoInvocationForgotten, Alive

-----------------------------------------------------------------------------
(* A turn *)

\* A run that stops before its next turn.
LEMMA StopInv ==
  ASSUME IInv, pc = "ask", pc' = "stopped",
         NEW why \in Stops \ {"no_progress", "max_tool_calls_reached"},
         state' = [state EXCEPT !.stop = why],
         UNCHANGED <<round, turn, flags, late, ckpt, ran, crashes>>
  PROVE  IInv'
  <1>1. state \in States
    BY Types DEF IInv
  <1>2. /\ state' \in States /\ state'.turns = state.turns /\ state'.rejections = state.rejections
        /\ state'.text = state.text /\ state'.completed = state.completed
        /\ state'.results = state.results /\ state'.calls = state.calls /\ state'.stop = why
    BY <1>1 DEF States
  <1>3. TypeOK'
    BY <1>2 DEF IInv, TypeOK, States
  <1>4. RoundInv' /\ TextInv' /\ RepairInv'
    BY <1>2 DEF IInv, RoundInv, TextInv, RepairInv, Working, Talking
  <1>5. CallInv'
    BY <1>2 DEF IInv, CallInv, NoInvocationForgotten, Alive
  <1>6. RejectInv'
    BY <1>2 DEF IInv, RejectInv, Working, Talking
  <1> QED BY <1>3, <1>4, <1>5, <1>6 DEF IInv

LEMMA TurnsTyped == Turns \subseteq TurnsSaid
  <1>1. BoundedSeq(Calls, MaxPerTurn) \subseteq Seq(Calls)
    <2> SUFFICES ASSUME NEW cs \in BoundedSeq(Calls, MaxPerTurn) PROVE cs \in Seq(Calls)
      OBVIOUS
    <2>1. PICK m \in 0 .. MaxPerTurn : cs \in [1 .. m -> Calls]
      BY DEF BoundedSeq, SeqOf
    <2>2. m \in Nat
      BY FeatureLimits
    <2> QED BY <2>1, <2>2, SeqDef
  <1>2. << >> \in Seq(Calls)
    OBVIOUS
  <1> SUFFICES ASSUME NEW t \in Turns PROVE t \in TurnsSaid
    OBVIOUS
  <1>3. CASE \E text \in {"none", "draft"} : t = [text |-> text, calls |-> << >>]
    BY <1>2, <1>3 DEF TurnsSaid, Texts
  <1>4. CASE \E cs \in BoundedSeq(Calls, MaxPerTurn) : t = [text |-> "none", calls |-> cs]
    BY <1>1, <1>4 DEF TurnsSaid, Texts
  <1> QED BY <1>3, <1>4 DEF Turns

LEMMA AskInv ==
  ASSUME IInv, Ask
  PROVE  IInv'
  <1>1. PICK t \in Turns : turn' = IF state.repair THEN [t EXCEPT !.calls = << >>] ELSE t
    BY DEF Ask
  <1>2. t \in TurnsSaid
    BY <1>1, TurnsTyped
  <1>3. << >> \in Seq(Calls)
    OBVIOUS
  <1>4. turn' \in TurnsSaid /\ (state.repair => turn'.calls = << >>)
    BY <1>1, <1>2, <1>3 DEF TurnsSaid
  <1>5. /\ pc = "ask" /\ pc' = "heard" /\ round <= MaxRounds /\ flags' = NoFlags
        /\ state' = [state EXCEPT !.turns = @ + 1]
        /\ UNCHANGED <<round, late, ckpt, ran, crashes>>
    BY DEF Ask
  <1>6. state \in States /\ round \in Nat
    BY Types DEF IInv
  <1>7. /\ state' \in States /\ state'.turns = state.turns + 1
        /\ state'.rejections = state.rejections /\ state'.repair = state.repair
        /\ state'.text = state.text /\ state'.completed = state.completed
        /\ state'.results = state.results /\ state'.calls = state.calls
    BY <1>5, <1>6 DEF States
  <1>8. TypeOK'
    BY <1>4, <1>5, <1>7, FreshFields DEF IInv, TypeOK, States, TurnsSaid, Flags
  <1>9. RoundInv'
    <2>1. state.turns = round - 1 /\ state.turns \in Nat /\ MaxRounds \in Nat
      BY <1>5, <1>6, FeatureLimits DEF IInv, RoundInv, States
    <2> QED BY <1>5, <1>6, <1>7, <2>1 DEF IInv, RoundInv, Talking
  <1>10. CallInv'
    BY <1>5, <1>7 DEF IInv, CallInv, NoInvocationForgotten, Alive
  <1>11. RejectInv' /\ TextInv'
    BY <1>5, <1>7 DEF IInv, RejectInv, TextInv, Working, Talking
  <1>12. RepairInv'
    BY <1>4, <1>5, <1>7 DEF RepairInv
  <1> QED BY <1>8, <1>9, <1>10, <1>11, <1>12 DEF IInv

LEMMA HeardInv ==
  ASSUME IInv, Heard
  PROVE  IInv'
  <1>1. /\ pc = "heard" /\ UNCHANGED <<round, turn, flags, late, ran, crashes>>
    BY DEF Heard
  <1>2. CASE late
    <2> DEFINE c == Saved(state, "stopped", round + 1)
    <2>1. /\ pc' = "stopped" /\ state' = [state EXCEPT !.stop = "max_elapsed_time_reached"]
          /\ ckpt' = c
      BY <1>2 DEF Heard, StopWith
    <2>2. state \in States /\ round \in Nat /\ round + 1 \in Nat \ {0} /\ "stopped" \in Stages
      BY Types DEF IInv, Stages
    <2>3. /\ c \in Ckpts /\ c.stage = "stopped" /\ c.next = round + 1 /\ c.turns = state.turns
          /\ c.calls = state.calls /\ c.results = state.results
          /\ c.rejections = state.rejections /\ c.text = state.text
      BY <2>2, SavedFields
    <2> HIDE DEF c
    <2>4. /\ state' \in States /\ state'.turns = state.turns
          /\ state'.rejections = state.rejections /\ state'.text = state.text
          /\ state'.completed = state.completed /\ state'.results = state.results
          /\ state'.calls = state.calls /\ state'.stop = "max_elapsed_time_reached"
      BY <2>1, <2>2 DEF States, Stops
    <2>5. TypeOK'
      BY <1>1, <2>1, <2>3, <2>4 DEF IInv, TypeOK, States, Ckpts
    <2>6. RoundInv'
      BY <1>1, <2>1, <2>2, <2>3, <2>4 DEF IInv, RoundInv, Talking, States
    <2>7. CallInv'
      <3>1. state.results \in Nat /\ Len(ran) = state.results /\ state.results <= state.calls
        BY <1>1, <2>2, Types DEF IInv, CallInv, NoInvocationForgotten, Alive, States
      <3> QED BY <1>1, <2>1, <2>3, <2>4, <3>1 DEF IInv, CallInv, NoInvocationForgotten, Alive
    <2>8. RejectInv' /\ TextInv' /\ RepairInv'
      BY <1>1, <2>1, <2>3, <2>4 DEF IInv, RejectInv, TextInv, RepairInv, Working, Talking
    <2> QED BY <2>5, <2>6, <2>7, <2>8 DEF IInv
  <1>3. CASE ~late
    <2>1. pc' \in {"calls", "judge"} /\ UNCHANGED <<state, ckpt>>
      BY <1>3 DEF Heard
    <2>2. TypeOK' /\ RoundInv'
      BY <1>1, <2>1 DEF IInv, TypeOK, RoundInv, Talking
    <2>3. CallInv' /\ RejectInv' /\ TextInv' /\ RepairInv'
      BY <1>1, <2>1 DEF IInv, CallInv, RejectInv, TextInv, RepairInv, NoInvocationForgotten,
                        Alive, Working, Talking
    <2> QED BY <2>2, <2>3 DEF IInv
  <1> QED BY <1>2, <1>3

-----------------------------------------------------------------------------
(* The calls of a turn *)

\* Counting a call changes the two counters and nothing else.
LEMMA CountedFields ==
  ASSUME TypeOK, turn.calls # << >>
  PROVE  /\ Call \in Calls /\ Tail(turn.calls) \in Seq(Calls)
         /\ Counted \in States /\ Counted.calls = state.calls + 1
         /\ Counted.turns = state.turns /\ Counted.results = state.results
         /\ Counted.rejections = state.rejections /\ Counted.repair = state.repair
         /\ Counted.text = state.text /\ Counted.completed = state.completed
         /\ Counted.stop = state.stop
  <1>1. turn.calls \in Seq(Calls) /\ state \in States
    BY Types DEF TurnsSaid
  <1>2. Call \in Calls /\ Tail(turn.calls) \in Seq(Calls)
    BY <1>1, HeadTailProperties DEF Call
  <1>3. Repeats \in [Calls -> Nat]
    BY <1>1, <1>2 DEF States, Repeats
  <1>5. /\ Counted.calls = state.calls + 1
        /\ Counted.turns = state.turns /\ Counted.results = state.results
        /\ Counted.rejections = state.rejections /\ Counted.repair = state.repair
        /\ Counted.text = state.text /\ Counted.completed = state.completed
        /\ Counted.stop = state.stop
    BY <1>1, <1>3 DEF States, Counted
  <1>6. Counted \in States
    <2> DEFINE s == [state EXCEPT !.calls = @ + 1]
    <2>1. s \in States
      BY <1>1 DEF States
    <2>2. Counted = [s EXCEPT !.counts = Repeats]
      BY DEF Counted
    <2> HIDE DEF s
    <2> QED BY <1>3, <2>1, <2>2 DEF States
  <1> QED BY <1>2, <1>5, <1>6

LEMMA SkipInv ==
  ASSUME IInv, Skip
  PROVE  IInv'
  <1>1. /\ pc = "calls" /\ pc' = pc /\ turn.calls # << >> /\ state' = Counted
        /\ turn' = [turn EXCEPT !.calls = Tail(@)]
        /\ UNCHANGED <<round, late, ckpt, ran, crashes>>
    BY DEF Skip
  <1>2. /\ Tail(turn.calls) \in Seq(Calls)
        /\ Counted \in States /\ Counted.calls = state.calls + 1
        /\ Counted.turns = state.turns /\ Counted.results = state.results
        /\ Counted.rejections = state.rejections /\ Counted.repair = state.repair
        /\ Counted.text = state.text /\ Counted.completed = state.completed
    BY <1>1, CountedFields DEF IInv
  <1>3. turn' \in TurnsSaid /\ flags' \in Flags
    <2>1. turn \in TurnsSaid /\ flags \in Flags
      BY Types DEF IInv
    <2>2. turn' \in TurnsSaid
      BY <1>1, <1>2, <2>1 DEF TurnsSaid
    <2>3. \/ flags' = [flags EXCEPT !.budget = TRUE]
          \/ flags' = [flags EXCEPT !.elapsed = TRUE]
          \/ flags' = [flags EXCEPT !.duplicate = TRUE]
      BY DEF Skip
    <2>4. flags' \in Flags
      BY <2>1, <2>3 DEF Flags
    <2> QED BY <2>2, <2>4
  <1>4. TypeOK'
    BY <1>1, <1>2, <1>3 DEF IInv, TypeOK, States, TurnsSaid, Flags
  <1>5. RoundInv'
    BY <1>1, <1>2 DEF IInv, RoundInv, Talking
  <1>6. CallInv'
    <2>1. state.results \in Nat /\ state.calls \in Nat /\ state.results <= state.calls
      BY <1>1, Types DEF IInv, States, CallInv, Alive
    <2> QED BY <1>1, <1>2, <2>1 DEF IInv, CallInv, NoInvocationForgotten, Alive
  <1>7. RejectInv' /\ TextInv'
    BY <1>1, <1>2 DEF IInv, RejectInv, TextInv, Working, Talking
  <1>8. RepairInv'
    BY <1>1, <1>2 DEF IInv, RepairInv
  <1> QED BY <1>4, <1>5, <1>6, <1>7, <1>8 DEF IInv

LEMMA PrepareInv ==
  ASSUME IInv, Prepare
  PROVE  IInv'
  <1> DEFINE c == Saved(Counted, "tool_inflight", round)
  <1>1. /\ pc = "calls" /\ pc' = "inflight" /\ turn.calls # << >> /\ state' = Counted
        /\ ckpt' = c /\ flags' = [flags EXCEPT !.progress = TRUE]
        /\ UNCHANGED <<round, turn, late, ran, crashes>>
    BY DEF Prepare
  <1>2. /\ Counted \in States /\ Counted.calls = state.calls + 1
        /\ Counted.turns = state.turns /\ Counted.results = state.results
        /\ Counted.rejections = state.rejections /\ Counted.repair = state.repair
        /\ Counted.text = state.text /\ Counted.completed = state.completed
    BY <1>1, CountedFields DEF IInv
  <1>3. ~(Counted.calls > MaxToolCalls)
    BY DEF Prepare, Allowed, OverBudget
  <1>4. /\ state.results \in Nat /\ state.calls \in Nat /\ state.results <= state.calls
        /\ state.turns = round /\ state.turns \in Nat /\ MaxToolCalls \in Nat
    BY <1>1, Types, FeatureLimits DEF IInv, States, CallInv, Alive, RoundInv, Talking
  <1>5. round \in Nat \ {0} /\ "tool_inflight" \in Stages
    BY <1>1, Types DEF IInv, RoundInv, Talking, Stages
  <1>6. /\ c \in Ckpts /\ c.stage = "tool_inflight" /\ c.next = round
        /\ c.turns = state.turns /\ c.results = state.results
        /\ c.rejections = state.rejections /\ c.text = state.text /\ c.repair = state.repair
    BY <1>2, <1>5, SavedFields
  <1> HIDE DEF c
  <1>7. TypeOK'
    <2>1. flags' \in Flags
      BY <1>1, Types DEF IInv, Flags
    <2> QED BY <1>1, <1>2, <1>6, <2>1 DEF IInv, TypeOK, States, Ckpts, Flags
  <1>8. RoundInv'
    BY <1>1, <1>2, <1>4, <1>6 DEF IInv, RoundInv, Talking
  <1>9. CallInv'
    BY <1>1, <1>2, <1>3, <1>4, <1>6 DEF IInv, CallInv, NoInvocationForgotten, Alive
  <1>10. RejectInv' /\ TextInv'
    BY <1>1, <1>2, <1>6 DEF IInv, RejectInv, TextInv, Working, Talking
  <1>11. RepairInv'
    BY <1>1, <1>2, <1>6 DEF IInv, RepairInv
  <1> QED BY <1>7, <1>8, <1>9, <1>10, <1>11 DEF IInv

LEMMA InvokeInv ==
  ASSUME IInv, Invoke
  PROVE  IInv'
  <1>1. /\ pc = "inflight" /\ pc' = "result" /\ ran' = Append(ran, Call)
        /\ UNCHANGED <<state, round, turn, flags, late, ckpt, crashes>>
    BY DEF Invoke
  <1>2. /\ turn.calls # << >> /\ ckpt.stage = "tool_inflight"
        /\ state.results < state.calls /\ state.calls <= MaxToolCalls
        /\ Len(ran) = state.results + 0
    BY <1>1 DEF IInv, CallInv, NoInvocationForgotten, Alive
  <1>3. Call \in Calls /\ ran \in Seq(Calls) /\ Len(ran) \in Nat
    BY <1>2, CountedFields, Types DEF IInv
  <1>4. ran' \in Seq(Calls) /\ Len(ran') = Len(ran) + 1
    BY <1>1, <1>3, AppendProperties
  <1>5. /\ state.results \in Nat /\ state.calls \in Nat /\ MaxToolCalls \in Nat
    BY Types, FeatureLimits DEF IInv, States
  <1>6. TypeOK'
    BY <1>1, <1>4 DEF IInv, TypeOK
  <1>7. CallInv'
    BY <1>1, <1>2, <1>3, <1>4, <1>5 DEF IInv, CallInv, NoInvocationForgotten, Alive
  <1>8. RoundInv' /\ RejectInv' /\ TextInv' /\ RepairInv'
    BY <1>1 DEF IInv, RoundInv, RejectInv, TextInv, RepairInv, Working, Talking
  <1> QED BY <1>6, <1>7, <1>8 DEF IInv

\* What a result puts into the state.
LEMMA ResultFields ==
  ASSUME TypeOK, Result, turn.calls # << >>
  PROVE  /\ state' \in States /\ state'.results = state.results + 1
         /\ state'.turns = state.turns /\ state'.calls = state.calls
         /\ state'.rejections = state.rejections /\ state'.repair = state.repair
         /\ state'.text = state.text /\ state'.completed = state.completed
         /\ turn' \in TurnsSaid /\ flags' \in Flags
  <1> DEFINE cs == [c \in Calls |-> IF c = Call THEN 1 ELSE 0]
             s == [state EXCEPT !.results = @ + 1]
  <1>1. /\ state \in States /\ turn \in TurnsSaid /\ flags \in Flags /\ late \in BOOLEAN
        /\ Tail(turn.calls) \in Seq(Calls)
    BY Types, CountedFields
  <1>2. cs \in [Calls -> Nat]
    OBVIOUS
  <1>3. /\ s \in States /\ s.results = state.results + 1
        /\ s.turns = state.turns /\ s.calls = state.calls
        /\ s.rejections = state.rejections /\ s.repair = state.repair
        /\ s.text = state.text /\ s.completed = state.completed
    BY <1>1 DEF States
  <1>4. state' = [s EXCEPT !.counts = cs]
    BY DEF Result
  <1> HIDE DEF cs, s
  <1>5. /\ state' \in States /\ state'.results = s.results
        /\ state'.turns = s.turns /\ state'.calls = s.calls
        /\ state'.rejections = s.rejections /\ state'.repair = s.repair
        /\ state'.text = s.text /\ state'.completed = s.completed
    BY <1>2, <1>3, <1>4 DEF States
  <1>6. turn' \in TurnsSaid
    <2>1. turn' = [turn EXCEPT !.calls = Tail(@)]
      BY DEF Result
    <2> QED BY <1>1, <2>1 DEF TurnsSaid
  <1>7. flags' \in Flags
    <2>1. flags' = [flags EXCEPT !.elapsed = @ \/ late]
      BY DEF Result
    <2>2. (flags.elapsed \/ late) \in BOOLEAN
      OBVIOUS
    <2> QED BY <1>1, <2>1, <2>2 DEF Flags
  <1> QED BY <1>3, <1>5, <1>6, <1>7

LEMMA ResultInv ==
  ASSUME IInv, Result
  PROVE  IInv'
  <1>1. /\ pc = "result" /\ pc' = "calls" /\ turn' = [turn EXCEPT !.calls = Tail(@)]
        /\ UNCHANGED <<round, late, ckpt, ran, crashes>>
    BY DEF Result
  <1>2. /\ turn.calls # << >> /\ state.results < state.calls /\ Len(ran) = state.results + 1
        /\ ckpt.stage = "tool_inflight" /\ state.calls <= MaxToolCalls
    BY <1>1 DEF IInv, CallInv, NoInvocationForgotten, Alive
  <1>3. /\ state' \in States /\ state'.results = state.results + 1
        /\ state'.turns = state.turns /\ state'.calls = state.calls
        /\ state'.rejections = state.rejections /\ state'.repair = state.repair
        /\ state'.text = state.text /\ state'.completed = state.completed
        /\ turn' \in TurnsSaid /\ flags' \in Flags
    BY <1>2, ResultFields DEF IInv
  <1>4. state.results \in Nat /\ state.calls \in Nat
    BY Types DEF IInv, States
  <1>5. TypeOK'
    BY <1>1, <1>3 DEF IInv, TypeOK, States, TurnsSaid, Flags
  <1>6. RoundInv'
    BY <1>1, <1>3 DEF IInv, RoundInv, Talking
  <1>7. CallInv'
    BY <1>1, <1>2, <1>3, <1>4 DEF IInv, CallInv, NoInvocationForgotten, Alive
  <1>8. RejectInv' /\ TextInv'
    BY <1>1, <1>3 DEF IInv, RejectInv, TextInv, Working, Talking
  <1>9. RepairInv'
    BY <1>1, <1>2, <1>3 DEF IInv, RepairInv
  <1> QED BY <1>5, <1>6, <1>7, <1>8, <1>9 DEF IInv

LEMMA EndCallsInv ==
  ASSUME IInv, EndCalls
  PROVE  IInv'
  <1> DEFINE c == Saved(state, "before_model", round + 1)
  <1>1. /\ pc = "calls" /\ turn.calls = << >> /\ ckpt' = c /\ round' = round + 1
        /\ UNCHANGED <<turn, flags, late, ran, crashes>>
    BY DEF EndCalls
  <1>2. \/ pc' = "ask" /\ UNCHANGED state
        \/ \E why \in Stops : pc' = "stopped" /\ state' = [state EXCEPT !.stop = why]
    BY DEF EndCalls, StopWith, Stops
  <1>3. state \in States /\ round \in Nat /\ round + 1 \in Nat \ {0} /\ "before_model" \in Stages
    BY Types DEF IInv, Stages
  <1>4. /\ state.results \in Nat /\ Len(ran) = state.results /\ state.results <= state.calls
        /\ state.turns \in Nat /\ state.turns = round /\ Len(ran) <= MaxToolCalls
    BY <1>1, <1>3, Types
       DEF IInv, CallInv, RoundInv, NoInvocationForgotten, Alive, States, Talking
  <1>5. /\ c \in Ckpts /\ c.stage = "before_model" /\ c.next = round + 1
        /\ c.turns = state.turns /\ c.calls = state.calls /\ c.results = state.results
        /\ c.rejections = state.rejections /\ c.text = state.text
    BY <1>3, SavedFields
  <1> HIDE DEF c
  <1>6. /\ state' \in States /\ state'.turns = state.turns
        /\ state'.rejections = state.rejections /\ state'.text = state.text
        /\ state'.completed = state.completed /\ state'.results = state.results
        /\ state'.calls = state.calls /\ pc' \in {"ask", "stopped"}
    BY <1>2, <1>3 DEF States
  <1>7. TypeOK'
    BY <1>1, <1>3, <1>5, <1>6 DEF IInv, TypeOK, States, Ckpts
  <1>8. RoundInv'
    BY <1>1, <1>3, <1>4, <1>5, <1>6 DEF IInv, RoundInv, Talking
  <1>9. CallInv'
    BY <1>1, <1>4, <1>5, <1>6 DEF CallInv, NoInvocationForgotten, Alive
  <1>10. RejectInv' /\ TextInv' /\ RepairInv'
    BY <1>1, <1>5, <1>6 DEF IInv, RejectInv, TextInv, RepairInv, Working, Talking
  <1> QED BY <1>7, <1>8, <1>9, <1>10 DEF IInv

-----------------------------------------------------------------------------
(* The answer *)

\* Accepting and rejecting an answer.
Accepted == [state EXCEPT !.text = turn.text, !.completed = TRUE]
Rejected(repair) == [state EXCEPT !.rejections = @ + 1, !.text = "none", !.repair = repair]

LEMMA AcceptedFields ==
  ASSUME TypeOK, NEW why \in Stops
  PROVE  LET s == [Accepted EXCEPT !.stop = why] IN
         /\ Accepted \in States /\ Accepted.turns = state.turns
         /\ Accepted.calls = state.calls /\ Accepted.results = state.results
         /\ Accepted.rejections = state.rejections /\ Accepted.text = turn.text
         /\ Accepted.completed = TRUE
         /\ s \in States /\ s.turns = state.turns /\ s.calls = state.calls
         /\ s.results = state.results /\ s.rejections = state.rejections
         /\ s.text = turn.text /\ s.completed = TRUE /\ s.stop = why
  <1> DEFINE u == [state EXCEPT !.text = turn.text]
  <1>1. state \in States /\ turn.text \in Texts
    BY Types DEF TurnsSaid
  <1>2. /\ u \in States /\ u.turns = state.turns /\ u.calls = state.calls
        /\ u.results = state.results /\ u.rejections = state.rejections
        /\ u.text = turn.text
    BY <1>1 DEF States
  <1>3. Accepted = [u EXCEPT !.completed = TRUE]
    BY DEF Accepted
  <1> HIDE DEF u
  <1>4. /\ Accepted \in States /\ Accepted.turns = u.turns /\ Accepted.calls = u.calls
        /\ Accepted.results = u.results /\ Accepted.rejections = u.rejections
        /\ Accepted.text = u.text /\ Accepted.completed = TRUE
    BY <1>2, <1>3 DEF States
  <1> DEFINE s == [Accepted EXCEPT !.stop = why]
  <1>5. /\ s \in States /\ s.turns = Accepted.turns /\ s.calls = Accepted.calls
        /\ s.results = Accepted.results /\ s.rejections = Accepted.rejections
        /\ s.text = Accepted.text /\ s.completed = TRUE /\ s.stop = why
    BY <1>4 DEF States
  <1> HIDE DEF s
  <1>6. /\ s \in States /\ s.turns = state.turns /\ s.calls = state.calls
        /\ s.results = state.results /\ s.rejections = state.rejections
        /\ s.text = turn.text /\ s.completed = TRUE /\ s.stop = why
    BY <1>2, <1>4, <1>5
  <1> QED BY <1>2, <1>4, <1>6 DEF s

LEMMA RejectedFields ==
  ASSUME TypeOK, NEW repair \in BOOLEAN, NEW why \in Stops
  PROVE  LET r == Rejected(repair)
             s == [Rejected(repair) EXCEPT !.stop = why] IN
         /\ r \in States /\ r.turns = state.turns /\ r.calls = state.calls
         /\ r.results = state.results /\ r.rejections = state.rejections + 1
         /\ r.text = "none" /\ r.completed = state.completed
         /\ s \in States /\ s.turns = state.turns /\ s.calls = state.calls
         /\ s.results = state.results /\ s.rejections = state.rejections + 1
         /\ s.text = "none" /\ s.completed = state.completed /\ s.stop = why
  <1> DEFINE u == [state EXCEPT !.rejections = @ + 1]
             v == [u EXCEPT !.text = "none"]
             r == Rejected(repair)
  <1>1. state \in States /\ "none" \in Texts
    BY Types DEF Texts
  <1>2. /\ u \in States /\ u.turns = state.turns /\ u.calls = state.calls
        /\ u.results = state.results /\ u.rejections = state.rejections + 1
        /\ u.completed = state.completed
    BY <1>1 DEF States
  <1>3. r = [v EXCEPT !.repair = repair]
    BY DEF Rejected
  <1> HIDE DEF u
  <1>4. /\ v \in States /\ v.turns = u.turns /\ v.calls = u.calls /\ v.results = u.results
        /\ v.rejections = u.rejections /\ v.completed = u.completed /\ v.text = "none"
    BY <1>1, <1>2 DEF States
  <1> HIDE DEF v
  <1>5. /\ r \in States /\ r.turns = v.turns /\ r.calls = v.calls /\ r.results = v.results
        /\ r.rejections = v.rejections /\ r.completed = v.completed /\ r.text = "none"
    BY <1>3, <1>4 DEF States
  <1> HIDE DEF r
  <1> DEFINE s == [r EXCEPT !.stop = why]
  <1>6. /\ s \in States /\ s.turns = r.turns /\ s.calls = r.calls /\ s.results = r.results
        /\ s.rejections = r.rejections /\ s.completed = r.completed /\ s.text = "none"
        /\ s.stop = why
    BY <1>5 DEF States
  <1> HIDE DEF s
  <1>7. /\ s \in States /\ s.turns = state.turns /\ s.calls = state.calls
        /\ s.results = state.results /\ s.rejections = state.rejections + 1
        /\ s.text = "none" /\ s.completed = state.completed /\ s.stop = why
    BY <1>2, <1>4, <1>5, <1>6
  <1>8. /\ r \in States /\ r.turns = state.turns /\ r.calls = state.calls
        /\ r.results = state.results /\ r.rejections = state.rejections + 1
        /\ r.text = "none" /\ r.completed = state.completed
    BY <1>2, <1>4, <1>5
  <1> QED BY <1>7, <1>8 DEF s, r

\* Only a text is accepted.
LEMMA VerdictsOfText ==
  ASSUME NEW text, "complete" \in Verdicts(text)
  PROVE  text # "none"
  BY DEF Verdicts

LEMMA FinalizeInv ==
  ASSUME IInv, Finalize
  PROVE  IInv'
  <1>1. /\ pc = "stopped" /\ pc' = "final" /\ Finalizes
        /\ state' = [state EXCEPT !.turns = @ + 1]
        /\ UNCHANGED <<round, flags, late, ckpt, ran, crashes>>
    BY DEF Finalize
  <1>2. PICK text \in {"none", "draft"} : turn' = [NoTurn EXCEPT !.text = text]
    BY DEF Finalize
  <1>3. turn' \in TurnsSaid
    BY <1>2, FreshFields DEF TurnsSaid, Texts
  <1>4. /\ state.text = "none" /\ state.turns < MaxRounds
        /\ state.stop \in {"no_progress", "max_tool_calls_reached"}
    BY <1>1 DEF Finalizes
  <1>5. state \in States /\ MaxRounds \in Nat
    BY Types, FeatureLimits DEF IInv
  <1>6. /\ state' \in States /\ state'.turns = state.turns + 1 /\ state.turns \in Nat
        /\ state'.rejections = state.rejections /\ state'.text = state.text
        /\ state'.completed = state.completed /\ state'.results = state.results
        /\ state'.calls = state.calls
    BY <1>1, <1>5 DEF States
  <1>7. TypeOK'
    BY <1>1, <1>3, <1>6 DEF IInv, TypeOK, States, TurnsSaid
  <1>8. RoundInv'
    BY <1>1, <1>4, <1>5, <1>6 DEF IInv, RoundInv, Talking
  <1>9. CallInv'
    BY <1>1, <1>6 DEF IInv, CallInv, NoInvocationForgotten, Alive
  <1>10. RejectInv' /\ TextInv' /\ RepairInv'
    BY <1>1, <1>4, <1>6 DEF IInv, RejectInv, TextInv, RepairInv, Working, Talking
  <1> QED BY <1>7, <1>8, <1>9, <1>10 DEF IInv

LEMMA JudgeInv ==
  ASSUME IInv, Judge
  PROVE  IInv'
  <1>1. pc = "judge" /\ UNCHANGED <<turn, flags, late, ran, crashes>>
    BY DEF Judge
  <1>2. /\ state \in States /\ round \in Nat /\ round + 1 \in Nat \ {0}
        /\ {"before_model", "completed"} \subseteq Stages
    BY Types DEF IInv, Stages
  <1>3. /\ state.results \in Nat /\ Len(ran) = state.results /\ state.results <= state.calls
        /\ state.turns \in Nat /\ state.turns = round /\ Len(ran) <= MaxToolCalls
        /\ state.rejections \in Nat /\ state.rejections < MaxRejections + crashes
        /\ MaxRejections \in Nat /\ crashes \in Nat /\ state.completed = FALSE
    <2>1. /\ state.results \in Nat /\ Len(ran) = state.results /\ state.results <= state.calls
          /\ state.turns \in Nat /\ state.turns = round /\ Len(ran) <= MaxToolCalls
      BY <1>1, <1>2 DEF IInv, CallInv, RoundInv, NoInvocationForgotten, Alive, States, Talking
    <2>2. /\ state.rejections \in Nat /\ state.rejections < MaxRejections + crashes
          /\ MaxRejections \in Nat /\ crashes \in Nat
      BY <1>1, <1>2, Types, FeatureLimits DEF IInv, RejectInv, Working, Talking, States
    <2>3. state.completed = FALSE
      BY <1>1, <1>2 DEF IInv, TextInv, Working, Talking, States
    <2> QED BY <2>1, <2>2, <2>3
  <1>4. PICK verdict \in Verdicts(turn.text) :
          IF verdict = "complete"
          THEN /\ state' = [state EXCEPT !.text = turn.text, !.completed = TRUE,
                                         !.stop = "model_completed"]
               /\ ckpt' = Saved(state', "completed", round + 1)
               /\ pc' = "stopped"
               /\ UNCHANGED round
          ELSE LET s == [state EXCEPT !.rejections = @ + 1, !.text = "none",
                                      !.repair = @ \/ verdict = "errors"]
               IN IF s.rejections >= MaxRejections
                  THEN /\ state' = [s EXCEPT !.stop = "verification_rejected"]
                       /\ pc' = "stopped"
                       /\ UNCHANGED <<round, ckpt>>
                  ELSE /\ state' = s
                       /\ round' = round + 1
                       /\ ckpt' = Saved(s, "before_model", round + 1)
                       /\ pc' = "ask"
    BY DEF Judge
  <1>5. CASE verdict = "complete"
    <2> DEFINE s == [Accepted EXCEPT !.stop = "model_completed"]
               c == Saved(s, "completed", round + 1)
    <2>1. state' = s /\ ckpt' = c /\ pc' = "stopped" /\ round' = round
      BY <1>4, <1>5 DEF Accepted
    <2>2. turn.text # "none"
      BY <1>4, <1>5, VerdictsOfText
    <2>3. /\ s \in States /\ s.turns = state.turns /\ s.calls = state.calls
          /\ s.results = state.results /\ s.rejections = state.rejections
          /\ s.text = turn.text /\ s.completed = TRUE /\ s.stop = "model_completed"
      BY AcceptedFields DEF IInv, Stops
    <2> HIDE DEF s
    <2>4. /\ c \in Ckpts /\ c.stage = "completed" /\ c.next = round + 1
          /\ c.turns = s.turns /\ c.calls = s.calls /\ c.results = s.results
          /\ c.rejections = s.rejections /\ c.text = s.text
      BY <1>2, <2>3, SavedFields
    <2> HIDE DEF c
    <2>5. TypeOK'
      BY <1>1, <1>2, <2>1, <2>3, <2>4 DEF IInv, TypeOK, States, Ckpts
    <2>6. RoundInv'
      BY <1>1, <1>2, <1>3, <2>1, <2>3, <2>4 DEF IInv, RoundInv, Talking
    <2>7. CallInv'
      BY <1>1, <1>3, <2>1, <2>3, <2>4 DEF CallInv, NoInvocationForgotten, Alive
    <2>8. RejectInv'
      BY <1>1, <1>3, <2>1, <2>3, <2>4 DEF IInv, RejectInv, Working, Talking
    <2>9. TextInv' /\ RepairInv'
      BY <1>1, <2>1, <2>2, <2>3, <2>4 DEF TextInv, RepairInv, Working, Talking
    <2> QED BY <2>5, <2>6, <2>7, <2>8, <2>9 DEF IInv
  <1>6. CASE verdict # "complete"
    <2> DEFINE repair == state.repair \/ verdict = "errors"
               s == Rejected(repair)
               t == [s EXCEPT !.stop = "verification_rejected"]
               c == Saved(s, "before_model", round + 1)
    <2>1. \/ /\ s.rejections >= MaxRejections /\ state' = t /\ pc' = "stopped"
             /\ UNCHANGED <<round, ckpt>>
          \/ /\ ~(s.rejections >= MaxRejections) /\ state' = s /\ round' = round + 1
             /\ ckpt' = c /\ pc' = "ask"
      BY <1>4, <1>6 DEF Rejected
    <2>2. repair \in BOOLEAN
      OBVIOUS
    <2> HIDE DEF repair
    <2>3. /\ s \in States /\ s.turns = state.turns /\ s.calls = state.calls
          /\ s.results = state.results /\ s.rejections = state.rejections + 1
          /\ s.text = "none" /\ s.completed = state.completed
          /\ t \in States /\ t.turns = state.turns /\ t.calls = state.calls
          /\ t.results = state.results /\ t.rejections = state.rejections + 1
          /\ t.text = "none" /\ t.completed = state.completed
          /\ t.stop = "verification_rejected"
      BY <2>2, RejectedFields DEF IInv, Stops
    <2> HIDE DEF s, t
    <2>4. /\ c \in Ckpts /\ c.stage = "before_model" /\ c.next = round + 1
          /\ c.turns = s.turns /\ c.calls = s.calls /\ c.results = s.results
          /\ c.rejections = s.rejections /\ c.text = s.text
      BY <1>2, <2>3, SavedFields
    <2> HIDE DEF c
    <2>5. CASE s.rejections >= MaxRejections /\ state' = t /\ pc' = "stopped"
               /\ UNCHANGED <<round, ckpt>>
      <3>1. TypeOK'
        BY <1>1, <2>3, <2>5 DEF IInv, TypeOK, States
      <3>2. RoundInv'
        BY <1>1, <1>3, <2>3, <2>5 DEF IInv, RoundInv, Talking
      <3>3. CallInv'
        BY <1>1, <1>3, <2>3, <2>5 DEF IInv, CallInv, NoInvocationForgotten, Alive
      <3>4. RejectInv'
        BY <1>1, <1>3, <2>3, <2>5 DEF IInv, RejectInv, Working, Talking
      <3>5. TextInv' /\ RepairInv'
        BY <1>1, <1>3, <2>3, <2>5 DEF IInv, TextInv, RepairInv, Working, Talking
      <3> QED BY <3>1, <3>2, <3>3, <3>4, <3>5 DEF IInv
    <2>6. CASE ~(s.rejections >= MaxRejections) /\ state' = s /\ round' = round + 1
               /\ ckpt' = c /\ pc' = "ask"
      <3>1. TypeOK'
        BY <1>1, <1>2, <2>3, <2>4, <2>6 DEF IInv, TypeOK, States, Ckpts
      <3>2. RoundInv'
        BY <1>1, <1>2, <1>3, <2>3, <2>4, <2>6 DEF IInv, RoundInv, Talking
      <3>3. CallInv'
        BY <1>1, <1>3, <2>3, <2>4, <2>6 DEF CallInv, NoInvocationForgotten, Alive
      <3>4. RejectInv'
        BY <1>1, <1>3, <2>3, <2>4, <2>6 DEF IInv, RejectInv, Working, Talking
      <3>5. TextInv' /\ RepairInv'
        BY <1>1, <1>3, <2>3, <2>4, <2>6 DEF TextInv, RepairInv, Working, Talking
      <3> QED BY <3>1, <3>2, <3>3, <3>4, <3>5 DEF IInv
    <2> QED BY <2>1, <2>5, <2>6
  <1> QED BY <1>5, <1>6

\* What a turn after the stop may leave: nothing new, an accepted text, or one
\* more rejection; the checkpoint holds it.
LEMMA SaidInv ==
  ASSUME IInv, pc = "final", pc' = "said", UNCHANGED <<round, turn, flags, late, ran, crashes>>,
         NEW s \in States, state' = s, NEW stage \in {"stopped", "completed"},
         ckpt' = Saved(s, stage, state.turns + 1),
         s.turns = state.turns, s.calls = state.calls, s.results = state.results,
         s.rejections <= state.rejections + 1,
         s.completed <=> s.text # "none", stage = "completed" <=> s.completed
  PROVE  IInv'
  <1>1. /\ state \in States /\ state.turns \in Nat /\ state.turns + 1 \in Nat \ {0}
        /\ stage \in Stages
    BY Types DEF IInv, States, Stages
  <1> DEFINE c == Saved(s, stage, state.turns + 1)
  <1>2. /\ c \in Ckpts /\ c.stage = stage /\ c.next = state.turns + 1 /\ c.turns = s.turns
        /\ c.calls = s.calls /\ c.results = s.results
        /\ c.rejections = s.rejections /\ c.text = s.text
    BY <1>1, SavedFields
  <1>3. ckpt' = c
    OBVIOUS
  <1> HIDE DEF c
  <1>4. /\ state.results \in Nat /\ Len(ran) = state.results /\ state.results <= state.calls
        /\ Len(ran) <= MaxToolCalls
    BY <1>1 DEF IInv, CallInv, NoInvocationForgotten, Alive, States
  <1>5. /\ state.rejections \in Nat /\ state.rejections < MaxRejections + crashes
        /\ MaxRejections \in Nat /\ crashes \in Nat /\ s.rejections \in Nat
    BY <1>1, Types, FeatureLimits DEF IInv, RejectInv, States
  <1>6. TypeOK'
    BY <1>2, <1>3 DEF IInv, TypeOK, States, Ckpts
  <1>7. RoundInv'
    BY <1>1, <1>2, <1>3 DEF IInv, RoundInv, Talking
  <1>8. CallInv'
    BY <1>2, <1>3, <1>4 DEF CallInv, NoInvocationForgotten, Alive
  <1>9. RejectInv'
    BY <1>2, <1>3, <1>5 DEF IInv, RejectInv, Working, Talking
  <1>10. TextInv' /\ RepairInv'
    BY <1>2, <1>3 DEF TextInv, RepairInv, Working, Talking
  <1> QED BY <1>6, <1>7, <1>8, <1>9, <1>10 DEF IInv

LEMMA FinalInv ==
  ASSUME IInv, Final
  PROVE  IInv'
  <1>1. /\ pc = "final" /\ pc' = "said" /\ UNCHANGED <<round, turn, flags, late, ran, crashes>>
    BY DEF Final
  <1>2. state \in States /\ state.rejections \in Nat
    BY Types DEF IInv, States
  <1>3. state.text = "none" /\ state.completed = FALSE
    BY <1>1, <1>2 DEF IInv, TextInv, Working, Talking, States
  <1>4. CASE late
    <2> DEFINE s == [state EXCEPT !.stop = "max_elapsed_time_reached"]
    <2>1. state' = s /\ ckpt' = Saved(s, "stopped", state.turns + 1)
      BY <1>4 DEF Final
    <2>2. /\ s \in States /\ s.turns = state.turns /\ s.calls = state.calls
          /\ s.results = state.results /\ s.rejections = state.rejections
          /\ s.text = state.text /\ s.completed = state.completed
      BY <1>2 DEF States, Stops
    <2> HIDE DEF s
    <2>3. s.rejections <= state.rejections + 1
      BY <1>2, <2>2
    <2> QED BY <1>1, <1>3, <2>1, <2>2, <2>3, SaidInv
  <1>5. CASE ~late
    <2>1. PICK verdict \in Verdicts(turn.text) :
            /\ state' = IF verdict = "complete"
                        THEN [state EXCEPT !.text = turn.text, !.completed = TRUE]
                        ELSE IF turn.text = "none" THEN state
                        ELSE [state EXCEPT !.rejections = @ + 1]
            /\ ckpt' = IF turn.text = "none" THEN ckpt
                       ELSE Saved(state', IF state'.completed THEN "completed" ELSE "stopped",
                                  state.turns + 1)
      BY <1>5 DEF Final
    <2>2. CASE verdict = "complete"
      <3>1. turn.text # "none"
        BY <2>1, <2>2, VerdictsOfText
      <3>2. /\ Accepted \in States /\ Accepted.turns = state.turns
            /\ Accepted.calls = state.calls /\ Accepted.results = state.results
            /\ Accepted.rejections = state.rejections /\ Accepted.text = turn.text
            /\ Accepted.completed = TRUE
        BY AcceptedFields DEF IInv, Stops
      <3>3. state' = Accepted
        BY <2>1, <2>2 DEF Accepted
      <3>4. ckpt' = Saved(Accepted, "completed", state.turns + 1)
        BY <2>1, <3>1, <3>2, <3>3
      <3>5. Accepted.rejections <= state.rejections + 1
        BY <1>2, <3>2
      <3> HIDE DEF Accepted
      <3> QED BY <1>1, <3>1, <3>2, <3>3, <3>4, <3>5, SaidInv
    <2>3. CASE verdict # "complete" /\ turn.text = "none"
      <3>1. UNCHANGED <<state, ckpt>>
        BY <2>1, <2>3
      <3>2. TypeOK' /\ RoundInv' /\ RepairInv'
        BY <1>1, <3>1 DEF IInv, TypeOK, RoundInv, RepairInv, Talking
      <3>3. CallInv' /\ RejectInv' /\ TextInv'
        BY <1>1, <3>1 DEF IInv, CallInv, RejectInv, TextInv, NoInvocationForgotten, Alive,
                          Working, Talking
      <3> QED BY <3>2, <3>3 DEF IInv
    <2>4. CASE verdict # "complete" /\ turn.text # "none"
      <3> DEFINE s == [state EXCEPT !.rejections = @ + 1]
      <3>1. state' = s
        BY <2>1, <2>4
      <3>2. /\ s \in States /\ s.turns = state.turns /\ s.calls = state.calls
            /\ s.results = state.results /\ s.rejections = state.rejections + 1
            /\ s.text = state.text /\ s.completed = state.completed
        BY <1>2 DEF States
      <3> HIDE DEF s
      <3>3. ckpt' = Saved(s, "stopped", state.turns + 1)
        BY <1>3, <2>1, <2>4, <3>1, <3>2
      <3>4. s.rejections <= state.rejections + 1
        BY <1>2, <3>2
      <3> QED BY <1>1, <1>3, <3>1, <3>2, <3>3, <3>4, SaidInv
    <2> QED BY <2>2, <2>3, <2>4
  <1> QED BY <1>4, <1>5

-----------------------------------------------------------------------------
(* All steps *)

LEMMA NextInv ==
  ASSUME IInv, [Next]_vars
  PROVE  IInv'
  <1>1. CASE Begin
    BY <1>1, BeginInv
  <1>2. CASE Refuse
    BY <1>2, OverInv DEF Refuse, Stops
  <1>3. CASE Raise
    BY <1>3, OverInv DEF Raise, Stops
  <1>4. CASE Return
    <2>1. "none" \in Stops
      BY DEF Stops
    <2> QED BY <1>4, <2>1, OverInv DEF Return
  <1>5. CASE OutOfRounds
    BY <1>5, StopInv DEF OutOfRounds, StopWith, Stops
  <1>6. CASE OutOfTime
    BY <1>6, StopInv DEF OutOfTime, StopWith, Stops
  <1>7. CASE Ask \/ Heard
    BY <1>7, AskInv, HeardInv
  <1>8. CASE Skip \/ Prepare \/ Invoke \/ Result \/ EndCalls
    BY <1>8, SkipInv, PrepareInv, InvokeInv, ResultInv, EndCallsInv
  <1>9. CASE Judge \/ Finalize \/ Final
    BY <1>9, JudgeInv, FinalizeInv, FinalInv
  <1>10. CASE Crash \/ TimePasses
    BY <1>10, CrashInv, TimePassesInv
  <1>11. CASE UNCHANGED vars
    BY <1>11 DEF vars, IInv, TypeOK, RoundInv, CallInv, RejectInv, TextInv, RepairInv,
                 NoInvocationForgotten, Alive
  <1> QED BY <1>1, <1>2, <1>3, <1>4, <1>5, <1>6, <1>7, <1>8, <1>9, <1>10, <1>11
          DEF Next, Loop

\* The inductive invariant holds, for any tools, budgets and process exits.
THEOREM Invariance == Spec => []IInv
  BY InitInv, NextInv, PTL DEF Spec

\* Every variable of the loop keeps its type.
THEOREM TypeCorrect == Spec => []TypeOK
  <1>1. IInv => TypeOK
    BY DEF IInv
  <1> QED BY <1>1, Invariance, PTL

\* Wherever the process dies, no result of an invoked tool is lost to the model.
THEOREM NothingForgotten == Spec => []NoInvocationForgotten
  <1>1. IInv => NoInvocationForgotten
    BY DEF IInv, CallInv
  <1> QED BY <1>1, Invariance, PTL

\* Calls, turns and rejections stay within their budgets over all lives of a run.
THEOREM BudgetsHold == Spec => []BudgetOverLives
  <1>1. IInv => BudgetOverLives
    BY DEF IInv, BudgetOverLives, RoundInv, CallInv, RejectInv
  <1> QED BY <1>1, Invariance, PTL

\* A run returns a text only if the gate has accepted it.
THEOREM OnlyVerified == Spec => []OnlyVerifiedTextReturned
  <1>1. IInv => OnlyVerifiedTextReturned
    BY DEF IInv, OnlyVerifiedTextReturned, TextInv
  <1> QED BY <1>1, Invariance, PTL

\* From the moment a repair is asked for, no tool is invoked.
THEOREM RepairsStay == Spec => RepairsUseNoTools
  <1>1. ASSUME IInv, [Next]_vars
        PROVE  [ran' # ran => ~state.repair /\ ~ckpt.repair]_vars
    <2>1. CASE Invoke
      <3>1. pc = "inflight"
        BY <2>1 DEF Invoke
      <3> QED BY <1>1, <3>1 DEF IInv, RepairInv
    <2>2. CASE ~Invoke
      <3>1. ran' = ran
        BY <1>1, <2>2
           DEF vars, Next, Loop, Begin, Refuse, OutOfRounds, OutOfTime, Ask, Heard, Skip, Prepare,
               Result, EndCalls, Judge, Finalize, Final, Return, Raise, Crash, TimePasses
      <3> QED BY <3>1
    <2> QED BY <2>1, <2>2
  <1> QED BY <1>1, Invariance, PTL DEF Spec, RepairsUseNoTools

-----------------------------------------------------------------------------
(* Repetition, for the default limit of two *)

LastCall == ran[Len(ran)]

\* The last call that ran is on the count, in memory and wherever a run resumes,
\* and the call in flight is another one.
RepeatInv ==
    /\ \A i \in 1 .. Len(ran) - 1 : ran[i] # ran[i + 1]
    /\ Alive /\ pc # "result" /\ ran # << >> => state.counts[LastCall] >= 1
    /\ pc = "inflight" /\ ran # << >> => Call # LastCall
    /\ pc = "result" => ran # << >> /\ Call = LastCall
    /\ ckpt.stage # "tool_inflight" /\ ran # << >> => ckpt.counts[LastCall] >= 1

LEMMA LastCallTyped ==
  ASSUME TypeOK, ran # << >>
  PROVE  LastCall \in Calls
  BY Types DEF LastCall

LEMMA CountsOf ==
  ASSUME TypeOK
  PROVE  state.counts \in [Calls -> Nat] /\ ckpt.counts \in [Calls -> Nat]
  BY Types DEF States, Ckpts

\* A checkpoint or a state that keeps the counts keeps the invariant.
LEMMA RepeatKept ==
  ASSUME IInv, RepeatInv, UNCHANGED ran, Alive, pc # "result",
         pc' \notin {"inflight", "result"},
         state'.counts = state.counts,
         ckpt' = ckpt \/ ckpt'.counts = state.counts
  PROVE  RepeatInv'
  BY DEF RepeatInv, LastCall, Alive

LEMMA RepeatStep ==
  ASSUME DuplicateLimit = 2, IInv, IInv', RepeatInv, [Next]_vars
  PROVE  RepeatInv'
  <1>t. /\ TypeOK /\ state \in States /\ state' \in States /\ ckpt \in Ckpts
        /\ ran \in Seq(Calls) /\ Len(ran) \in Nat
    BY Types DEF IInv, TypeOK, States
  <1>c. /\ state.counts \in [Calls -> Nat] /\ ckpt.counts \in [Calls -> Nat]
        /\ (ran # << >> => LastCall \in Calls)
    BY <1>t, CountsOf, LastCallTyped
  <1>1. CASE Begin
    <2> DEFINE s == Restored(ckpt)
               c == Saved(s, IF s.completed THEN "completed" ELSE "before_model", ckpt.next)
    <2>1. /\ state' = s /\ ckpt' = c /\ pc' \in {"ask", "stopped"} /\ UNCHANGED ran
          /\ ckpt.stage # "tool_inflight"
      BY <1>1 DEF Begin
    <2>2. s \in States /\ s.counts = ckpt.counts
      BY <1>t, RestoredFields
    <2> HIDE DEF s
    <2>3. c.counts = s.counts
      BY DEF Saved
    <2> HIDE DEF c
    <2> QED BY <2>1, <2>2, <2>3 DEF RepeatInv, LastCall
  <1>2. CASE Refuse \/ Crash
    BY <1>2 DEF Refuse, Crash, RepeatInv, Alive, LastCall
  <1>3. CASE TimePasses \/ UNCHANGED vars
    BY <1>3 DEF TimePasses, vars, RepeatInv, Alive, LastCall, Call
  <1>4. CASE Raise \/ Return
    BY <1>4 DEF Raise, Return, RepeatInv, Alive, LastCall
  <1>5. CASE OutOfRounds \/ OutOfTime \/ Ask \/ Finalize
    <2>1. /\ Alive /\ pc # "result" /\ pc' \notin {"inflight", "result"}
          /\ UNCHANGED <<ran, ckpt>>
      BY <1>5 DEF OutOfRounds, OutOfTime, Ask, Finalize, StopWith, Alive
    <2>2. state'.counts = state.counts
      BY <1>5, <1>t DEF OutOfRounds, OutOfTime, Ask, Finalize, StopWith, States
    <2> QED BY <2>1, <2>2, RepeatKept
  <1>6. CASE Heard \/ EndCalls
    <2>1. Alive /\ pc # "result" /\ pc' \notin {"inflight", "result"} /\ UNCHANGED ran
      BY <1>6 DEF Heard, EndCalls, StopWith, Alive
    <2>2. state'.counts = state.counts
      BY <1>6, <1>t DEF Heard, EndCalls, StopWith, States
    <2>3. ckpt' = ckpt \/ ckpt'.counts = state.counts
      BY <1>6 DEF Heard, EndCalls, Saved
    <2> QED BY <2>1, <2>2, <2>3, RepeatKept
  <1>7. CASE Judge
    <2>1. Alive /\ pc # "result" /\ pc' \notin {"inflight", "result"} /\ UNCHANGED ran
      BY <1>7 DEF Judge, Alive
    <2>2. state'.counts = state.counts
      BY <1>7, <1>t DEF Judge, States
    <2>3. ckpt' = ckpt \/ ckpt'.counts = state.counts
      BY <1>7, <1>t, <2>2 DEF Judge, Saved, States
    <2> QED BY <2>1, <2>2, <2>3, RepeatKept
  <1>8. CASE Final
    <2>1. Alive /\ pc # "result" /\ pc' \notin {"inflight", "result"} /\ UNCHANGED ran
      BY <1>8 DEF Final, Alive
    <2>2. state'.counts = state.counts
      BY <1>8, <1>t DEF Final, States
    <2>3. ckpt' = ckpt \/ ckpt'.counts = state.counts
      BY <1>8, <2>2 DEF Final, Saved
    <2> QED BY <2>1, <2>2, <2>3, RepeatKept
  <1>9. CASE Skip
    <2>1. /\ pc = "calls" /\ pc' = pc /\ turn.calls # << >> /\ state' = Counted
          /\ UNCHANGED <<ran, ckpt>>
      BY <1>9 DEF Skip
    <2>2. Call \in Calls
      BY <1>t, <2>1, CountedFields
    <2>3. state'.counts = Repeats
      BY <1>t, <2>1 DEF Counted, States
    <2>4. \A x \in Calls : Repeats[x] >= state.counts[x]
      BY <1>c, <2>2 DEF Repeats
    <2>5. \A x \in Calls : Repeats[x] \in Nat /\ state.counts[x] \in Nat
      BY <1>c, <2>2 DEF Repeats
    <2> QED BY <1>c, <2>1, <2>3, <2>4, <2>5 DEF RepeatInv, Alive, LastCall
  <1>10. CASE Prepare
    <2>1. /\ pc = "calls" /\ pc' = "inflight" /\ turn.calls # << >> /\ state' = Counted
          /\ ckpt' = Saved(Counted, "tool_inflight", round) /\ Allowed
          /\ UNCHANGED <<turn, ran>>
      BY <1>10 DEF Prepare
    <2>2. Call \in Calls
      BY <1>t, <2>1, CountedFields
    <2>3. state'.counts = Repeats /\ ckpt'.stage = "tool_inflight"
      BY <1>t, <2>1 DEF Counted, States, Saved
    <2>4. \A x \in Calls : /\ Repeats[x] \in Nat /\ state.counts[x] \in Nat
                           /\ Repeats[x] >= state.counts[x]
      BY <1>c, <2>2 DEF Repeats
    <2>5. Repeats[Call] = state.counts[Call] + 1
      BY <1>c, <2>2 DEF Repeats
    <2>6. state.counts[Call] = 0
      BY <2>1, <2>2, <2>4, <2>5 DEF Allowed, Repeated
    <2>7. ran # << >> => Call # LastCall
      BY <2>1, <2>6 DEF RepeatInv, Alive
    <2>8. Call' = Call /\ LastCall' = LastCall
      BY <2>1 DEF Call, LastCall
    <2> QED BY <1>c, <2>1, <2>3, <2>4, <2>7, <2>8 DEF RepeatInv, Alive
  <1>11. CASE Invoke
    <2>1. /\ pc = "inflight" /\ pc' = "result" /\ ran' = Append(ran, Call)
          /\ UNCHANGED <<turn, ckpt>>
      BY <1>11 DEF Invoke
    <2>2. turn.calls # << >> /\ ckpt.stage = "tool_inflight"
      BY <2>1 DEF IInv, CallInv
    <2>3. Call \in Calls
      BY <1>t, <2>2, CountedFields
    <2>4. /\ ran' # << >> /\ Len(ran') = Len(ran) + 1 /\ ran'[Len(ran) + 1] = Call
          /\ \A i \in 1 .. Len(ran) : ran'[i] = ran[i]
      BY <1>t, <2>1, <2>3, AppendProperties
    <2>5. Call' = Call /\ LastCall' = Call
      BY <2>1, <2>4 DEF Call, LastCall
    <2>6. ASSUME NEW i \in 1 .. Len(ran') - 1 PROVE ran'[i] # ran'[i + 1]
      <3>1. CASE i = Len(ran)
        BY <1>t, <2>1, <2>4, <3>1 DEF RepeatInv, LastCall
      <3>2. CASE i # Len(ran)
        <4>1. i \in 1 .. Len(ran) - 1 /\ i \in 1 .. Len(ran) /\ i + 1 \in 1 .. Len(ran)
          BY <1>t, <2>4, <3>2
        <4> QED BY <2>4, <4>1 DEF RepeatInv
      <3> QED BY <3>1, <3>2
    <2> QED BY <2>1, <2>2, <2>4, <2>5, <2>6 DEF RepeatInv
  <1>12. CASE Result
    <2>1. pc = "result" /\ pc' = "calls" /\ UNCHANGED <<ran, ckpt>>
      BY <1>12 DEF Result
    <2>2. ran # << >> /\ Call = LastCall
      BY <2>1 DEF RepeatInv
    <2>3. state'.counts = [c \in Calls |-> IF c = Call THEN 1 ELSE 0]
      BY <1>12, <1>t DEF Result, States
    <2>4. state'.counts[LastCall] = 1
      BY <1>c, <2>2, <2>3
    <2>5. LastCall' = LastCall
      BY <2>1 DEF LastCall
    <2> QED BY <2>1, <2>4, <2>5 DEF RepeatInv
  <1> QED BY <1>1, <1>2, <1>3, <1>4, <1>5, <1>6, <1>7, <1>8, <1>9, <1>10, <1>11, <1>12
          DEF Next, Loop

\* With the default limit of two no call is executed twice in a row, process exits
\* included.
THEOREM NoRepetition == ASSUME DuplicateLimit = 2 PROVE Spec => []RepetitionStops
  <1>1. Init => RepeatInv
    BY DEF Init, RepeatInv, Alive
  <1>2. IInv /\ RepeatInv => RepetitionStops
    <2> SUFFICES ASSUME IInv, RepeatInv, NEW i \in DOMAIN ran,
                        i + DuplicateLimit - 1 <= Len(ran)
                 PROVE  \E k \in i .. i + DuplicateLimit - 1 : ran[k] # ran[i]
      BY DEF RepetitionStops
    <2>1. Len(ran) \in Nat /\ i \in 1 .. Len(ran)
      BY Types DEF IInv
    <2>2. i \in 1 .. Len(ran) - 1
      BY <2>1
    <2>3. ran[i + 1] # ran[i]
      BY <2>2 DEF RepeatInv
    <2> QED BY <2>1, <2>3
  <1>3. IInv /\ IInv' /\ RepeatInv /\ [Next]_vars => RepeatInv'
    BY RepeatStep
  <1> QED BY <1>1, <1>2, <1>3, Invariance, PTL DEF Spec

=============================================================================
