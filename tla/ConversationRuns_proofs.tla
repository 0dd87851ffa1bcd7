---------------------- MODULE ConversationRuns_proofs -----------------------
(***************************************************************************)
(* Theorems of ConversationRuns, for any requests, pool, numbers of process *)
(* exits and deletions.                                                     *)
(***************************************************************************)
EXTENDS ConversationRuns, TLAPS

\* Where the run of an execution has not ended, and where it has.
Early == {"mark", "reset", "start", "open", "talk", "commit", "finish", "failing", "fail"}
Late  == {"close", "done"}

\* The future of a run that has not ended, or that is at work, is its only execution.
TaskInv ==
    /\ \A t \in Tasks :
          /\ tasks[t].at = "idle" => tasks[t] = Free
          /\ tasks[t].at # "idle" => tasks[t].req \in Requests /\ run[tasks[t].req] # "absent"
          /\ tasks[t].at \in Early => run[tasks[t].req] \notin Terminal
          /\ tasks[t].at \in Late => run[tasks[t].req] \in Terminal
          /\ tasks[t].at # "idle" /\ (run[tasks[t].req] \notin Terminal \/ AtWork(t)) =>
                future[tasks[t].req] = t
          /\ AtWork(t) => \A s \in Tasks : tasks[s].req = tasks[t].req => s = t
    /\ \A q \in Requests : future[q] # NoTask =>
          tasks[future[q]].req = q /\ tasks[future[q]].at # "idle"

\* The event loop submits one request at a time, in a process that has recovered.
LoopInv ==
    /\ proc \notin {"telling", "recovering"} => backlog = {}
    /\ proc \in {"down", "telling"} => \A t \in Tasks : tasks[t].at = "idle"
    /\ \A q \in backlog : run[q] # "absent" /\ (proc = "telling" => run[q] = "queued")
    /\ loop.at # "idle" => proc = "up" /\ loop.req \in Requests /\ run[loop.req] # "absent"
    /\ loop.at = "append" => /\ run[loop.req] = "queued"
                             /\ \A t \in Tasks : tasks[t].req # loop.req

\* The log of a run has last words when, and only when, the run has ended.
WordInv == \A q \in Requests :
    run[q] \in Terminal <=> \E i \in DOMAIN log[q] : log[q][i] \in LastWords

\* A stream that waits or has closed sent the last words; when it has stopped
\* waiting, nothing is at work that could add to the log.
Sent(q) == \A i \in DOMAIN log[q] : log[q][i] \in LastWords => i <= reader[q].cursor
ReaderInv == \A q \in Requests :
    /\ reader[q].at \in {"wait", "last", "ended"} => run[q] \in Terminal /\ Sent(q)
    /\ reader[q].at \in {"last", "ended"} =>
          \A t \in Tasks : tasks[t].req = q => ~AtWork(t)

\* The messages of a turn, before and after it ends.
SettledAs(q, state) == /\ user[q] \in {"none", state}
                       /\ \A i \in DOMAIN answers[q] : answers[q][i] = state
Answered == {"commit", "finish", "failing", "fail"}
Unanswered(q) == /\ run[q] \notin Terminal
                 /\ \A t \in Tasks : tasks[t].req = q => tasks[t].at \notin Answered
TurnInv ==
    /\ \A q \in Requests :
          /\ Len(answers[q]) <= crashes + 1
          /\ Unanswered(q) => Len(answers[q]) <= crashes
          /\ run[q] \in Terminal => SettledAs(q, TurnOf(run[q]))
    /\ \A t \in Tasks : /\ tasks[t].at = "finish" => SettledAs(tasks[t].req, "committed")
                        /\ tasks[t].at = "fail" => SettledAs(tasks[t].req, "failed")

\* As long as no process has exited and no session was deleted, a run that is
\* launched has its message.
Appending(q) == loop.at = "append" /\ loop.req = q
HeardInv == crashes + deletes = 0 =>
    /\ backlog = {}
    /\ proc \in {"down", "telling"} => \A q \in Requests : run[q] = "absent"
    /\ \A q \in Requests : run[q] # "absent" => session[q] /\ (user[q] # "none" \/ Appending(q))
    /\ \A t \in Tasks : tasks[t].at = "talk" => tasks[t].heard

IInv == TypeOK /\ TaskInv /\ LoopInv /\ WordInv /\ ReaderInv /\ TurnInv /\ HeardInv
-----------------------------------------------------------------------------
(* A step of an execution *)

Row   == [at : Points, req : Requests \cup {NoRequest}, heard : BOOLEAN]
Table == [Tasks -> Row]

\* Execution t goes on to a place; nobody else moves.
Moved(t, to) ==
    /\ tasks[t].at \notin {"idle", "done"} /\ to \in Points \ {"idle", "pool"}
    /\ tasks[t].at = "pool" => to \in {"mark", "done"}
    /\ tasks' \in Table /\ tasks'[t].at = to /\ tasks'[t].req = tasks[t].req
    /\ \A s \in Tasks \ {t} : tasks'[s] = tasks[s]
    /\ UNCHANGED <<proc, backlog, loop, future, reader, crashes, deletes>>

\* The status of q may change before the run ends, and agrees with the place.
Ran(q, to) ==
    /\ run' \in [Requests -> RunStates] /\ run'[q] # "absent"
    /\ \A p \in Requests \ {q} : run'[p] = run[p]
    /\ run[q] \in Terminal => run'[q] = run[q]
    /\ to \in Early => run'[q] \notin Terminal
    /\ to \in Late => run'[q] \in Terminal

\* At most one event is recorded, last words with the end of the run.
Told(q) ==
    /\ log' \in [Requests -> Seq(Events)]
    /\ \A p \in Requests \ {q} : log'[p] = log[p]
    /\ \/ log'[q] = log[q] /\ (run'[q] \in Terminal <=> run[q] \in Terminal)
       \/ \E e \in Events : /\ log'[q] = Append(log[q], e)
                            /\ e \in LastWords <=> run'[q] \in Terminal /\ run[q] \notin Terminal

\* The messages of q.
Settled(q, state) == /\ user'[q] \in {"none", state}
                     /\ \A i \in DOMAIN answers'[q] : answers'[q][i] = state
Wrote(t, q, to) ==
    /\ session' \in [Requests -> BOOLEAN] /\ \A p \in Requests : session[p] => session'[p]
    /\ user' \in [Requests -> TurnStates \cup {"none"}]
    /\ answers' \in [Requests -> Seq(TurnStates)]
    /\ \A p \in Requests \ {q} : user'[p] = user[p] /\ answers'[p] = answers[p]
    /\ user'[q] = "none" <=> user[q] = "none"
    /\ \/ Len(answers'[q]) = Len(answers[q])
       \/ tasks[t].at = "talk" /\ to = "commit" /\ Len(answers'[q]) = Len(answers[q]) + 1
    /\ tasks[t].at \in Answered => to \in Answered \cup Late
    /\ to = "finish" => Settled(q, "committed")
    /\ to = "fail" => Settled(q, "failed")
    /\ run'[q] \in Terminal => Settled(q, TurnOf(run'[q]))

Heard(t, q, to) == to = "talk" => \/ tasks[t].at = "talk" /\ tasks'[t].heard = tasks[t].heard
                                  \/ tasks'[t].heard = (user[q] # "none")

LEMMA TypeFacts ==
  ASSUME TypeOK
  PROVE  /\ tasks \in Table /\ \A t \in Tasks : tasks[t] \in Row
         /\ run \in [Requests -> RunStates] /\ log \in [Requests -> Seq(Events)]
         /\ future \in [Requests -> Tasks \cup {NoTask}]
         /\ answers \in [Requests -> Seq(TurnStates)]
         /\ crashes \in Nat /\ deletes \in Nat
  BY RunConstants DEF TypeOK, Table, Row

LEMMA MovedTypes ==
  ASSUME IInv, NEW t \in Tasks, NEW to, NEW q \in Requests,
         Moved(t, to), Ran(q, to), Told(q), Wrote(t, q, to)
  PROVE  TypeOK'
  BY DEF IInv, TypeOK, Moved, Ran, Told, Wrote, Table, Row

LEMMA MovedTask ==
  ASSUME IInv, NEW t \in Tasks, NEW to, NEW q \in Requests, q = tasks[t].req,
         Moved(t, to), Ran(q, to)
  PROVE  TaskInv'
  <1>1. /\ TaskInv /\ tasks \in Table /\ tasks' \in Table /\ future' = future
        /\ \A s \in Tasks : tasks'[s].req = tasks[s].req
        /\ \A s \in Tasks \ {t} : tasks'[s] = tasks[s]
        /\ tasks'[t].at = to /\ to \in Points \ {"idle", "pool"}
        /\ tasks[t].at \notin {"idle", "done"}
    BY TypeFacts DEF IInv, Moved
  <1>2. \A p \in Requests : /\ run[p] # "absent" => run'[p] # "absent"
                            /\ run[p] \in Terminal => run'[p] = run[p]
                            /\ p # q => run'[p] = run[p]
    BY DEF Ran
  <1>3. AtWork(t)' => run[q] \notin Terminal \/ AtWork(t)
    <2>1. CASE tasks[t].at = "pool"
      BY <1>1, <2>1 DEF Moved, Ran, Early, AtWork, Working
    <2>2. CASE tasks[t].at # "pool"
      BY <1>1, <2>2 DEF AtWork, Working
    <2> QED BY <2>1, <2>2
  <1>4. AtWork(t)' => future[q] = t /\ \A s \in Tasks : tasks[s].req = q => s = t
    <2>1. CASE AtWork(t)
      BY <1>1, <2>1 DEF TaskInv
    <2>2. CASE run[q] \notin Terminal
      <3>1. \A s \in Tasks : tasks[s].req = q => tasks[s].at # "idle"
        BY RunConstants, <1>1 DEF TaskInv, Free
      <3> QED BY <1>1, <2>2, <3>1 DEF TaskInv
    <2> QED BY <1>3, <2>1, <2>2
  <1>5. ASSUME NEW s \in Tasks
        PROVE  /\ tasks'[s].at = "idle" => tasks'[s] = Free
               /\ tasks'[s].at # "idle" =>
                    tasks'[s].req \in Requests /\ run'[tasks'[s].req] # "absent"
               /\ tasks'[s].at \in Early => run'[tasks'[s].req] \notin Terminal
               /\ tasks'[s].at \in Late => run'[tasks'[s].req] \in Terminal
               /\ tasks'[s].at # "idle" /\ (run'[tasks'[s].req] \notin Terminal \/ AtWork(s)') =>
                     future'[tasks'[s].req] = s
               /\ AtWork(s)' => \A r \in Tasks : tasks'[r].req = tasks'[s].req => r = s
    <2>1. CASE s = t
      BY <1>1, <1>2, <1>4, <2>1 DEF TaskInv, Ran
    <2>2. CASE s # t
      <3>1. tasks'[s] = tasks[s] /\ (AtWork(s)' <=> AtWork(s))
        BY <1>1, <2>2 DEF AtWork, Working
      <3>2. CASE tasks[s].req # q
        <4>1. tasks[s].at # "idle" => run'[tasks[s].req] = run[tasks[s].req]
          BY <1>1, <1>2, <3>2 DEF TaskInv
        <4>2. /\ tasks[s].at \in Early \cup Late => tasks[s].at # "idle"
              /\ AtWork(s) => tasks[s].at # "idle"
          BY DEF Early, Late, AtWork, Working
        <4>3. AtWork(s)' => \A r \in Tasks : tasks'[r].req = tasks'[s].req => r = s
          BY <1>1, <3>1 DEF TaskInv
        <4>4. /\ tasks[s].at = "idle" => tasks[s] = Free
              /\ tasks[s].at # "idle" => tasks[s].req \in Requests /\ run[tasks[s].req] # "absent"
              /\ tasks[s].at \in Early => run[tasks[s].req] \notin Terminal
              /\ tasks[s].at \in Late => run[tasks[s].req] \in Terminal
              /\ tasks[s].at # "idle" /\ (run[tasks[s].req] \notin Terminal \/ AtWork(s)) =>
                    future[tasks[s].req] = s
          BY <1>1 DEF TaskInv
        <4> QED BY <1>1, <3>1, <4>1, <4>2, <4>3, <4>4
      <3>3. CASE tasks[s].req = q
        <4>1. ~AtWork(s)
          BY <1>1, <2>2, <3>3 DEF TaskInv
        <4>2. tasks[s].at \notin Early
          BY <4>1 DEF AtWork, Working, Early
        <4> QED BY <1>1, <1>2, <3>1, <3>3, <4>1, <4>2 DEF TaskInv
      <3> QED BY <3>2, <3>3
    <2> QED BY <2>1, <2>2
  <1>6. \A p \in Requests : future'[p] # NoTask =>
           tasks'[future'[p]].req = p /\ tasks'[future'[p]].at # "idle"
    <2>1. \A p \in Requests : future[p] # NoTask => future[p] \in Tasks
      BY TypeFacts DEF IInv
    <2> QED BY <1>1, <2>1 DEF TaskInv
  <1> QED BY <1>5, <1>6 DEF TaskInv

LEMMA MovedLoop ==
  ASSUME IInv, NEW t \in Tasks, NEW to, NEW q \in Requests, q = tasks[t].req,
         Moved(t, to), Ran(q, to)
  PROVE  LoopInv'
  <1>1. \A s \in Tasks : tasks'[s].req = tasks[s].req
    BY DEF Moved
  <1>2. \A p \in Requests : /\ run[p] # "absent" => run'[p] # "absent"
                            /\ p # q => run'[p] = run[p]
    BY DEF Ran
  <1>3. loop.at = "append" => loop.req # q
    BY DEF IInv, LoopInv
  <1>4. backlog \subseteq Requests
    BY DEF IInv, TypeOK
  <1>5. proc \notin {"down", "telling"}
    BY DEF IInv, LoopInv, Moved
  <1> QED BY <1>1, <1>2, <1>3, <1>4, <1>5 DEF IInv, LoopInv, Moved

\* One more event, and where it stands.
LEMMA OneMore ==
  ASSUME NEW events \in Seq(Events), NEW e \in Events
  PROVE  /\ Append(events, e) \in Seq(Events) /\ Len(events) \in Nat
         /\ DOMAIN events = 1 .. Len(events)
         /\ DOMAIN Append(events, e) = DOMAIN events \cup {Len(events) + 1}
         /\ Append(events, e)[Len(events) + 1] = e
         /\ \A i \in DOMAIN events : Append(events, e)[i] = events[i]
  OBVIOUS

LEMMA MovedWords ==
  ASSUME IInv, NEW t \in Tasks, NEW to, NEW q \in Requests, q = tasks[t].req,
         Moved(t, to), Ran(q, to), Told(q)
  PROVE  WordInv' /\ ReaderInv'
  <1>1. \A p \in Requests \ {q} : run'[p] = run[p] /\ log'[p] = log[p]
    BY DEF Ran, Told
  <1>2. \/ log'[q] = log[q]
        \/ \E n, e : /\ DOMAIN log'[q] = DOMAIN log[q] \cup {n} /\ log'[q][n] = e
                     /\ \A i \in DOMAIN log[q] : log'[q][i] = log[q][i]
                     /\ e \in LastWords <=> run'[q] \in Terminal /\ run[q] \notin Terminal
    <2>1. CASE log'[q] = log[q]
      BY <2>1
    <2>2. CASE log'[q] # log[q]
      <3>1. PICK e \in Events : /\ log'[q] = Append(log[q], e)
                                /\ e \in LastWords <=> run'[q] \in Terminal /\ run[q] \notin Terminal
        BY <2>2 DEF Told
      <3>2. log[q] \in Seq(Events)
        BY TypeFacts DEF IInv
      <3>3. /\ DOMAIN log'[q] = DOMAIN log[q] \cup {Len(log[q]) + 1}
            /\ log'[q][Len(log[q]) + 1] = e
            /\ \A i \in DOMAIN log[q] : log'[q][i] = log[q][i]
        BY <3>1, <3>2, OneMore
      <3> QED BY <3>1, <3>3
    <2> QED BY <2>1, <2>2
  <1>3. run[q] \in Terminal => run'[q] = run[q]
    BY DEF Ran
  <1>4. WordInv'
    <2> SUFFICES ASSUME NEW p \in Requests
                 PROVE  run'[p] \in Terminal <=> \E i \in DOMAIN log'[p] : log'[p][i] \in LastWords
      BY DEF WordInv
    <2>1. CASE p # q
      BY <1>1, <2>1 DEF IInv, WordInv
    <2>2. CASE p = q /\ log'[q] = log[q]
      <3>1. run'[q] \in Terminal <=> run[q] \in Terminal
        <4>1. CASE \E e \in Events : log'[q] = Append(log[q], e)
          <5>1. log[q] \in Seq(Events)
            BY TypeFacts DEF IInv
          <5>2. Len(log'[q]) = Len(log[q]) + 1 /\ Len(log[q]) \in Nat
            BY <4>1, <5>1
          <5> QED BY <2>2, <5>2
        <4>2. CASE ~\E e \in Events : log'[q] = Append(log[q], e)
          BY <4>2 DEF Told
        <4> QED BY <4>1, <4>2
      <3> QED BY <2>2, <3>1 DEF IInv, WordInv
    <2>3. CASE p = q /\ log'[q] # log[q]
      BY <1>2, <1>3, <2>3 DEF IInv, WordInv
    <2> QED BY <2>1, <2>2, <2>3
  <1>5. ReaderInv'
    <2> SUFFICES ASSUME NEW p \in Requests
                 PROVE  /\ reader'[p].at \in {"wait", "last", "ended"} =>
                              run'[p] \in Terminal /\ Sent(p)'
                        /\ reader'[p].at \in {"last", "ended"} =>
                              \A s \in Tasks : tasks'[s].req = p => ~AtWork(s)'
      BY DEF ReaderInv
    <2>1. /\ reader[p].at \in {"wait", "last", "ended"} => run[p] \in Terminal /\ Sent(p)
          /\ reader[p].at \in {"last", "ended"} =>
                \A s \in Tasks : tasks[s].req = p => ~AtWork(s)
          /\ reader' = reader
      BY DEF IInv, ReaderInv, Moved
    <2>2. CASE p # q
      <3>1. \A s \in Tasks : tasks'[s].req = p => tasks[s].req = p /\ tasks'[s] = tasks[s]
        BY <2>2 DEF Moved
      <3> QED BY <1>1, <2>1, <2>2, <3>1 DEF Sent, AtWork, Working
    <2>3. CASE p = q
      <3>1. reader[q].at \in {"wait", "last", "ended"} => run'[q] \in Terminal /\ Sent(q)'
        BY <1>2, <1>3, <2>1, <2>3 DEF Sent
      <3>2. ASSUME reader[q].at \in {"last", "ended"}, NEW s \in Tasks, tasks'[s].req = q
            PROVE  ~AtWork(s)'
        <4>1. tasks[s].req = q /\ ~AtWork(s) /\ ~AtWork(t) /\ run[q] \in Terminal
          BY <2>1, <2>3, <3>2 DEF Moved
        <4>2. CASE s # t
          BY <4>1, <4>2 DEF Moved, AtWork, Working
        <4>3. CASE s = t
          <5>1. tasks[t].at = "pool"
            BY <4>1 DEF Moved, AtWork, Working
          <5>2. to = "done"
            BY <1>3, <4>1, <5>1 DEF Moved, Ran, Early
          <5> QED BY <4>3, <5>2 DEF Moved, AtWork, Working
        <4> QED BY <4>2, <4>3
      <3> QED BY <2>1, <2>3, <3>1, <3>2
    <2> QED BY <2>2, <2>3
  <1> QED BY <1>4, <1>5

LEMMA MovedTurn ==
  ASSUME IInv, NEW t \in Tasks, NEW to, NEW q \in Requests, q = tasks[t].req,
         Moved(t, to), Ran(q, to), Wrote(t, q, to)
  PROVE  TurnInv'
  <1>1. /\ crashes \in Nat /\ crashes' = crashes
        /\ \A p \in Requests : Len(answers[p]) \in Nat /\ Len(answers'[p]) \in Nat
    BY TypeFacts DEF IInv, Moved, Wrote
  <1>2. \A p \in Requests \ {q} : /\ run'[p] = run[p] /\ answers'[p] = answers[p]
                                  /\ user'[p] = user[p]
    BY DEF Ran, Wrote
  <1>3. \A s \in Tasks : /\ tasks'[s].req = tasks[s].req
                         /\ s # t => tasks'[s] = tasks[s]
    BY DEF Moved
  <1>4. tasks'[t].at = to /\ to \in Points \ {"idle", "pool"}
    BY DEF Moved
  <1>5. ASSUME NEW p \in Requests
        PROVE  /\ Len(answers'[p]) <= crashes + 1
               /\ Unanswered(p)' => Len(answers'[p]) <= crashes
               /\ run'[p] \in Terminal => SettledAs(p, TurnOf(run[p]))'
    <2>1. /\ Len(answers[p]) <= crashes + 1
          /\ Unanswered(p) => Len(answers[p]) <= crashes
          /\ run[p] \in Terminal => SettledAs(p, TurnOf(run[p]))
      BY DEF IInv, TurnInv
    <2>2. CASE p # q
      <3>1. Unanswered(p)' => Unanswered(p)
        BY <1>2, <1>3, <2>2 DEF Unanswered
      <3> QED BY <1>2, <2>1, <2>2, <3>1 DEF SettledAs
    <2>3. CASE p = q
      <3>1. run'[q] \in Terminal => SettledAs(q, TurnOf(run[q]))'
        BY DEF Wrote, Settled, SettledAs
      <3>2. CASE Len(answers'[q]) = Len(answers[q])
        <4>1. ASSUME Unanswered(q)' PROVE Unanswered(q)
          <5>1. run[q] \notin Terminal
            BY <4>1 DEF Unanswered, Ran
          <5>2. tasks[t].at \notin Answered
            BY <1>3, <1>4, <4>1 DEF Unanswered, Wrote, Ran
          <5> QED BY <1>3, <4>1, <5>1, <5>2 DEF Unanswered
        <4> QED BY <2>1, <2>3, <3>1, <3>2, <4>1
      <3>3. CASE /\ tasks[t].at = "talk" /\ to = "commit"
                 /\ Len(answers'[q]) = Len(answers[q]) + 1
        <4>1. \A s \in Tasks : tasks[s].req = q => s = t
          BY <3>3 DEF IInv, TaskInv, AtWork, Working
        <4>2. run[q] \notin Terminal
          BY <3>3 DEF IInv, TaskInv, Early
        <4>3. Unanswered(q)
          BY <3>3, <4>1, <4>2 DEF Unanswered, Answered
        <4>4. ~Unanswered(q)'
          BY <1>3, <1>4, <3>3 DEF Unanswered, Answered
        <4>5. Len(answers'[q]) <= crashes + 1
          BY <1>1, <2>1, <2>3, <3>3, <4>3
        <4> QED BY <1>1, <2>3, <3>1, <4>4, <4>5
      <3> QED BY <3>2, <3>3 DEF Wrote
    <2> QED BY <2>2, <2>3
  <1>6. ASSUME NEW s \in Tasks
        PROVE  /\ tasks'[s].at = "finish" => SettledAs(tasks[s].req, "committed")'
               /\ tasks'[s].at = "fail" => SettledAs(tasks[s].req, "failed")'
    <2>1. CASE s = t
      BY <1>3, <1>4, <2>1 DEF Wrote, Settled, SettledAs
    <2>2. CASE s # t
      <3>1. ASSUME tasks'[s].at \in {"finish", "fail"}
            PROVE  tasks[s].req \in Requests \ {q}
        BY <1>3, <2>2, <3>1 DEF IInv, TaskInv, AtWork, Working
      <3>2. /\ tasks[s].at = "finish" => SettledAs(tasks[s].req, "committed")
            /\ tasks[s].at = "fail" => SettledAs(tasks[s].req, "failed")
        BY DEF IInv, TurnInv
      <3> QED BY <1>2, <1>3, <2>2, <3>1, <3>2 DEF SettledAs
    <2> QED BY <2>1, <2>2
  <1> QED BY <1>1, <1>5, <1>6 DEF TurnInv

LEMMA MovedHeard ==
  ASSUME IInv, NEW t \in Tasks, NEW to, NEW q \in Requests, q = tasks[t].req,
         Moved(t, to), Ran(q, to), Wrote(t, q, to), Heard(t, q, to)
  PROVE  HeardInv'
  <1>1. run[q] # "absent" /\ ~Appending(q)
    BY DEF IInv, TaskInv, LoopInv, Moved, Appending
  <1>2. \A p \in Requests : run'[p] # "absent" => run[p] # "absent"
    BY <1>1 DEF Ran
  <1>3. \A p \in Requests : /\ session[p] => session'[p]
                            /\ user'[p] = "none" <=> user[p] = "none"
    BY DEF Wrote
  <1>4. UNCHANGED <<crashes, deletes, backlog, proc, loop>>
    BY DEF Moved
  <1> SUFFICES ASSUME crashes + deletes = 0
               PROVE  /\ backlog' = {}
                      /\ proc' \in {"down", "telling"} => \A p \in Requests : run'[p] = "absent"
                      /\ \A p \in Requests : run'[p] # "absent" =>
                            session'[p] /\ (user'[p] # "none" \/ Appending(p)')
                      /\ \A s \in Tasks : tasks'[s].at = "talk" => tasks'[s].heard
    BY <1>4 DEF HeardInv
  <1>5. /\ backlog = {} /\ proc \notin {"down", "telling"}
        /\ \A p \in Requests : run[p] # "absent" => session[p] /\ (user[p] # "none" \/ Appending(p))
        /\ \A s \in Tasks : tasks[s].at = "talk" => tasks[s].heard
    BY <1>1 DEF IInv, HeardInv
  <1>6. ASSUME NEW s \in Tasks, tasks'[s].at = "talk" PROVE tasks'[s].heard
    <2>1. CASE s = t
      <3>1. to = "talk"
        BY <1>6, <2>1 DEF Moved
      <3> QED BY <1>1, <1>5, <2>1, <3>1 DEF Heard
    <2>2. CASE s # t
      BY <1>5, <1>6, <2>2 DEF Moved
    <2> QED BY <2>1, <2>2
  <1> QED BY <1>2, <1>3, <1>4, <1>5, <1>6 DEF Appending

\* A step of an execution keeps the invariant.
LEMMA WorkStep ==
  ASSUME IInv, NEW t \in Tasks, NEW to, NEW q \in Requests, q = tasks[t].req,
         Moved(t, to), Ran(q, to), Told(q), Wrote(t, q, to), Heard(t, q, to)
  PROVE  IInv'
  BY MovedTypes, MovedTask, MovedLoop, MovedWords, MovedTurn, MovedHeard DEF IInv
-----------------------------------------------------------------------------
(* The steps of an execution, one by one *)

\* The request of an execution, and what its place says.
LEMMA Place ==
  ASSUME IInv, NEW t \in Tasks, tasks[t].at # "idle"
  PROVE  /\ tasks[t].req \in Requests /\ run[tasks[t].req] # "absent"
         /\ tasks[t].at \in Early => run[tasks[t].req] \notin Terminal
         /\ tasks[t].at \in Late => run[tasks[t].req] \in Terminal
         /\ run[tasks[t].req] \in Terminal =>
               SettledAs(tasks[t].req, TurnOf(run[tasks[t].req]))
  BY DEF IInv, TaskInv, TurnInv

LEMMA MoveIs ==
  ASSUME TypeOK, NEW t \in Tasks, NEW from, NEW to \in Points \ {"idle", "pool"},
         Move(t, from, to), from \notin {"idle", "done"},
         from = "pool" => to \in {"mark", "done"},
         UNCHANGED <<proc, backlog, loop, future, reader, crashes, deletes>>
  PROVE  /\ Moved(t, to) /\ tasks[t].at = from /\ tasks[t].at # "idle"
         /\ tasks'[t].heard = tasks[t].heard
  <1>1. tasks \in Table /\ tasks[t] \in Row
    BY TypeFacts
  <1>2. tasks' = [tasks EXCEPT ![t] = [tasks[t] EXCEPT !.at = to]] /\ tasks[t].at = from
    BY DEF Move
  <1>3. tasks'[t] = [tasks[t] EXCEPT !.at = to]
    BY <1>1, <1>2 DEF Table
  <1>4. tasks'[t] \in Row /\ tasks'[t].at = to /\ tasks'[t].req = tasks[t].req
        /\ tasks'[t].heard = tasks[t].heard
    BY <1>1, <1>3 DEF Row
  <1>5. tasks' \in Table /\ \A s \in Tasks \ {t} : tasks'[s] = tasks[s]
    BY <1>1, <1>2, <1>3, <1>4 DEF Table
  <1> QED BY <1>2, <1>4, <1>5 DEF Moved

LEMMA SameRun ==
  ASSUME TypeOK, NEW q \in Requests, NEW to, run' = run, run[q] # "absent",
         to \in Early => run[q] \notin Terminal, to \in Late => run[q] \in Terminal
  PROVE  Ran(q, to)
  BY DEF TypeOK, Ran

LEMMA SameLog ==
  ASSUME TypeOK, NEW q \in Requests, log' = log, run'[q] \in Terminal <=> run[q] \in Terminal
  PROVE  Told(q)
  BY DEF TypeOK, Told

LEMMA Recorded ==
  ASSUME TypeOK, NEW q \in Requests, NEW e \in Events, Record(q, e),
         e \in LastWords <=> run'[q] \in Terminal /\ run[q] \notin Terminal
  PROVE  Told(q)
  <1>1. /\ log \in [Requests -> Seq(Events)]
        /\ log' = [log EXCEPT ![q] = Append(log[q], e)]
    BY DEF TypeOK, Record
  <1>2. log'[q] = Append(log[q], e)
    BY <1>1
  <1>3. log' \in [Requests -> Seq(Events)]
    BY <1>1
  <1> QED BY <1>1, <1>2, <1>3 DEF Told

LEMMA SameMessages ==
  ASSUME TypeOK, NEW t \in Tasks, NEW q \in Requests, NEW to \in Points \ {"finish", "fail"},
         UNCHANGED <<session, user, answers>>,
         tasks[t].at \in Answered => to \in Answered \cup Late,
         run'[q] \in Terminal => SettledAs(q, TurnOf(run'[q]))
  PROVE  Wrote(t, q, to)
  BY DEF TypeOK, Wrote, Settled, SettledAs

LEMMA TurnSet ==
  ASSUME TypeOK, NEW q \in Requests, NEW state \in TurnStates, SetTurn(q, state)
  PROVE  /\ user' \in [Requests -> TurnStates \cup {"none"}]
         /\ answers' \in [Requests -> Seq(TurnStates)]
         /\ \A p \in Requests \ {q} : user'[p] = user[p] /\ answers'[p] = answers[p]
         /\ user'[q] = "none" <=> user[q] = "none"
         /\ Len(answers'[q]) = Len(answers[q])
         /\ Settled(q, state)
  <1>1. /\ answers \in [Requests -> Seq(TurnStates)]
        /\ answers' = [answers EXCEPT ![q] = [i \in DOMAIN answers[q] |-> state]]
    BY DEF TypeOK, SetTurn
  <1>2. answers[q] \in Seq(TurnStates)
    BY <1>1
  <1>3. answers'[q] = [i \in 1 .. Len(answers[q]) |-> state]
    BY <1>1, <1>2
  <1>4. answers'[q] \in Seq(TurnStates) /\ Len(answers'[q]) = Len(answers[q])
    BY <1>2, <1>3
  <1>5. user \in [Requests -> TurnStates \cup {"none"}]
    BY DEF TypeOK
  <1>6. user' = [user EXCEPT ![q] = IF user[q] = "none" THEN user[q] ELSE state]
    BY DEF SetTurn
  <1>7. answers' \in [Requests -> Seq(TurnStates)]
    BY <1>1, <1>4
  <1>8. \A p \in Requests \ {q} : answers'[p] = answers[p]
    BY <1>1
  <1>9. \A i \in DOMAIN answers'[q] : answers'[q][i] = state
    BY <1>3
  <1>10. state # "none"
    BY DEF TurnStates
  <1> QED BY <1>4, <1>5, <1>6, <1>7, <1>8, <1>9, <1>10 DEF Settled

LEMMA BeginStep == ASSUME IInv, NEW t \in Tasks, Begin(t) PROVE IInv'
  <1> DEFINE q  == tasks[t].req
             to == IF run[q] \in Terminal THEN "done" ELSE "mark"
  <1>1. /\ TypeOK /\ Move(t, "pool", to) /\ to \in Points \ {"idle", "pool"}
        /\ UNCHANGED <<run, log, session, user, answers, proc, backlog, loop, future, reader,
                       crashes, deletes>>
    BY DEF Begin, IInv, Points, store, bounds
  <1>2. Moved(t, to) /\ tasks[t].at = "pool"
    BY <1>1, MoveIs
  <1>3. q \in Requests /\ Ran(q, to)
    BY <1>1, <1>2, Place, SameRun DEF Early, Late
  <1>4. Told(q)
    BY <1>1, <1>3, SameLog
  <1>5. Wrote(t, q, to)
    BY <1>1, <1>2, <1>3, Place, SameMessages DEF Answered
  <1>6. Heard(t, q, to)
    BY DEF Heard
  <1> QED BY <1>2, <1>3, <1>4, <1>5, <1>6, WorkStep

LEMMA MarkRunningStep == ASSUME IInv, NEW t \in Tasks, MarkRunning(t) PROVE IInv'
  <1> DEFINE q  == tasks[t].req
             to == IF Happened(q, "delta") THEN "reset" ELSE "start"
  <1>1. /\ TypeOK /\ Move(t, "mark", to) /\ to \in Points \ {"idle", "pool"}
        /\ run' = [run EXCEPT ![q] = "running"]
        /\ UNCHANGED <<log, session, user, answers, proc, backlog, loop, future, reader,
                       crashes, deletes>>
    BY DEF MarkRunning, IInv, Points, bounds
  <1>2. Moved(t, to) /\ tasks[t].at = "mark"
    BY <1>1, MoveIs
  <1>3. q \in Requests /\ run[q] \notin Terminal
    BY <1>2, Place DEF Early
  <1>4. Ran(q, to) /\ run'[q] = "running"
    BY <1>1, <1>3 DEF Ran, TypeOK, RunStates, Early, Late, Terminal
  <1>5. Told(q)
    BY <1>1, <1>3, <1>4, SameLog DEF Terminal
  <1>6. Wrote(t, q, to)
    BY <1>1, <1>2, <1>3, <1>4, SameMessages DEF Answered, Terminal
  <1>7. Heard(t, q, to)
    BY DEF Heard
  <1> QED BY <1>2, <1>3, <1>4, <1>5, <1>6, <1>7, WorkStep

LEMMA AnnounceStep == ASSUME IInv, NEW t \in Tasks, Announce(t) PROVE IInv'
  <1> DEFINE q == tasks[t].req
  <1>1. /\ TypeOK
        /\ UNCHANGED <<run, session, user, answers, proc, backlog, loop, future, reader,
                       crashes, deletes>>
    BY DEF Announce, IInv, bounds
  <1>2. PICK from \in {"reset", "start"}, to \in {"start", "open"},
             e \in {"model_output_reset", "run_started"} : Move(t, from, to) /\ Record(q, e)
    BY DEF Announce
  <1>3. Moved(t, to) /\ tasks[t].at = from /\ tasks[t].at # "idle"
    BY <1>1, <1>2, MoveIs DEF Points
  <1>4. q \in Requests /\ run[q] \notin Terminal /\ Ran(q, to)
    BY <1>1, <1>2, <1>3, Place, SameRun DEF Early, Late
  <1>5. Told(q)
    BY <1>1, <1>2, <1>4, Recorded DEF Events, LastWords
  <1>6. Wrote(t, q, to)
    BY <1>1, <1>2, <1>3, <1>4, SameMessages DEF Answered, Points
  <1>7. Heard(t, q, to)
    BY <1>2 DEF Heard
  <1> QED BY <1>3, <1>4, <1>5, <1>6, <1>7, WorkStep

LEMMA OpenTurnStep == ASSUME IInv, NEW t \in Tasks, OpenTurn(t) PROVE IInv'
  <1> DEFINE q == tasks[t].req
  <1>1. /\ TypeOK /\ tasks[t].at = "open"
        /\ session' = [session EXCEPT ![q] = TRUE]
        /\ tasks' = [tasks EXCEPT ![t].at = "talk", ![t].heard = (user[q] # "none")]
        /\ UNCHANGED <<run, log, user, answers, proc, backlog, loop, future, reader,
                       crashes, deletes>>
    BY DEF OpenTurn, IInv, bounds
  <1>2. /\ q \in Requests /\ run[q] \notin Terminal /\ Ran(q, "talk")
    BY <1>1, Place, SameRun DEF Early, Late
  <1>3. tasks \in Table /\ tasks[t] \in Row
    BY <1>1, TypeFacts
  <1>4. Moved(t, "talk") /\ tasks'[t].heard = (user[q] # "none")
    BY <1>1, <1>3 DEF Moved, Table, Row, Points
  <1>5. Told(q)
    BY <1>1, <1>2, SameLog
  <1>6. Wrote(t, q, "talk")
    BY <1>1, <1>2 DEF Wrote, TypeOK, Answered
  <1>7. Heard(t, q, "talk")
    BY <1>4 DEF Heard
  <1> QED BY <1>2, <1>4, <1>5, <1>6, <1>7, WorkStep

LEMMA DeltaStep == ASSUME IInv, NEW t \in Tasks, Delta(t) PROVE IInv'
  <1> DEFINE q == tasks[t].req
  <1>1. /\ TypeOK /\ tasks[t].at = "talk" /\ Record(q, "delta")
        /\ UNCHANGED <<run, session, user, answers, proc, backlog, loop, tasks, future, reader,
                       crashes, deletes>>
    BY DEF Delta, IInv, memory, bounds
  <1>2. q \in Requests /\ run[q] \notin Terminal /\ Ran(q, "talk")
    BY <1>1, Place, SameRun DEF Early, Late
  <1>3. Moved(t, "talk")
    BY <1>1, TypeFacts DEF Moved, Points
  <1>4. Told(q)
    BY <1>1, <1>2, Recorded DEF Events, LastWords
  <1>5. Wrote(t, q, "talk")
    BY <1>1, <1>2, SameMessages DEF Answered, Points
  <1>6. Heard(t, q, "talk")
    BY <1>1 DEF Heard
  <1> QED BY <1>2, <1>3, <1>4, <1>5, <1>6, WorkStep

LEMMA AnswerStep == ASSUME IInv, NEW t \in Tasks, Answer(t) PROVE IInv'
  <1> DEFINE q == tasks[t].req
  <1>1. /\ TypeOK /\ Move(t, "talk", "commit")
        /\ answers' = [answers EXCEPT ![q] = Append(answers[q], "running")]
        /\ UNCHANGED <<run, log, session, user, proc, backlog, loop, future, reader,
                       crashes, deletes>>
    BY DEF Answer, IInv, bounds
  <1>2. Moved(t, "commit") /\ tasks[t].at = "talk"
    BY <1>1, MoveIs DEF Points
  <1>3. q \in Requests /\ run[q] \notin Terminal /\ Ran(q, "commit")
    BY <1>1, <1>2, Place, SameRun DEF Early, Late
  <1>4. Told(q)
    BY <1>1, <1>3, SameLog
  <1>5. /\ answers' \in [Requests -> Seq(TurnStates)]
        /\ \A p \in Requests \ {q} : answers'[p] = answers[p]
        /\ Len(answers'[q]) = Len(answers[q]) + 1
    <2>1. answers \in [Requests -> Seq(TurnStates)] /\ answers[q] \in Seq(TurnStates)
      BY <1>1, <1>3, TypeFacts
    <2>2. "running" \in TurnStates
      BY DEF TurnStates
    <2>3. answers'[q] = Append(answers[q], "running")
      BY <1>1, <1>3, <2>1
    <2>4. Append(answers[q], "running") \in Seq(TurnStates)
      BY <2>1, <2>2
    <2>5. Len(answers'[q]) = Len(answers[q]) + 1
      BY <2>1, <2>2, <2>3
    <2> QED BY <1>1, <1>3, <2>1, <2>3, <2>4, <2>5
  <1>6. Wrote(t, q, "commit")
    BY <1>1, <1>2, <1>3, <1>5 DEF Wrote, TypeOK, Answered
  <1>7. Heard(t, q, "commit")
    BY DEF Heard
  <1> QED BY <1>2, <1>3, <1>4, <1>6, <1>7, WorkStep

LEMMA SettleStep ==
  ASSUME IInv, NEW t \in Tasks,
         NEW from \in {"commit", "failing"}, NEW to \in {"finish", "fail"},
         Move(t, from, to), SetTurn(tasks[t].req, IF to = "finish" THEN "committed" ELSE "failed"),
         UNCHANGED <<run, log, session, proc, backlog, loop, future, reader, crashes, deletes>>
  PROVE  IInv'
  <1> DEFINE q == tasks[t].req
             state == IF to = "finish" THEN "committed" ELSE "failed"
  <1>1. TypeOK /\ state \in TurnStates
    BY DEF IInv, TurnStates
  <1>2. Moved(t, to) /\ tasks[t].at = from /\ tasks[t].at # "idle"
    BY <1>1, MoveIs DEF Points
  <1>3. q \in Requests /\ run[q] \notin Terminal /\ Ran(q, to)
    BY <1>1, <1>2, Place, SameRun DEF Early, Late
  <1>4. Told(q)
    BY <1>1, <1>3, SameLog
  <1>5. /\ user' \in [Requests -> TurnStates \cup {"none"}]
        /\ answers' \in [Requests -> Seq(TurnStates)]
        /\ \A p \in Requests \ {q} : user'[p] = user[p] /\ answers'[p] = answers[p]
        /\ user'[q] = "none" <=> user[q] = "none"
        /\ Len(answers'[q]) = Len(answers[q])
        /\ Settled(q, state)
    BY <1>1, <1>3, TurnSet
  <1>6. Wrote(t, q, to)
    BY <1>1, <1>2, <1>3, <1>5 DEF Wrote, TypeOK, Answered
  <1>7. Heard(t, q, to)
    BY DEF Heard
  <1> QED BY <1>2, <1>3, <1>4, <1>6, <1>7, WorkStep

LEMMA EndStep ==
  ASSUME IInv, NEW t \in Tasks,
         NEW from \in {"finish", "fail"}, NEW status \in Terminal, NEW e \in LastWords,
         status = (IF from = "finish" THEN "completed" ELSE "failed"),
         Move(t, from, "close"), run' = [run EXCEPT ![tasks[t].req] = status],
         Record(tasks[t].req, e),
         UNCHANGED <<session, user, answers, proc, backlog, loop, future, reader,
                     crashes, deletes>>
  PROVE  IInv'
  <1> DEFINE q == tasks[t].req
  <1>1. TypeOK
    BY DEF IInv
  <1>2. Moved(t, "close") /\ tasks[t].at = from /\ tasks[t].at # "idle"
    BY <1>1, MoveIs DEF Points
  <1>3. q \in Requests /\ run[q] \notin Terminal
    BY <1>2, Place DEF Early
  <1>4. Ran(q, "close") /\ run'[q] = status
    BY <1>1, <1>3 DEF Ran, TypeOK, RunStates, Early, Late, Terminal
  <1>5. Told(q)
    BY <1>1, <1>3, <1>4, Recorded DEF Events
  <1>6. SettledAs(q, TurnOf(run'[q]))
    BY <1>2, <1>4 DEF IInv, TurnInv, TurnOf
  <1>7. Wrote(t, q, "close")
    BY <1>1, <1>2, <1>3, <1>6, SameMessages DEF Late, Points
  <1>8. Heard(t, q, "close")
    BY DEF Heard
  <1> QED BY <1>2, <1>3, <1>4, <1>5, <1>7, <1>8, WorkStep

LEMMA TurnRaisesStep == ASSUME IInv, NEW t \in Tasks, TurnRaises(t) PROVE IInv'
  <1> DEFINE q == tasks[t].req
  <1>1. /\ TypeOK
        /\ UNCHANGED <<run, log, session, user, answers, proc, backlog, loop, future, reader,
                       crashes, deletes>>
    BY DEF TurnRaises, IInv, store, bounds
  <1>2. PICK from \in {"open", "talk", "commit", "finish"} : Move(t, from, "failing")
    BY DEF TurnRaises
  <1>3. Moved(t, "failing") /\ tasks[t].at = from /\ tasks[t].at # "idle"
    BY <1>1, <1>2, MoveIs DEF Points
  <1>4. q \in Requests /\ run[q] \notin Terminal /\ Ran(q, "failing")
    BY <1>1, <1>3, Place, SameRun DEF Early, Late
  <1>5. Told(q)
    BY <1>1, <1>4, SameLog
  <1>6. Wrote(t, q, "failing")
    BY <1>1, <1>4, SameMessages DEF Answered, Points
  <1>7. Heard(t, q, "failing")
    BY DEF Heard
  <1> QED BY <1>3, <1>4, <1>5, <1>6, <1>7, WorkStep

LEMMA CloseEvolutionStep == ASSUME IInv, NEW t \in Tasks, CloseEvolution(t) PROVE IInv'
  <1> DEFINE q == tasks[t].req
  <1>1. /\ TypeOK /\ Move(t, "close", "done") /\ Record(q, "memory_evolution")
        /\ UNCHANGED <<run, session, user, answers, proc, backlog, loop, future, reader,
                       crashes, deletes>>
    BY DEF CloseEvolution, IInv, bounds
  <1>2. Moved(t, "done") /\ tasks[t].at = "close"
    BY <1>1, MoveIs DEF Points
  <1>3. q \in Requests /\ run[q] \in Terminal /\ Ran(q, "done")
    BY <1>1, <1>2, Place, SameRun DEF Early, Late
  <1>4. Told(q)
    BY <1>1, <1>3, Recorded DEF Events, LastWords
  <1>5. Wrote(t, q, "done")
    BY <1>1, <1>2, <1>3, Place, SameMessages DEF Answered, Late, Points
  <1>6. Heard(t, q, "done")
    BY DEF Heard
  <1> QED BY <1>2, <1>3, <1>4, <1>5, <1>6, WorkStep
-----------------------------------------------------------------------------
(* Executions that begin and that are forgotten *)

\* A launch: the run has an execution at rest, or none.
LEMMA LaunchedTask ==
  ASSUME IInv, NEW q \in Requests, ~Pending(q), run[q] # "absent",
         NEW n \in Tasks, tasks[n] = Free,
         tasks' = [tasks EXCEPT ![n] = [Free EXCEPT !.at = "pool", !.req = q]],
         future' = [future EXCEPT ![q] = n],
         UNCHANGED run
  PROVE  /\ tasks' \in Table /\ future' \in [Requests -> Tasks \cup {NoTask}]
         /\ TaskInv'
         /\ \A s \in Tasks : AtWork(s)' => tasks'[s] = tasks[s]
         /\ \A s \in Tasks \ {n} : tasks'[s] = tasks[s]
         /\ tasks'[n].req = q /\ tasks'[n].at = "pool"
  <1>1. /\ TaskInv /\ tasks \in Table /\ future \in [Requests -> Tasks \cup {NoTask}]
    BY TypeFacts DEF IInv
  <1>2. /\ tasks'[n] = [at |-> "pool", req |-> q, heard |-> FALSE]
        /\ \A s \in Tasks \ {n} : tasks'[s] = tasks[s]
    BY <1>1 DEF Table, Free
  <1>3. tasks' \in Table
    BY <1>1, <1>2 DEF Table, Row, Points
  <1>4. /\ future' \in [Requests -> Tasks \cup {NoTask}] /\ future'[q] = n
        /\ \A p \in Requests \ {q} : future'[p] = future[p]
    BY <1>1
  <1>5. tasks[n].at = "idle"
    BY DEF Free
  <1>6. ASSUME NEW s \in Tasks \ {n}, tasks[s].req = q, tasks[s].at # "idle"
        PROVE  ~AtWork(s) /\ run[q] \in Terminal
    <2>1. ASSUME run[q] \notin Terminal \/ AtWork(s) PROVE FALSE
      <3>1. future[q] = s
        BY <1>1, <1>6, <2>1 DEF TaskInv
      <3>2. tasks[s].at = "done"
        BY <3>1, RunConstants DEF Pending, NoTask, Tasks
      <3> QED BY <1>1, <1>6, <2>1, <3>2 DEF TaskInv, Late, AtWork
    <2> QED BY <2>1
  <1>7. \A s \in Tasks : AtWork(s)' => s # n /\ AtWork(s) /\ tasks'[s] = tasks[s]
    BY <1>2 DEF AtWork, Working
  <1>8. \A s \in Tasks : AtWork(s) => tasks[s].at # "idle"
    BY DEF AtWork, Working
  <1>9. ASSUME NEW s \in Tasks
        PROVE  /\ tasks'[s].at = "idle" => tasks'[s] = Free
               /\ tasks'[s].at # "idle" =>
                    tasks'[s].req \in Requests /\ run'[tasks'[s].req] # "absent"
               /\ tasks'[s].at \in Early => run'[tasks'[s].req] \notin Terminal
               /\ tasks'[s].at \in Late => run'[tasks'[s].req] \in Terminal
               /\ tasks'[s].at # "idle" /\ (run'[tasks'[s].req] \notin Terminal \/ AtWork(s)') =>
                     future'[tasks'[s].req] = s
               /\ AtWork(s)' => \A r \in Tasks : tasks'[r].req = tasks'[s].req => r = s
    <2>1. CASE s = n
      BY <1>2, <1>4, <1>7, <2>1 DEF Early, Late
    <2>2. CASE s # n
      <3>1. /\ tasks[s].at = "idle" => tasks[s] = Free
            /\ tasks[s].at # "idle" => tasks[s].req \in Requests /\ run[tasks[s].req] # "absent"
            /\ tasks[s].at \in Early => run[tasks[s].req] \notin Terminal
            /\ tasks[s].at \in Late => run[tasks[s].req] \in Terminal
            /\ tasks[s].at # "idle" /\ (run[tasks[s].req] \notin Terminal \/ AtWork(s)) =>
                  future[tasks[s].req] = s
        BY <1>1 DEF TaskInv
      <3>2. tasks[s].at # "idle" /\ (run[tasks[s].req] \notin Terminal \/ AtWork(s)) =>
               tasks[s].req # q /\ future'[tasks[s].req] = s
        BY <1>4, <1>6, <2>2, <3>1
      <3>3. ASSUME AtWork(s)', NEW r \in Tasks, tasks'[r].req = tasks'[s].req PROVE r = s
        <4>1. AtWork(s) /\ tasks[s].req # q
          BY <1>7, <1>8, <2>2, <3>2, <3>3
        <4>2. r # n
          BY <1>2, <2>2, <3>3, <4>1
        <4>3. tasks[r].req = tasks[s].req
          BY <1>2, <2>2, <3>3, <4>2
        <4> QED BY <1>1, <4>1, <4>3 DEF TaskInv
      <3> QED BY <1>2, <1>7, <2>2, <3>1, <3>2, <3>3
    <2> QED BY <2>1, <2>2
  <1>10. \A p \in Requests : future'[p] # NoTask =>
            tasks'[future'[p]].req = p /\ tasks'[future'[p]].at # "idle"
    <2>1. ASSUME NEW p \in Requests \ {q}, future[p] # NoTask
          PROVE  /\ future[p] \in Tasks \ {n}
                 /\ tasks[future[p]].req = p /\ tasks[future[p]].at # "idle"
      BY <1>1, <1>5, <2>1 DEF TaskInv
    <2> QED BY <1>2, <1>4, <2>1
  <1>11. TaskInv'
    BY <1>9, <1>10 DEF TaskInv
  <1> QED BY <1>2, <1>3, <1>4, <1>7, <1>11

LEMMA LaunchStep ==
  ASSUME IInv, NEW q \in Requests, run[q] # "absent", Launched(q),
         proc \notin {"down", "telling"},
         loop.at # "append", loop' \in {loop, NoOne}, loop'.at = "idle",
         backlog' \subseteq backlog,
         UNCHANGED <<run, log, session, user, answers, proc, reader, crashes, deletes>>
  PROVE  IInv'
  <1>1. \E n \in Tasks : \/ UNCHANGED <<tasks, future>>
                         \/ /\ tasks' \in Table /\ future' \in [Requests -> Tasks \cup {NoTask}]
                            /\ TaskInv' /\ tasks[n] = Free
                            /\ \A s \in Tasks : AtWork(s)' => tasks'[s] = tasks[s]
                            /\ \A s \in Tasks \ {n} : tasks'[s] = tasks[s]
                            /\ tasks'[n].req = q /\ tasks'[n].at = "pool"
    <2>1. CASE Pending(q)
      <3>1. 1 \in Tasks
        BY RunConstants DEF Tasks
      <3> QED BY <2>1, <3>1 DEF Launched
    <2>2. CASE ~Pending(q)
      <3> DEFINE n == NewTask
      <3>1. n \in Tasks /\ tasks[n] = Free
        BY <2>2 DEF Launched, NewTask
      <3>2. /\ tasks' = [tasks EXCEPT ![n] = [Free EXCEPT !.at = "pool", !.req = q]]
            /\ future' = [future EXCEPT ![q] = n]
        BY <2>2 DEF Launched
      <3> HIDE DEF n
      <3>3. run' = run
        OBVIOUS
      <3>4. /\ tasks' \in Table /\ future' \in [Requests -> Tasks \cup {NoTask}]
            /\ TaskInv'
            /\ \A s \in Tasks : AtWork(s)' => tasks'[s] = tasks[s]
            /\ \A s \in Tasks \ {n} : tasks'[s] = tasks[s]
            /\ tasks'[n].req = q /\ tasks'[n].at = "pool"
        BY <2>2, <3>1, <3>2, <3>3, LaunchedTask
      <3> QED BY <3>1, <3>4
    <2> QED BY <2>1, <2>2
  <1>2. TypeOK'
    BY <1>1 DEF IInv, TypeOK, NoOne, Table, Row
  <1>3. TaskInv'
    <2>1. CASE UNCHANGED <<tasks, future>>
      BY <2>1 DEF IInv, TaskInv, AtWork, Working
    <2> QED BY <1>1, <2>1
  <1>4. LoopInv' /\ WordInv'
    BY DEF IInv, LoopInv, WordInv
  <1>5. \A s \in Tasks : AtWork(s)' => AtWork(s) /\ tasks'[s].req = tasks[s].req
    BY <1>1 DEF AtWork, Working
  <1>6. ReaderInv'
    BY <1>5 DEF IInv, ReaderInv, Sent
  <1>7. \A s \in Tasks : /\ tasks'[s].at \in {"talk", "finish", "fail"} => tasks'[s] = tasks[s]
                         /\ tasks[s].at \in Answered => tasks'[s] = tasks[s]
    BY <1>1 DEF Free, Answered
  <1>8. TurnInv'
    <2>1. \A p \in Requests : Unanswered(p)' => Unanswered(p)
      BY <1>7 DEF Unanswered
    <2>2. \A p \in Requests : \A state : SettledAs(p, state) => SettledAs(p, state)'
      BY DEF SettledAs
    <2>3. \A s \in Tasks : tasks[s].at \in {"finish", "fail"} => tasks[s].req \in Requests
      BY DEF IInv, TaskInv
    <2> QED BY <1>7, <2>1, <2>2, <2>3 DEF IInv, TurnInv
  <1>9. HeardInv'
    BY <1>7 DEF IInv, HeardInv, Appending
  <1> QED BY <1>2, <1>3, <1>4, <1>6, <1>8, <1>9 DEF IInv

LEMMA RecoverLaunchStep == ASSUME IInv, NEW q \in Requests, RecoverLaunch(q) PROVE IInv'
  <1>1. q \in backlog /\ backlog' = backlog \ {q} /\ Launched(q)
    BY DEF RecoverLaunch
  <1>2. UNCHANGED <<run, log, session, user, answers, proc, loop, reader, crashes, deletes>>
    BY DEF RecoverLaunch, store, bounds
  <1>3. run[q] # "absent" /\ loop.at = "idle" /\ proc = "recovering"
    BY <1>1 DEF RecoverLaunch, IInv, LoopInv, TypeOK
  <1> QED BY <1>1, <1>2, <1>3, LaunchStep

LEMMA LaunchSubmittedStep == ASSUME IInv, LaunchSubmitted PROVE IInv'
  <1>1. loop.at = "launch" /\ Launched(loop.req) /\ loop' = NoOne
    BY DEF LaunchSubmitted
  <1>2. UNCHANGED <<run, log, session, user, answers, proc, backlog, reader, crashes, deletes>>
    BY DEF LaunchSubmitted, store, bounds
  <1>3. loop.req \in Requests /\ run[loop.req] # "absent" /\ proc = "up"
    BY <1>1 DEF IInv, LoopInv
  <1> QED BY <1>1, <1>2, <1>3, LaunchStep DEF NoOne

LEMMA ForgetStep == ASSUME IInv, NEW t \in Tasks, Forget(t) PROVE IInv'
  <1> DEFINE q == tasks[t].req
  <1>1. /\ tasks[t].at = "done" /\ future' = [future EXCEPT ![q] = NoTask]
        /\ tasks' = [tasks EXCEPT ![t] = Free]
        /\ UNCHANGED <<run, log, session, user, answers, proc, backlog, loop, reader,
                       crashes, deletes>>
    BY DEF Forget, store, bounds
  <1>2. /\ q \in Requests /\ run[q] \in Terminal
        /\ TaskInv /\ tasks \in Table /\ future \in [Requests -> Tasks \cup {NoTask}]
    BY <1>1, TypeFacts, Place DEF IInv, Late
  <1> HIDE DEF q
  <1>3. /\ tasks'[t] = Free /\ \A s \in Tasks \ {t} : tasks'[s] = tasks[s]
    BY <1>1, <1>2 DEF Table
  <1>4. tasks' \in Table
    BY <1>2, <1>3, <1>1 DEF Table, Row, Free, Points
  <1>5. /\ future' \in [Requests -> Tasks \cup {NoTask}] /\ future'[q] = NoTask
        /\ \A p \in Requests \ {q} : future'[p] = future[p]
    BY <1>1, <1>2
  <1>6. Free.at = "idle" /\ Free.req = NoRequest /\ NoRequest \notin Requests
    BY RunConstants DEF Free
  <1>7. \A s \in Tasks : AtWork(s)' => s # t /\ AtWork(s) /\ tasks'[s] = tasks[s]
    BY <1>3, <1>6 DEF AtWork, Working
  <1>8. TypeOK'
    BY <1>1, <1>4, <1>5 DEF IInv, TypeOK, Table, Row
  <1>9. TaskInv'
    <2>1. ASSUME NEW s \in Tasks
          PROVE  /\ tasks'[s].at = "idle" => tasks'[s] = Free
                 /\ tasks'[s].at # "idle" =>
                      tasks'[s].req \in Requests /\ run'[tasks'[s].req] # "absent"
                 /\ tasks'[s].at \in Early => run'[tasks'[s].req] \notin Terminal
                 /\ tasks'[s].at \in Late => run'[tasks'[s].req] \in Terminal
                 /\ tasks'[s].at # "idle" /\ (run'[tasks'[s].req] \notin Terminal \/ AtWork(s)') =>
                       future'[tasks'[s].req] = s
                 /\ AtWork(s)' => \A r \in Tasks : tasks'[r].req = tasks'[s].req => r = s
      <3>1. CASE s = t
        BY <1>3, <1>6, <1>7, <3>1 DEF Early, Late
      <3>2. CASE s # t
        <4>1. /\ tasks[s].at = "idle" => tasks[s] = Free
              /\ tasks[s].at # "idle" => tasks[s].req \in Requests /\ run[tasks[s].req] # "absent"
              /\ tasks[s].at \in Early => run[tasks[s].req] \notin Terminal
              /\ tasks[s].at \in Late => run[tasks[s].req] \in Terminal
              /\ tasks[s].at # "idle" /\ (run[tasks[s].req] \notin Terminal \/ AtWork(s)) =>
                    future[tasks[s].req] = s
              /\ AtWork(s) => \A r \in Tasks : tasks[r].req = tasks[s].req => r = s
          BY <1>2 DEF TaskInv
        <4>2. ASSUME tasks[s].at # "idle", run[tasks[s].req] \notin Terminal \/ AtWork(s)
              PROVE  tasks[s].req # q
          BY <1>2, <3>2, <4>1, <4>2 DEF q
        <4>3. ASSUME AtWork(s)', NEW r \in Tasks, tasks'[r].req = tasks'[s].req PROVE r = s
          <5>1. AtWork(s) /\ tasks[s].at # "idle" /\ tasks'[s] = tasks[s]
            BY <1>7, <4>3 DEF AtWork, Working
          <5>2. r # t
            BY <1>3, <1>6, <4>1, <4>3, <5>1
          <5> QED BY <1>3, <4>1, <4>3, <5>1, <5>2
        <4> QED BY <1>1, <1>3, <1>5, <1>7, <3>2, <4>1, <4>2, <4>3
      <3> QED BY <3>1, <3>2
    <2>2. ASSUME NEW p \in Requests, future'[p] # NoTask
          PROVE  tasks'[future'[p]].req = p /\ tasks'[future'[p]].at # "idle"
      <3>1. p # q /\ future'[p] = future[p] /\ future[p] \in Tasks
        BY <1>2, <1>5, <2>2
      <3>2. tasks[future[p]].req = p /\ tasks[future[p]].at # "idle"
        BY <1>2, <2>2, <3>1 DEF TaskInv
      <3>3. future[p] # t
        BY <3>1, <3>2 DEF q
      <3> QED BY <1>3, <3>1, <3>2, <3>3
    <2> QED BY <2>1, <2>2 DEF TaskInv
  <1>10. LoopInv' /\ WordInv'
    <2>1. loop.at = "append" => \A s \in Tasks : tasks'[s].req # loop.req
      BY <1>3, <1>6 DEF IInv, LoopInv
    <2> QED BY <1>1, <2>1 DEF IInv, LoopInv, WordInv
  <1>11. ReaderInv'
    BY <1>1, <1>7 DEF IInv, ReaderInv, Sent
  <1>12. \A s \in Tasks : /\ tasks'[s].at \in {"talk", "finish", "fail"} => tasks'[s] = tasks[s]
                          /\ tasks[s].at \in Answered => tasks'[s] = tasks[s]
    BY <1>1, <1>3, <1>6 DEF Answered
  <1>13. TurnInv'
    <2>1. \A p \in Requests : Unanswered(p)' => Unanswered(p)
      BY <1>1, <1>12 DEF Unanswered
    <2>2. \A p \in Requests : \A state : SettledAs(p, state) => SettledAs(p, state)'
      BY <1>1 DEF SettledAs
    <2>3. \A s \in Tasks : tasks[s].at \in {"finish", "fail"} => tasks[s].req \in Requests
      BY <1>2 DEF TaskInv
    <2> QED BY <1>1, <1>12, <2>1, <2>2, <2>3 DEF IInv, TurnInv
  <1>14. HeardInv'
    BY <1>1, <1>12 DEF IInv, HeardInv, Appending
  <1> QED BY <1>8, <1>9, <1>10, <1>11, <1>13, <1>14 DEF IInv
-----------------------------------------------------------------------------
(* The process, the event loop and the streams *)

\* Runs enter the queue or go back to it; executions and streams stand still.
LEMMA StillSound ==
  ASSUME IInv, UNCHANGED <<log, tasks, future, reader>>,
         \A p \in Requests : /\ run[p] # "absent" => run'[p] # "absent"
                             /\ run[p] \in Terminal => run'[p] = run[p]
                             /\ run'[p] \in Terminal => run[p] \in Terminal
  PROVE  /\ TaskInv' /\ WordInv' /\ ReaderInv'
         /\ \A p \in Requests : Unanswered(p)' => Unanswered(p)
  <1>1. \A s \in Tasks : /\ AtWork(s)' <=> AtWork(s)
                         /\ tasks[s].at \in Early \cup Late => tasks[s].at # "idle"
    BY DEF AtWork, Working, Early, Late
  <1>2. TaskInv'
    BY <1>1 DEF IInv, TaskInv
  <1>3. WordInv'
    BY DEF IInv, WordInv
  <1>4. ReaderInv'
    BY <1>1 DEF IInv, ReaderInv, Sent
  <1>5. \A p \in Requests : Unanswered(p)' => Unanswered(p)
    BY DEF Unanswered
  <1> QED BY <1>2, <1>3, <1>4, <1>5

\* The messages of the runs stand still as well.
LEMMA StillSettled ==
  ASSUME IInv, UNCHANGED <<answers, user, tasks, crashes>>,
         \A p \in Requests : /\ run[p] \in Terminal => run'[p] = run[p]
                             /\ run'[p] \in Terminal => run[p] \in Terminal
                             /\ Unanswered(p)' => Unanswered(p)
  PROVE  TurnInv'
  <1>1. \A p \in Requests : \A state : SettledAs(p, state) => SettledAs(p, state)'
    BY DEF SettledAs
  <1>2. \A s \in Tasks : tasks[s].at \in {"finish", "fail"} => tasks[s].req \in Requests
    BY DEF IInv, TaskInv
  <1> QED BY <1>1, <1>2 DEF IInv, TurnInv

LEMMA StartStep == ASSUME IInv, Start PROVE IInv'
  <1>1. /\ TypeOK /\ proc = "down" /\ proc' = "telling"
        /\ run' = [q \in Requests |-> IF run[q] = "running" THEN "queued" ELSE run[q]]
        /\ backlog' = {q \in Requests : run[q] = "running"}
        /\ UNCHANGED <<log, session, user, answers, loop, tasks, future, reader, crashes, deletes>>
    BY DEF Start, IInv, bounds
  <1>2. \A p \in Requests : /\ run[p] # "absent" <=> run'[p] # "absent"
                            /\ run[p] \in Terminal => run'[p] = run[p]
                            /\ run'[p] \in Terminal => run[p] \in Terminal
    BY <1>1 DEF Terminal
  <1>3. TypeOK'
    BY <1>1 DEF TypeOK, RunStates
  <1>4. /\ TaskInv' /\ WordInv' /\ ReaderInv'
        /\ \A p \in Requests : Unanswered(p)' => Unanswered(p)
    BY <1>1, <1>2, StillSound
  <1>5. TurnInv'
    BY <1>1, <1>2, <1>4, StillSettled
  <1>6. LoopInv'
    BY <1>1 DEF IInv, LoopInv
  <1>7. HeardInv'
    BY <1>1, <1>2 DEF IInv, HeardInv, Appending
  <1> QED BY <1>3, <1>4, <1>5, <1>6, <1>7 DEF IInv

\* A run that is told it was interrupted has not ended, so nobody has the end of it.
LEMMA TellRecoveredStep == ASSUME IInv, NEW q \in Requests, TellRecovered(q) PROVE IInv'
  <1>1. /\ TypeOK /\ proc = "telling" /\ q \in backlog /\ backlog' = backlog \ {q}
        /\ log' = [log EXCEPT ![q] = Append(log[q], "run_recovered")]
        /\ UNCHANGED <<run, session, user, answers, proc, loop, tasks, future, reader,
                       crashes, deletes>>
    BY DEF TellRecovered, Record, IInv, bounds
  <1>2. /\ run[q] \notin Terminal /\ log \in [Requests -> Seq(Events)]
        /\ "run_recovered" \in Events \ LastWords
    BY <1>1, TypeFacts DEF IInv, LoopInv, Terminal, Events, LastWords
  <1>3. /\ \A p \in Requests \ {q} : log'[p] = log[p]
        /\ log'[q] = Append(log[q], "run_recovered") /\ log' \in [Requests -> Seq(Events)]
    BY <1>1, <1>2
  <1>4. TypeOK'
    BY <1>1, <1>3 DEF TypeOK
  <1>5. TaskInv'
    BY <1>1 DEF IInv, TaskInv, AtWork, Working
  <1>6. LoopInv'
    BY <1>1 DEF IInv, LoopInv
  <1>7. WordInv'
    <2>1. \A i \in DOMAIN log'[q] : log'[q][i] \notin LastWords
      BY <1>2, <1>3, OneMore DEF IInv, WordInv
    <2> QED BY <1>1, <1>2, <1>3, <2>1 DEF IInv, WordInv
  <1>8. ReaderInv'
    BY <1>1, <1>2, <1>3 DEF IInv, ReaderInv, Sent, AtWork, Working
  <1>9. TurnInv'
    BY <1>1, StillSettled DEF Unanswered
  <1>10. HeardInv'
    BY <1>1 DEF IInv, HeardInv, Appending
  <1> QED BY <1>4, <1>5, <1>6, <1>7, <1>8, <1>9, <1>10 DEF IInv

LEMMA ListQueuedStep == ASSUME IInv, ListQueued PROVE IInv'
  <1>1. /\ TypeOK /\ proc = "telling" /\ proc' = "recovering"
        /\ backlog' \subseteq {q \in Requests : run[q] = "queued"}
        /\ UNCHANGED <<run, log, session, user, answers, loop, tasks, future, reader,
                       crashes, deletes>>
    BY DEF ListQueued, IInv, store, bounds
  <1>2. TypeOK' /\ LoopInv'
    BY <1>1 DEF IInv, TypeOK, LoopInv
  <1>3. HeardInv'
    BY <1>1 DEF IInv, HeardInv, Appending
  <1>4. /\ TaskInv' /\ WordInv' /\ ReaderInv'
        /\ \A p \in Requests : Unanswered(p)' => Unanswered(p)
    BY <1>1, StillSound
  <1>5. TurnInv'
    BY <1>1, <1>4, StillSettled
  <1> QED BY <1>2, <1>3, <1>4, <1>5 DEF IInv

LEMMA ServeStep == ASSUME IInv, Serve PROVE IInv'
  <1>1. /\ TypeOK /\ proc = "recovering" /\ backlog = {} /\ proc' = "up"
        /\ UNCHANGED <<run, log, session, user, answers, backlog, loop, tasks, future, reader,
                       crashes, deletes>>
    BY DEF Serve, IInv, store, bounds
  <1>2. TypeOK' /\ LoopInv' /\ HeardInv'
    BY <1>1 DEF IInv, TypeOK, LoopInv, HeardInv, Appending
  <1>3. /\ TaskInv' /\ WordInv' /\ ReaderInv'
        /\ \A p \in Requests : Unanswered(p)' => Unanswered(p)
    BY <1>1, StillSound
  <1>4. TurnInv'
    BY <1>1, <1>3, StillSettled
  <1> QED BY <1>2, <1>3, <1>4 DEF IInv

LEMMA CrashStep == ASSUME IInv, Crash PROVE IInv'
  <1>1. /\ TypeOK /\ crashes < MaxCrashes /\ crashes' = crashes + 1
        /\ proc' = "down" /\ backlog' = {} /\ loop' = NoOne
        /\ tasks' = [t \in Tasks |-> Free] /\ future' = [q \in Requests |-> NoTask]
        /\ reader' = [q \in Requests |->
               IF reader[q].at = "ended" THEN reader[q]
               ELSE [Silent EXCEPT !.cursor = reader[q].cursor]]
        /\ UNCHANGED <<run, log, session, user, answers, deletes>>
    BY DEF Crash, IInv, store
  <1>2. crashes \in Nat /\ deletes \in Nat /\ MaxCrashes \in Nat
    BY <1>1, TypeFacts, RunConstants
  <1>3. crashes' \in 0 .. MaxCrashes
    BY <1>1, <1>2
  <1>4. Free \in [at : Points, req : Requests \cup {NoRequest}, heard : BOOLEAN]
    BY DEF Free, Points
  <1>5. reader' \in [Requests -> [at : {"off", "list", "check", "wait", "last", "ended"},
                                  cursor : Nat, fresh : BOOLEAN]]
    BY <1>1 DEF TypeOK, Silent
  <1>6. TypeOK'
    BY <1>1, <1>3, <1>4, <1>5 DEF TypeOK, NoOne
  <1>7. \A t \in Tasks : tasks'[t].at = "idle" /\ tasks'[t] = Free /\ ~AtWork(t)'
    BY <1>1 DEF Free, AtWork, Working
  <1>8. TaskInv'
    BY <1>1, <1>7 DEF TaskInv, Early, Late
  <1>9. LoopInv' /\ WordInv'
    BY <1>1, <1>7 DEF IInv, LoopInv, WordInv, NoOne
  <1>10. ReaderInv'
    <2>1. \A q \in Requests : reader'[q].at \in {"wait", "last", "ended"} =>
             reader[q].at = "ended" /\ reader'[q] = reader[q]
      BY <1>1 DEF Silent
    <2> QED BY <1>1, <1>7, <2>1 DEF IInv, ReaderInv, Sent
  <1>11. TurnInv'
    <2>1. \A p \in Requests : Len(answers[p]) \in Nat
      BY <1>1, TypeFacts
    <2>2. \A p \in Requests : Len(answers'[p]) <= crashes' /\ Len(answers'[p]) <= crashes' + 1
      BY <1>1, <1>2, <2>1 DEF IInv, TurnInv
    <2> QED BY <1>1, <1>7, <2>2 DEF IInv, TurnInv, SettledAs
  <1>12. HeardInv'
    <2>1. crashes' + deletes' # 0
      BY <1>1, <1>2
    <2> QED BY <2>1 DEF HeardInv
  <1> QED BY <1>6, <1>8, <1>9, <1>10, <1>11, <1>12 DEF IInv

LEMMA SubmitStep == ASSUME IInv, NEW q \in Requests, Submit(q) PROVE IInv'
  <1>1. /\ TypeOK /\ proc = "up" /\ loop.at = "idle"
        /\ UNCHANGED <<log, user, answers, proc, backlog, tasks, future, reader, crashes, deletes>>
    BY DEF Submit, IInv, bounds
  <1>2. CASE run[q] = "absent"
    <2>1. /\ run' = [run EXCEPT ![q] = "queued"]
          /\ session' = [session EXCEPT ![q] = TRUE]
          /\ loop' = [at |-> "append", req |-> q]
      BY <1>2 DEF Submit
    <2>2. TypeOK'
      BY <1>1, <2>1 DEF TypeOK, RunStates
    <2>3. \A p \in Requests : /\ run'[p] = IF p = q THEN "queued" ELSE run[p]
                              /\ session'[p] = IF p = q THEN TRUE ELSE session[p]
      BY <1>1, <2>1 DEF TypeOK
    <2>4. \A p \in Requests : /\ run[p] # "absent" => run'[p] # "absent"
                              /\ run[p] \in Terminal => run'[p] = run[p]
                              /\ run'[p] \in Terminal => run[p] \in Terminal
      BY <1>2, <2>3 DEF Terminal
    <2>5. /\ TaskInv' /\ WordInv' /\ ReaderInv'
          /\ \A p \in Requests : Unanswered(p)' => Unanswered(p)
      BY <1>1, <2>4, StillSound
    <2>6. TurnInv'
      BY <1>1, <2>4, <2>5, StillSettled
    <2>7. LoopInv'
      <3>1. \A t \in Tasks : tasks[t].req # q
        BY <1>2, RunConstants DEF IInv, TaskInv, Free
      <3>2. backlog' = {} /\ proc' = "up" /\ run'[q] = "queued" /\ loop'.req = q
        BY <1>1, <2>1, <2>3 DEF IInv, LoopInv
      <3> QED BY <1>1, <3>1, <3>2 DEF LoopInv
    <2>8. HeardInv'
      BY <1>1, <2>1, <2>3 DEF IInv, HeardInv, Appending
    <2> QED BY <2>2, <2>5, <2>6, <2>7, <2>8 DEF IInv
  <1>3. CASE run[q] # "absent"
    <2>1. loop' = [at |-> "launch", req |-> q] /\ UNCHANGED <<run, session>>
      BY <1>3 DEF Submit
    <2>2. TypeOK' /\ LoopInv' /\ HeardInv'
      BY <1>1, <1>3, <2>1 DEF IInv, TypeOK, LoopInv, HeardInv, Appending
    <2>3. /\ TaskInv' /\ WordInv' /\ ReaderInv'
          /\ \A p \in Requests : Unanswered(p)' => Unanswered(p)
      BY <1>1, <2>1, StillSound
    <2>4. TurnInv'
      BY <1>1, <2>1, <2>3, StillSettled
    <2> QED BY <2>2, <2>3, <2>4 DEF IInv
  <1> QED BY <1>2, <1>3

LEMMA AppendUserStep == ASSUME IInv, AppendUser PROVE IInv'
  <1> DEFINE q == loop.req
  <1>1. /\ TypeOK /\ loop.at = "append"
        /\ UNCHANGED <<run, log, session, answers, proc, backlog, tasks, future, reader,
                       crashes, deletes>>
    BY DEF AppendUser, IInv, bounds
  <1>2. /\ q \in Requests /\ run[q] = "queued" /\ proc = "up"
        /\ \A t \in Tasks : tasks[t].req # q
    BY <1>1 DEF IInv, LoopInv
  <1>3. \/ /\ session[q] /\ user' = [user EXCEPT ![q] = "running"]
           /\ loop' = [loop EXCEPT !.at = "launch"]
        \/ ~session[q] /\ loop' = NoOne /\ user' = user
    BY DEF AppendUser
  <1> HIDE DEF q
  <1>4. /\ \A p \in Requests \ {q} : user'[p] = user[p]
        /\ user' \in [Requests -> TurnStates \cup {"none"}]
        /\ \A p \in Requests : user[p] # "none" => user'[p] # "none"
        /\ session[q] => user'[q] # "none"
    BY <1>1, <1>2, <1>3 DEF TypeOK, TurnStates
  <1>5. loop' \in [at : {"idle", "launch"}, req : Requests \cup {NoRequest}]
        /\ (loop'.at = "launch" => loop'.req = q)
    BY <1>1, <1>3 DEF TypeOK, NoOne, q
  <1>6. TypeOK'
    BY <1>1, <1>4, <1>5 DEF TypeOK
  <1>7. /\ TaskInv' /\ WordInv' /\ ReaderInv'
        /\ \A p \in Requests : Unanswered(p)' => Unanswered(p)
    BY <1>1, StillSound
  <1>8. LoopInv'
    BY <1>1, <1>2, <1>5 DEF IInv, LoopInv
  <1>9. TurnInv'
    <2>1. \A p \in Requests \ {q} : \A state : SettledAs(p, state) => SettledAs(p, state)'
      BY <1>1, <1>4 DEF SettledAs
    <2>2. run[q] \notin Terminal
      BY <1>2 DEF Terminal
    <2>3. \A s \in Tasks : tasks[s].at \in {"finish", "fail"} => tasks[s].req \in Requests \ {q}
      BY <1>2 DEF IInv, TaskInv
    <2> QED BY <1>1, <1>7, <2>1, <2>2, <2>3 DEF IInv, TurnInv
  <1>10. HeardInv'
    <2> SUFFICES ASSUME crashes + deletes = 0
                 PROVE  /\ backlog' = {}
                        /\ proc' \in {"down", "telling"} => \A p \in Requests : run'[p] = "absent"
                        /\ \A p \in Requests : run'[p] # "absent" =>
                              session'[p] /\ (user'[p] # "none" \/ Appending(p)')
                        /\ \A s \in Tasks : tasks'[s].at = "talk" => tasks'[s].heard
      BY <1>1 DEF HeardInv
    <2>1. /\ backlog = {} /\ \A s \in Tasks : tasks[s].at = "talk" => tasks[s].heard
          /\ \A p \in Requests : run[p] # "absent" =>
                session[p] /\ (user[p] # "none" \/ p = q)
      BY DEF IInv, HeardInv, Appending, q
    <2> QED BY <1>1, <1>2, <1>4, <2>1
  <1> QED BY <1>6, <1>7, <1>8, <1>9, <1>10 DEF IInv

LEMMA DeleteSessionStep == ASSUME IInv, NEW q \in Requests, DeleteSession(q) PROVE IInv'
  <1>1. /\ TypeOK /\ deletes < MaxDeletes /\ deletes' = deletes + 1
        /\ session' = [session EXCEPT ![q] = FALSE]
        /\ user' = [user EXCEPT ![q] = "none"]
        /\ answers' = [answers EXCEPT ![q] = << >>]
        /\ UNCHANGED <<run, log, proc, backlog, loop, tasks, future, reader, crashes>>
    BY DEF DeleteSession, IInv, memory
  <1>2. deletes \in Nat /\ crashes \in Nat /\ MaxDeletes \in Nat
    BY <1>1, TypeFacts, RunConstants
  <1>3. deletes' \in 0 .. MaxDeletes
    BY <1>1, <1>2
  <1>4. << >> \in Seq(TurnStates) /\ Len(<< >>) = 0 /\ DOMAIN << >> = {}
    OBVIOUS
  <1>5. /\ user'[q] = "none" /\ answers'[q] = << >>
        /\ \A p \in Requests \ {q} : user'[p] = user[p] /\ answers'[p] = answers[p]
        /\ answers' \in [Requests -> Seq(TurnStates)]
        /\ user' \in [Requests -> TurnStates \cup {"none"}]
    BY <1>1, <1>4 DEF TypeOK
  <1>6. TypeOK'
    BY <1>1, <1>3, <1>5 DEF TypeOK
  <1>7. /\ TaskInv' /\ WordInv' /\ ReaderInv'
        /\ \A p \in Requests : Unanswered(p)' => Unanswered(p)
    BY <1>1, StillSound
  <1>8. LoopInv'
    BY <1>1 DEF IInv, LoopInv
  <1>9. TurnInv'
    <2>1. \A p \in Requests : \A state : SettledAs(p, state) => SettledAs(p, state)'
      BY <1>4, <1>5 DEF SettledAs
    <2>2. \A s \in Tasks : tasks[s].at \in {"finish", "fail"} => tasks[s].req \in Requests
      BY DEF IInv, TaskInv
    <2>3. Len(answers'[q]) = 0 /\ 0 <= crashes /\ 0 <= crashes + 1
      BY <1>2, <1>4, <1>5
    <2>4. ASSUME NEW p \in Requests
          PROVE  /\ Len(answers'[p]) <= crashes + 1
                 /\ Unanswered(p)' => Len(answers'[p]) <= crashes
                 /\ run'[p] \in Terminal => SettledAs(p, TurnOf(run[p]))'
      <3>1. /\ Len(answers[p]) <= crashes + 1
            /\ Unanswered(p) => Len(answers[p]) <= crashes
            /\ run[p] \in Terminal => SettledAs(p, TurnOf(run[p]))
        BY DEF IInv, TurnInv
      <3>2. CASE p = q
        BY <1>1, <2>1, <2>3, <3>1, <3>2
      <3>3. CASE p # q
        BY <1>1, <1>5, <1>7, <2>1, <3>1, <3>3
      <3> QED BY <3>2, <3>3
    <2>5. ASSUME NEW s \in Tasks
          PROVE  /\ tasks[s].at = "finish" => SettledAs(tasks[s].req, "committed")'
                 /\ tasks[s].at = "fail" => SettledAs(tasks[s].req, "failed")'
      BY <1>1, <2>1, <2>2 DEF IInv, TurnInv
    <2> QED BY <1>1, <2>4, <2>5 DEF TurnInv
  <1>10. HeardInv'
    <2>1. crashes' + deletes' # 0
      BY <1>1, <1>2
    <2> QED BY <2>1 DEF HeardInv
  <1> QED BY <1>6, <1>7, <1>8, <1>9, <1>10 DEF IInv

\* A stream looks, waits or ends.
LEMMA StreamStep ==
  ASSUME IInv, NEW q \in Requests,
         UNCHANGED <<run, log, session, user, answers, proc, backlog, loop, tasks, future,
                     crashes, deletes>>,
         NEW new \in [at : {"off", "list", "check", "wait", "last", "ended"},
                      cursor : Nat, fresh : BOOLEAN],
         reader' = [reader EXCEPT ![q] = new],
         new.at \in {"wait", "last", "ended"} =>
            /\ run[q] \in Terminal
            /\ \A i \in DOMAIN log[q] : log[q][i] \in LastWords => i <= new.cursor,
         new.at \in {"last", "ended"} => \A t \in Tasks : tasks[t].req = q => ~AtWork(t)
  PROVE  IInv'
  <1>1. TypeOK' /\ \A p \in Requests : reader'[p] = IF p = q THEN new ELSE reader[p]
    BY DEF IInv, TypeOK
  <1>2. ReaderInv'
    <2> SUFFICES ASSUME NEW p \in Requests
                 PROVE  /\ reader'[p].at \in {"wait", "last", "ended"} =>
                              run'[p] \in Terminal /\ Sent(p)'
                        /\ reader'[p].at \in {"last", "ended"} =>
                              \A s \in Tasks : tasks'[s].req = p => ~AtWork(s)'
      BY DEF ReaderInv
    <2>1. CASE p = q
      BY <1>1, <2>1 DEF Sent, AtWork, Working
    <2>2. CASE p # q
      BY <1>1, <2>2 DEF IInv, ReaderInv, Sent, AtWork, Working
    <2> QED BY <2>1, <2>2
  <1>3. TaskInv' /\ LoopInv' /\ WordInv'
    BY DEF IInv, TaskInv, AtWork, Working, LoopInv, WordInv
  <1>4. TurnInv' /\ HeardInv'
    BY DEF IInv, TurnInv, Unanswered, SettledAs, HeardInv, Appending
  <1> QED BY <1>1, <1>2, <1>3, <1>4 DEF IInv

LEMMA Gone ==
  ASSUME TypeOK, NEW q \in Requests, NEW from, NEW to, Go(q, from, to)
  PROVE  reader[q].at = from /\ reader' = [reader EXCEPT ![q] = [reader[q] EXCEPT !.at = to]]
  BY DEF Go

LEMMA ReaderStep ==
  ASSUME IInv, NEW q \in Requests, Connect(q) \/ Stream(q) \/ WaitTimesOut(q)
  PROVE  IInv'
  <1>1. /\ TypeOK
        /\ UNCHANGED <<run, log, session, user, answers, proc, backlog, loop, tasks, future,
                       crashes, deletes>>
    BY DEF Connect, Stream, ListEvents, Check, Wait, LastLook, WaitTimesOut,
           IInv, store, memory, bounds
  <1>2. reader[q] \in [at : {"off", "list", "check", "wait", "last", "ended"},
                       cursor : Nat, fresh : BOOLEAN]
    BY <1>1 DEF TypeOK
  <1>3. CASE Connect(q)
    <2>1. reader' = [reader EXCEPT ![q] = [reader[q] EXCEPT !.at = "list"]]
      BY <1>3 DEF Connect, Go
    <2> QED BY <1>1, <1>2, <2>1, StreamStep
  <1>4. CASE ListEvents(q)
    <2> DEFINE new == [at |-> "check", cursor |-> Len(log[q]),
                       fresh |-> Len(log[q]) > reader[q].cursor]
    <2>1. reader' = [reader EXCEPT ![q] = new]
      BY <1>4 DEF ListEvents
    <2>2. Len(log[q]) \in Nat
      BY <1>1, TypeFacts
    <2>3. /\ new \in [at : {"off", "list", "check", "wait", "last", "ended"},
                      cursor : Nat, fresh : BOOLEAN]
          /\ new.at = "check"
      BY <2>2
    <2> HIDE DEF new
    <2> QED BY <1>1, <2>1, <2>3, StreamStep
  <1>5. CASE Check(q)
    <2> DEFINE seen == /\ run[q] \in Terminal
                       /\ ~reader[q].fresh
                       /\ \A i \in DOMAIN log[q] : log[q][i] \in LastWords => i <= reader[q].cursor
    <2>1. reader' = [reader EXCEPT ![q] = [reader[q] EXCEPT !.at = IF seen THEN "wait" ELSE "list"]]
      BY <1>5 DEF Check, Go
    <2>2. CASE seen
      <3>1. reader' = [reader EXCEPT ![q] = [reader[q] EXCEPT !.at = "wait"]]
        BY <2>1, <2>2
      <3> QED BY <1>1, <1>2, <2>2, <3>1, StreamStep
    <2>3. CASE ~seen
      <3>1. reader' = [reader EXCEPT ![q] = [reader[q] EXCEPT !.at = "list"]]
        BY <2>1, <2>3
      <3> HIDE DEF seen
      <3> QED BY <1>1, <1>2, <3>1, StreamStep
    <2> QED BY <2>2, <2>3
  <1>6. CASE Wait(q)
    <2>1. /\ ~Pending(q) /\ reader[q].at = "wait"
          /\ reader' = [reader EXCEPT ![q] = [reader[q] EXCEPT !.at = "last"]]
      BY <1>6 DEF Wait, Go
    <2>2. run[q] \in Terminal /\ Sent(q)
      BY <2>1 DEF IInv, ReaderInv
    <2>3. ASSUME NEW t \in Tasks, tasks[t].req = q, AtWork(t) PROVE FALSE
      <3>1. future[q] = t
        BY <2>3 DEF IInv, TaskInv, AtWork, Working
      <3> QED BY <2>1, <2>3, <3>1, RunConstants DEF Pending, NoTask, Tasks, AtWork
    <2> QED BY <1>1, <1>2, <2>1, <2>2, <2>3, StreamStep DEF Sent
  <1>7. CASE LastLook(q)
    <2>1. PICK to \in {"list", "ended"} :
             /\ reader[q].at = "last"
             /\ reader' = [reader EXCEPT ![q] = [reader[q] EXCEPT !.at = to]]
      BY <1>7 DEF LastLook, Go
    <2>2. /\ run[q] \in Terminal /\ Sent(q)
          /\ \A t \in Tasks : tasks[t].req = q => ~AtWork(t)
      BY <2>1 DEF IInv, ReaderInv
    <2> QED BY <1>1, <1>2, <2>1, <2>2, StreamStep DEF Sent
  <1>8. CASE WaitTimesOut(q)
    <2>1. reader' = [reader EXCEPT ![q] = [reader[q] EXCEPT !.at = "off"]]
      BY <1>8 DEF WaitTimesOut, Go
    <2> QED BY <1>1, <1>2, <2>1, StreamStep
  <1> QED BY <1>3, <1>4, <1>5, <1>6, <1>7, <1>8 DEF Stream
-----------------------------------------------------------------------------
(* The theorems *)

LEMMA InitInv == Init => IInv
  <1> SUFFICES ASSUME Init PROVE IInv
    OBVIOUS
  <1>1. TypeOK
    <2>1. << >> \in Seq(Events) /\ << >> \in Seq(TurnStates)
      OBVIOUS
    <2> QED BY <2>1, RunConstants
            DEF Init, TypeOK, RunStates, NoOne, Free, Points, Silent
  <1>2. TaskInv /\ LoopInv
    BY DEF Init, TaskInv, LoopInv, Free, AtWork, Working, Early, Late, NoOne
  <1>3. WordInv /\ ReaderInv
    BY DEF Init, WordInv, ReaderInv, Silent, Terminal
  <1>4. TurnInv
    <2>1. \A q \in Requests : answers[q] = << >> /\ run[q] \notin Terminal
      BY DEF Init, Terminal
    <2>2. crashes = 0 /\ Len(<< >>) = 0
      BY DEF Init
    <2>3. \A t \in Tasks : tasks[t].at = "idle"
      BY DEF Init, Free
    <2> QED BY <2>1, <2>2, <2>3 DEF TurnInv
  <1>5. HeardInv
    BY DEF Init, HeardInv, Free
  <1> QED BY <1>1, <1>2, <1>3, <1>4, <1>5 DEF IInv

LEMMA ExecuteStep == ASSUME IInv, NEW t \in Tasks, Execute(t) PROVE IInv'
  <1>1. CASE CommitTurn(t)
    <2>1. /\ Move(t, "commit", "finish") /\ SetTurn(tasks[t].req, "committed")
          /\ UNCHANGED <<run, log, session, proc, backlog, loop, future, reader, crashes, deletes>>
      BY <1>1 DEF CommitTurn, bounds
    <2> QED BY <2>1, SettleStep
  <1>2. CASE FailTurn(t)
    <2>1. /\ Move(t, "failing", "fail") /\ SetTurn(tasks[t].req, "failed")
          /\ UNCHANGED <<run, log, session, proc, backlog, loop, future, reader, crashes, deletes>>
      BY <1>2 DEF FailTurn, bounds
    <2> QED BY <2>1, SettleStep
  <1>3. CASE Finish(t)
    <2>1. /\ Move(t, "finish", "close") /\ run' = [run EXCEPT ![tasks[t].req] = "completed"]
          /\ Record(tasks[t].req, "final")
          /\ UNCHANGED <<session, user, answers, proc, backlog, loop, future, reader,
                         crashes, deletes>>
      BY <1>3 DEF Finish, bounds
    <2> QED BY <2>1, EndStep DEF Terminal, LastWords
  <1>4. CASE FailRun(t)
    <2>1. /\ Move(t, "fail", "close") /\ run' = [run EXCEPT ![tasks[t].req] = "failed"]
          /\ Record(tasks[t].req, "error")
          /\ UNCHANGED <<session, user, answers, proc, backlog, loop, future, reader,
                         crashes, deletes>>
      BY <1>4 DEF FailRun, bounds
    <2> QED BY <2>1, EndStep DEF Terminal, LastWords
  <1> QED BY <1>1, <1>2, <1>3, <1>4, BeginStep, MarkRunningStep, AnnounceStep, OpenTurnStep,
             DeltaStep, AnswerStep, TurnRaisesStep, CloseEvolutionStep, ForgetStep DEF Execute

LEMMA NextInv == IInv /\ [Next]_vars => IInv'
  <1> SUFFICES ASSUME IInv, [Next]_vars PROVE IInv'
    OBVIOUS
  <1>1. CASE Next
    BY <1>1, StartStep, TellRecoveredStep, ListQueuedStep, ServeStep, CrashStep,
       RecoverLaunchStep, LaunchSubmittedStep, SubmitStep, AppendUserStep, DeleteSessionStep,
       ReaderStep, ExecuteStep DEF Next, Startup, Recover
  <1>2. CASE UNCHANGED vars
    <2>1. UNCHANGED <<run, log, session, user, answers, proc, backlog, loop, tasks, future,
                      reader, crashes, deletes>>
      BY <1>2 DEF vars
    <2>2. TypeOK' /\ LoopInv' /\ HeardInv'
      BY <2>1 DEF IInv, TypeOK, LoopInv, HeardInv, Appending
    <2>3. /\ TaskInv' /\ WordInv' /\ ReaderInv'
          /\ \A p \in Requests : Unanswered(p)' => Unanswered(p)
      BY <2>1, StillSound
    <2>4. TurnInv'
      BY <2>1, <2>3, StillSettled
    <2> QED BY <2>2, <2>3, <2>4 DEF IInv
  <1> QED BY <1>1, <1>2

\* Every state of the run manager satisfies the inductive invariant.
THEOREM Invariance == Spec => []IInv
  BY InitInv, NextInv, PTL DEF Spec

\* The state has the types of the rows, futures and streams.
THEOREM TypeCorrect == Spec => []TypeOK
  <1>1. IInv => TypeOK
    BY DEF IInv
  <1> QED BY <1>1, Invariance, PTL

\* Whatever is repeated, recovered, forgotten or deleted, at most one execution
\* is at work on a run; without an exit or a deletion it has seen its message.
THEOREM ExecutionSound == Spec => []SoundExecution
  <1>1. IInv => SoundExecution
    <2> SUFFICES ASSUME IInv PROVE SoundExecution
      OBVIOUS
    <2>1. \A s, t \in Tasks : AtWork(s) /\ AtWork(t) /\ tasks[s].req = tasks[t].req => s = t
      BY DEF IInv, TaskInv
    <2>2. crashes + deletes = 0 \/ crashes + deletes > 0
      BY TypeFacts DEF IInv
    <2> QED BY <2>1, <2>2 DEF IInv, HeardInv, SoundExecution
  <1> QED BY <1>1, Invariance, PTL

\* The messages of an ended run are settled the way it ended, and it has at most
\* one answer more than the process has exited.
THEOREM MessagesSettled == Spec => []MessagesFollowRun
  <1>1. IInv => MessagesFollowRun
    BY DEF IInv, TurnInv, SettledAs, MessagesFollowRun
  <1> QED BY <1>1, Invariance, PTL

\* A stream that waits or has closed has sent the last words of the run.
THEOREM EndStreamed == Spec => []StreamSawTheEnd
  <1>1. IInv => StreamSawTheEnd
    <2> SUFFICES ASSUME IInv, NEW q \in Requests, reader[q].at \in {"wait", "ended"}
                 PROVE  /\ \E i \in 1 .. reader[q].cursor : log[q][i] \in LastWords
                        /\ \A i \in DOMAIN log[q] : log[q][i] \in LastWords =>
                              i <= reader[q].cursor
      BY DEF StreamSawTheEnd
    <2>1. run[q] \in Terminal /\ Sent(q)
      BY DEF IInv, ReaderInv
    <2>2. PICK i \in DOMAIN log[q] : log[q][i] \in LastWords
      BY <2>1 DEF IInv, WordInv
    <2>3. i \in Nat /\ i >= 1 /\ reader[q].cursor \in Nat
      BY <2>2, TypeFacts DEF IInv, TypeOK
    <2>4. i \in 1 .. reader[q].cursor
      BY <2>1, <2>2, <2>3 DEF Sent
    <2> QED BY <2>1, <2>2, <2>4 DEF Sent
  <1> QED BY <1>1, Invariance, PTL

\* Only an execution at work records, and none is when a stream has closed.
LEMMA StepEnds ==
  ASSUME IInv, [Next]_vars, NEW q \in Requests
  PROVE  /\ run[q] \in Terminal => run'[q] = run[q]
         /\ reader[q].at = "ended" => log'[q] = log[q]
  <1>1. run \in [Requests -> RunStates] /\ log \in [Requests -> Seq(Events)]
    BY TypeFacts DEF IInv
  <1>2. CASE \E t \in Tasks : MarkRunning(t) \/ Finish(t) \/ FailRun(t)
    <2>1. PICK t \in Tasks : MarkRunning(t) \/ Finish(t) \/ FailRun(t)
      BY <1>2
    <2>2. tasks[t].at \in {"mark", "finish", "fail"}
      BY <2>1 DEF MarkRunning, Finish, FailRun, Move
    <2>3. tasks[t].req \in Requests /\ run[tasks[t].req] \notin Terminal
      BY <2>2 DEF IInv, TaskInv, Early
    <2>4. reader[q].at = "ended" => run[q] \in Terminal
      BY DEF IInv, ReaderInv
    <2>5. tasks[t].req # q => run'[q] = run[q] /\ log'[q] = log[q]
      BY <1>1, <2>1, <2>3 DEF MarkRunning, Finish, FailRun, Record
    <2> QED BY <2>3, <2>4, <2>5
  <1>3. CASE \E t \in Tasks : Announce(t) \/ Delta(t) \/ CloseEvolution(t)
    <2>1. PICK t \in Tasks : Announce(t) \/ Delta(t) \/ CloseEvolution(t)
      BY <1>3
    <2>2. AtWork(t) /\ run' = run
      BY <2>1 DEF Announce, Delta, CloseEvolution, Move, AtWork, Working
    <2>3. tasks[t].req \in Requests
      BY <2>2 DEF IInv, TaskInv, AtWork, Working
    <2>4. reader[q].at = "ended" => tasks[t].req # q
      BY <2>2 DEF IInv, ReaderInv
    <2>5. tasks[t].req # q => log'[q] = log[q]
      BY <1>1, <2>1, <2>3 DEF Announce, Delta, CloseEvolution, Record
    <2> QED BY <2>2, <2>4, <2>5
  <1>4. CASE Start \/ \E p \in Requests : Submit(p)
    <2>1. log' = log
      BY <1>4 DEF Start, Submit
    <2>2. run[q] \in Terminal => run'[q] = run[q]
      BY <1>1, <1>4 DEF Start, Submit, Terminal
    <2> QED BY <2>1, <2>2
  <1>5. CASE \E p \in Requests : TellRecovered(p)
    <2>1. PICK p \in Requests : TellRecovered(p)
      BY <1>5
    <2>2. run[p] \notin Terminal /\ run' = run
      BY <2>1 DEF TellRecovered, IInv, LoopInv, Terminal
    <2>3. reader[q].at = "ended" => p # q
      BY <2>2 DEF IInv, ReaderInv
    <2>4. p # q => log'[q] = log[q]
      BY <1>1, <2>1 DEF TellRecovered, Record
    <2> QED BY <2>2, <2>3, <2>4
  <1>6. CASE UNCHANGED <<run, log>>
    BY <1>6
  <1>7. \/ \E t \in Tasks : MarkRunning(t) \/ Finish(t) \/ FailRun(t)
        \/ \E t \in Tasks : Announce(t) \/ Delta(t) \/ CloseEvolution(t)
        \/ Start \/ \E p \in Requests : Submit(p)
        \/ \E p \in Requests : TellRecovered(p)
        \/ UNCHANGED <<run, log>>
    <2>1. ASSUME NEW t \in Tasks, Execute(t)
          PROVE  \/ MarkRunning(t) \/ Finish(t) \/ FailRun(t)
                 \/ Announce(t) \/ Delta(t) \/ CloseEvolution(t)
                 \/ UNCHANGED <<run, log>>
      BY <2>1 DEF Execute, Begin, OpenTurn, Answer, CommitTurn, TurnRaises, FailTurn, Forget, store
    <2>2. ASSUME \/ ListQueued \/ Serve \/ \E p \in Requests : RecoverLaunch(p)
                 \/ Crash \/ AppendUser \/ LaunchSubmitted
                 \/ \E p \in Requests : DeleteSession(p) \/ Connect(p) \/ Stream(p) \/ WaitTimesOut(p)
          PROVE  UNCHANGED <<run, log>>
      BY <2>2 DEF ListQueued, Serve, RecoverLaunch, Crash, AppendUser, LaunchSubmitted, DeleteSession,
                  Connect, Stream, ListEvents, Check, Wait, LastLook, WaitTimesOut, store
    <2> QED BY <2>1, <2>2 DEF Next, Startup, Recover, vars
  <1> QED BY <1>2, <1>3, <1>4, <1>5, <1>6, <1>7

\* A run that has ended stays as it is, and a closed stream has missed nothing.
THEOREM EndsStay == Spec => EndsAreFinal
  <1>1. IInv /\ [Next]_vars =>
           [\A q \in Requests : /\ run[q] \in Terminal => run'[q] = run[q]
                                /\ reader[q].at = "ended" => log'[q] = log[q]]_vars
    BY StepEnds
  <1> QED BY <1>1, Invariance, PTL DEF Spec, EndsAreFinal

-----------------------------------------------------------------------------
(* The logs, as the readers of a stream may expect them *)

Named(q) == \E i \in DOMAIN log[q] : log[q][i] = "run_started"

\* Nothing but a recovery is recorded before the run is named, and whoever talks,
\* or takes up what an earlier execution has said, has a name in the log.
Introduced == {"reset", "open", "talk", "commit", "finish", "failing", "fail"}
NamedInv ==
    /\ \A q \in Requests : \A i \in DOMAIN log[q] :
          log[q][i] \in {"run_recovered", "run_started"} \/ Named(q)
    /\ \A t \in Tasks : tasks[t].at \in Introduced => Named(tasks[t].req)

\* What a step does to the log of a run.
Grows(q) == \/ log'[q] = log[q]
            \/ \E e \in Events :
                 /\ log'[q] = Append(log[q], e)
                 /\ e \in {"run_recovered", "run_started"} \/ Named(q)

\* The events of q stay and one may follow them.
LEMMA Grown ==
  ASSUME TypeOK, NEW q \in Requests, Grows(q)
  PROVE  /\ DOMAIN log[q] \subseteq DOMAIN log'[q]
         /\ \A i \in DOMAIN log[q] : log'[q][i] = log[q][i]
         /\ Named(q) => Named(q)'
         /\ \A i \in DOMAIN log'[q] : \/ i \in DOMAIN log[q]
                                      \/ log'[q][i] \in {"run_recovered", "run_started"}
                                      \/ Named(q)
  <1>1. log[q] \in Seq(Events)
    BY TypeFacts
  <1>2. CASE log'[q] = log[q]
    BY <1>2 DEF Named
  <1>3. ASSUME NEW e \in Events, log'[q] = Append(log[q], e),
               e \in {"run_recovered", "run_started"} \/ Named(q)
        PROVE  /\ DOMAIN log[q] \subseteq DOMAIN log'[q]
               /\ \A i \in DOMAIN log[q] : log'[q][i] = log[q][i]
               /\ \A i \in DOMAIN log'[q] : \/ i \in DOMAIN log[q]
                                            \/ log'[q][i] \in {"run_recovered", "run_started"}
                                            \/ Named(q)
    BY <1>1, <1>3, OneMore
  <1>4. /\ DOMAIN log[q] \subseteq DOMAIN log'[q]
        /\ \A i \in DOMAIN log[q] : log'[q][i] = log[q][i]
        /\ \A i \in DOMAIN log'[q] : \/ i \in DOMAIN log[q]
                                     \/ log'[q][i] \in {"run_recovered", "run_started"}
                                     \/ Named(q)
    BY <1>2, <1>3 DEF Grows
  <1> QED BY <1>4 DEF Named
Ended(q) == \E i \in DOMAIN log[q] : log[q][i] \in LastWords

\* The steps of RunLog, with what Over makes of settled.
LEMMA Stepping ==
  ASSUME NEW q \in Requests,
         \/ \E e \in {"run_started", "run_recovered"} :
               log'[q] = Append(log[q], e) /\ ~Ended(q) /\ (Over(q)' <=> Over(q))
         \/ \E e \in {"delta", "model_output_reset"} :
               /\ log'[q] = Append(log[q], e) /\ Named(q) /\ ~Ended(q) /\ (Over(q)' <=> Over(q))
         \/ \E e \in LastWords :
               /\ log'[q] = Append(log[q], e) /\ Named(q) /\ ~Ended(q) /\ (Over(q)' <=> Over(q))
         \/ /\ log'[q] = Append(log[q], "memory_evolution")
            /\ Ended(q) /\ ~Over(q) /\ Over(q)'
         \/ log'[q] = log[q] /\ Ended(q) /\ Over(q)'
         \/ log'[q] = log[q] /\ (Over(q)' <=> Over(q))
  PROVE  Log!Step(q)
  <1> DEFINE bar == [p \in Requests |-> Over(p)]
  <1>1. /\ bar[q] = Over(q) /\ bar'[q] = Over(q)'
        /\ (Over(q)' <=> Over(q)) => bar'[q] = bar[q]
        /\ Over(q)' => bar'[q] = TRUE
    BY DEF Over
  <1>2. /\ Log!Said(q, Log!LastWords) <=> Ended(q)
        /\ Log!Said(q, {"run_started"}) <=> Named(q)
    BY DEF Log!Said, Log!LastWords, Ended, LastWords, Named
  <1> HIDE DEF bar
  <1>3. ASSUME NEW e \in {"run_started", "run_recovered"},
               log'[q] = Append(log[q], e), ~Ended(q), (Over(q)' <=> Over(q))
        PROVE  Log!Begins(q)
    BY <1>1, <1>2, <1>3 DEF Log!Begins, Log!Adds, bar
  <1>4. ASSUME NEW e \in {"delta", "model_output_reset"},
               log'[q] = Append(log[q], e), Named(q), ~Ended(q), (Over(q)' <=> Over(q))
        PROVE  Log!Talks(q)
    BY <1>1, <1>2, <1>4 DEF Log!Talks, Log!Adds, Log!Chatter, bar
  <1>5. ASSUME NEW e \in LastWords,
               log'[q] = Append(log[q], e), Named(q), ~Ended(q), (Over(q)' <=> Over(q))
        PROVE  Log!Speaks(q)
    BY <1>1, <1>2, <1>5 DEF Log!Speaks, Log!Adds, Log!LastWords, LastWords, bar
  <1>6. ASSUME log'[q] = Append(log[q], "memory_evolution"), Ended(q), ~Over(q), Over(q)'
        PROVE  Log!Evolves(q)
    BY <1>1, <1>2, <1>6 DEF Log!Evolves, Log!Adds, bar
  <1>7. ASSUME log'[q] = log[q], Ended(q), Over(q)'
        PROVE  Log!Settles(q)
    BY <1>1, <1>2, <1>7 DEF Log!Settles, bar
  <1>8. ASSUME log'[q] = log[q], (Over(q)' <=> Over(q))
        PROVE  Log!Waits(q)
    BY <1>1, <1>8 DEF Log!Waits, bar
  <1> QED BY <1>3, <1>4, <1>5, <1>6, <1>7, <1>8 DEF Log!Step

\* Who records, and what.
LEMMA Recording ==
  ASSUME IInv, NamedInv, [Next]_vars, NEW q \in Requests, log'[q] # log[q]
  PROVE  Grows(q) /\ Log!Step(q)
  <1>1. log \in [Requests -> Seq(Events)] /\ tasks \in Table
    BY TypeFacts DEF IInv
  <1>2. Ended(q) <=> run[q] \in Terminal
    BY DEF IInv, WordInv, Ended
  <1>3. Ended(q) => Named(q)
    BY DEF NamedInv, Ended, LastWords
  <1>4. \/ TellRecovered(q)
        \/ \E t \in Tasks : /\ tasks[t].req = q
                            /\ \/ Announce(t) \/ Delta(t) \/ Finish(t) \/ FailRun(t)
                               \/ CloseEvolution(t)
    <2>1. ASSUME NEW t \in Tasks, Execute(t)
          PROVE  \/ Announce(t) \/ Delta(t) \/ Finish(t) \/ FailRun(t) \/ CloseEvolution(t)
                 \/ UNCHANGED log
      BY <2>1 DEF Execute, Begin, MarkRunning, OpenTurn, Answer, CommitTurn, TurnRaises,
                  FailTurn, Forget, store
    <2>2. ASSUME NEW p \in Requests, TellRecovered(p)
          PROVE  p = q
      BY <1>1, <2>2 DEF TellRecovered, Record
    <2>3. ASSUME NEW t \in Tasks,
                 Announce(t) \/ Delta(t) \/ Finish(t) \/ FailRun(t) \/ CloseEvolution(t)
          PROVE  tasks[t].req = q
      BY <1>1, <2>3 DEF Announce, Delta, Finish, FailRun, CloseEvolution, Record
    <2>4. ASSUME \/ Start \/ ListQueued \/ Serve \/ \E p \in Requests : RecoverLaunch(p)
                 \/ Crash \/ AppendUser \/ LaunchSubmitted
                 \/ \E p \in Requests : \/ Submit(p) \/ DeleteSession(p) \/ Connect(p)
                                        \/ Stream(p) \/ WaitTimesOut(p)
                 \/ UNCHANGED vars
          PROVE  UNCHANGED log
      BY <2>4 DEF Start, ListQueued, Serve, RecoverLaunch, Crash, AppendUser, LaunchSubmitted,
                  Submit, DeleteSession, Connect, Stream, ListEvents, Check, Wait, LastLook,
                  WaitTimesOut, store, vars
    <2> QED BY <2>1, <2>2, <2>3, <2>4 DEF Next, Startup, Recover
  <1>5. CASE TellRecovered(q)
    <2>1. /\ run[q] \notin Terminal /\ run' = run
          /\ log'[q] = Append(log[q], "run_recovered")
      BY <1>1, <1>5 DEF TellRecovered, Record, IInv, LoopInv, Terminal
    <2>2. ~Over(q) /\ ~Over(q)'
      BY <2>1 DEF Over
    <2> QED BY <1>2, <2>1, <2>2, Stepping DEF Grows, Events
  <1>6. ASSUME NEW t \in Tasks, tasks[t].req = q, Announce(t)
        PROVE  Grows(q) /\ Log!Step(q)
    <2>1. /\ tasks[t].at \in {"reset", "start"} /\ run' = run
          /\ \/ tasks[t].at = "reset" /\ log'[q] = Append(log[q], "model_output_reset")
             \/ log'[q] = Append(log[q], "run_started")
      BY <1>1, <1>6 DEF Announce, Move, Record
    <2>2. run[q] \notin Terminal /\ (tasks[t].at = "reset" => Named(q))
      BY <1>6, <2>1, Place DEF NamedInv, Introduced, Early
    <2>3. ~Over(q) /\ ~Over(q)'
      BY <2>1, <2>2 DEF Over
    <2> QED BY <1>2, <2>1, <2>2, <2>3, Stepping DEF Grows, Events
  <1>7. ASSUME NEW t \in Tasks, tasks[t].req = q, Delta(t)
        PROVE  Grows(q) /\ Log!Step(q)
    <2>1. tasks[t].at = "talk" /\ run' = run /\ log'[q] = Append(log[q], "delta")
      BY <1>1, <1>7 DEF Delta, Record
    <2>2. run[q] \notin Terminal /\ Named(q)
      BY <1>7, <2>1, Place DEF NamedInv, Introduced, Early
    <2>3. ~Over(q) /\ ~Over(q)'
      BY <2>1, <2>2 DEF Over
    <2> QED BY <1>2, <2>1, <2>2, <2>3, Stepping DEF Grows, Events
  <1>8. ASSUME NEW t \in Tasks, tasks[t].req = q, Finish(t) \/ FailRun(t)
        PROVE  Grows(q) /\ Log!Step(q)
    <2>1. /\ tasks[t].at \in {"finish", "fail"}
          /\ tasks' = [tasks EXCEPT ![t].at = "close"]
          /\ \E e \in LastWords : log'[q] = Append(log[q], e)
      BY <1>1, <1>8 DEF Finish, FailRun, Move, Record, LastWords
    <2>2. run[q] \notin Terminal /\ Named(q)
      BY <1>8, <2>1, Place DEF NamedInv, Introduced, Early
    <2>3. tasks'[t].at = "close" /\ tasks'[t].req = q
      BY <1>1, <1>8, <2>1 DEF Table, Row
    <2>4. ~Over(q) /\ ~Over(q)'
      BY <2>2, <2>3 DEF Over, AtWork, Working
    <2> QED BY <1>2, <2>1, <2>2, <2>4, Stepping DEF Grows, Events
  <1>9. ASSUME NEW t \in Tasks, tasks[t].req = q, CloseEvolution(t)
        PROVE  Grows(q) /\ Log!Step(q)
    <2>1. /\ tasks[t].at = "close" /\ run' = run
          /\ tasks' = [tasks EXCEPT ![t].at = "done"]
          /\ log'[q] = Append(log[q], "memory_evolution")
      BY <1>1, <1>9 DEF CloseEvolution, Move, Record
    <2>2. run[q] \in Terminal /\ AtWork(t)
      BY <1>9, <2>1, Place DEF Late, AtWork, Working
    <2>3. ~Over(q)
      BY <1>9, <2>2 DEF Over
    <2>4. tasks'[t].at = "done" /\ \A s \in Tasks \ {t} : tasks'[s] = tasks[s]
      BY <1>1, <2>1 DEF Table, Row
    <2>5. \A s \in Tasks \ {t} : tasks[s].req # q
      BY <1>9, <2>2 DEF IInv, TaskInv
    <2>6. Over(q)'
      BY <2>1, <2>2, <2>4, <2>5 DEF Over, AtWork, Working
    <2> QED BY <1>2, <1>3, <2>1, <2>2, <2>3, <2>6, Stepping DEF Grows, Events
  <1> QED BY <1>4, <1>5, <1>6, <1>7, <1>8, <1>9
\* Where an execution comes from.
Came(t) ==
    /\ tasks'[t].at \in Introduced \cup {"close"} => tasks'[t].req = tasks[t].req
    /\ tasks'[t].at \in Introduced =>
          \/ tasks[t].at \in Introduced
          \/ tasks[t].at = "mark" /\ Happened(tasks[t].req, "delta")
          \/ tasks[t].at = "start" /\ Record(tasks[t].req, "run_started")
    /\ tasks'[t].at = "close" => tasks[t].at \in {"close", "finish", "fail"}

LEMMA Coming ==
  ASSUME IInv, [Next]_vars, NEW t \in Tasks
  PROVE  Came(t)
  <1>1. tasks \in Table
    BY TypeFacts DEF IInv
  <1>2. CASE tasks'[t] = tasks[t]
    BY <1>2 DEF Came
  <1>3. CASE tasks'[t].at \in {"idle", "pool", "done", "mark", "start"}
    BY <1>3 DEF Came, Introduced
  <1>4. ASSUME NEW s \in Tasks, Execute(s) PROVE Came(t)
    <2>1. CASE s # t
      <3>1. tasks'[t] = tasks[t]
        BY <1>1, <1>4, <2>1
           DEF Execute, Begin, MarkRunning, Announce, OpenTurn, Delta, Answer, CommitTurn,
               Finish, TurnRaises, FailTurn, FailRun, CloseEvolution, Forget, Move, Table, memory
      <3> QED BY <1>2, <3>1
    <2>2. CASE s = t
      <3> USE <1>1, <2>2 DEF Came, Introduced, Move, Table, Row
      <3>1. CASE Begin(t)
        BY <3>1 DEF Begin
      <3>2. CASE MarkRunning(t)
        BY <3>2 DEF MarkRunning
      <3>3. CASE Announce(t)
        BY <3>3 DEF Announce
      <3>4. CASE OpenTurn(t)
        BY <3>4 DEF OpenTurn
      <3>5. CASE Delta(t)
        BY <3>5 DEF Delta, memory
      <3>6. CASE Answer(t)
        BY <3>6 DEF Answer
      <3>7. CASE CommitTurn(t)
        BY <3>7 DEF CommitTurn
      <3>8. CASE Finish(t)
        BY <3>8 DEF Finish
      <3>9. CASE TurnRaises(t)
        BY <3>9 DEF TurnRaises
      <3>10. CASE FailTurn(t)
        BY <3>10 DEF FailTurn
      <3>11. CASE FailRun(t)
        BY <3>11 DEF FailRun
      <3>12. CASE CloseEvolution(t)
        BY <3>12 DEF CloseEvolution
      <3>13. CASE Forget(t)
        BY <3>13 DEF Forget, Free
      <3> QED BY <1>4, <3>1, <3>2, <3>3, <3>4, <3>5, <3>6, <3>7, <3>8, <3>9, <3>10, <3>11,
                 <3>12, <3>13 DEF Execute
    <2> QED BY <2>1, <2>2
  <1>5. ASSUME NEW q, Launched(q)
        PROVE  tasks'[t] = tasks[t] \/ tasks'[t].at = "pool"
    <2> DEFINE n == NewTask
    <2>1. CASE Pending(q)
      BY <1>5, <2>1 DEF Launched
    <2>2. CASE ~Pending(q)
      <3>1. tasks' = [tasks EXCEPT ![n] = [Free EXCEPT !.at = "pool", !.req = q]]
        BY <1>5, <2>2 DEF Launched
      <3> HIDE DEF n
      <3> QED BY <1>1, <3>1 DEF Table, Free
    <2> QED BY <2>1, <2>2
  <1>6. CASE Crash
    BY <1>3, <1>6 DEF Crash, Free
  <1>7. ASSUME \/ Start \/ ListQueued \/ Serve \/ \E p \in Requests : TellRecovered(p)
               \/ AppendUser
               \/ \E p \in Requests : \/ Submit(p) \/ DeleteSession(p) \/ Connect(p)
                                      \/ Stream(p) \/ WaitTimesOut(p)
               \/ UNCHANGED vars
        PROVE  tasks' = tasks
    BY <1>7 DEF Start, ListQueued, Serve, TellRecovered, AppendUser, Submit, DeleteSession,
                Connect, Stream, ListEvents, Check, Wait, LastLook, WaitTimesOut, memory, vars
  <1>8. CASE LaunchSubmitted \/ \E p \in Requests : RecoverLaunch(p)
    BY <1>2, <1>3, <1>5, <1>8 DEF LaunchSubmitted, RecoverLaunch
  <1> QED BY <1>2, <1>4, <1>6, <1>7, <1>8 DEF Next, Startup, Recover

LEMMA NamedNext == IInv /\ NamedInv /\ [Next]_vars => NamedInv'
  <1> SUFFICES ASSUME IInv, NamedInv, [Next]_vars PROVE NamedInv'
    OBVIOUS
  <1>1. \A q \in Requests : Grows(q)
    BY Recording DEF Grows
  <1>2. /\ TypeOK /\ log \in [Requests -> Seq(Events)]
    BY TypeFacts DEF IInv
  <1>3. \A q \in Requests : Named(q) => Named(q)'
    BY <1>1, <1>2, Grown
  <1>4. ASSUME NEW q \in Requests, NEW i \in DOMAIN log'[q]
        PROVE  log'[q][i] \in {"run_recovered", "run_started"} \/ Named(q)'
    <2>1. \/ i \in DOMAIN log[q] /\ log'[q][i] = log[q][i]
          \/ log'[q][i] \in {"run_recovered", "run_started"}
          \/ Named(q)
      BY <1>1, <1>2, Grown
    <2> QED BY <1>3, <2>1 DEF NamedInv
  <1>5. ASSUME NEW t \in Tasks, tasks'[t].at \in Introduced
        PROVE  \E i \in DOMAIN log'[tasks'[t].req] : log'[tasks'[t].req][i] = "run_started"
    <2> DEFINE q == tasks[t].req
    <2>1. /\ tasks'[t].req = q
          /\ \/ tasks[t].at \in Introduced
             \/ tasks[t].at = "mark" /\ Happened(q, "delta")
             \/ tasks[t].at = "start" /\ Record(q, "run_started")
      BY <1>5, Coming DEF Came
    <2>2. q \in Requests
      BY <2>1, Place DEF Introduced
    <2> HIDE DEF q
    <2>3. CASE tasks[t].at \in Introduced
      BY <1>3, <2>1, <2>2, <2>3 DEF NamedInv, Named, q
    <2>4. CASE Happened(q, "delta")
      BY <1>3, <2>1, <2>2, <2>4 DEF NamedInv, Named, Happened
    <2>5. CASE Record(q, "run_started")
      <3>1. log'[q] = Append(log[q], "run_started") /\ log[q] \in Seq(Events)
        BY <1>2, <2>2, <2>5 DEF Record
      <3>2. Len(log[q]) + 1 \in DOMAIN log'[q] /\ log'[q][Len(log[q]) + 1] = "run_started"
        BY <3>1, OneMore DEF Events
      <3> QED BY <2>1, <3>2
    <2> QED BY <2>1, <2>3, <2>4, <2>5
  <1> QED BY <1>4, <1>5 DEF NamedInv, Named

LEMMA StepTold ==
  ASSUME IInv, IInv', NamedInv, [Next]_vars, NEW q \in Requests
  PROVE  Log!Step(q)
  <1>1. CASE log'[q] # log[q]
    BY <1>1, Recording
  <1>2. CASE log'[q] = log[q]
    <2>1. ASSUME Over(q) PROVE Over(q)'
      <3>1. run[q] \in Terminal /\ run'[q] = run[q] /\ tasks \in Table /\ tasks' \in Table
        BY <2>1, StepEnds, TypeFacts DEF Over, IInv, TypeOK, Table, Row
      <3>2. ASSUME NEW t \in Tasks, tasks'[t].req = q, AtWork(t)' PROVE FALSE
        <4>1. tasks'[t].at \notin Early
          BY <3>1, <3>2 DEF IInv, TaskInv
        <4>2. tasks'[t].at = "close"
          BY <3>1, <3>2, <4>1 DEF AtWork, Working, Early, Table, Row, Points
        <4>3. tasks[t].at \in {"close", "finish", "fail"} /\ tasks[t].req = q
          BY <3>2, <4>2, Coming DEF Came
        <4> QED BY <2>1, <4>3 DEF Over, AtWork, Working
      <3> QED BY <3>1, <3>2 DEF Over
    <2>2. ASSUME Over(q)' PROVE Ended(q)
      <3>1. run'[q] \in Terminal
        BY <2>2 DEF Over
      <3> QED BY <1>2, <3>1 DEF IInv, WordInv, Ended
    <2> QED BY <1>2, <2>1, <2>2, Stepping
  <1> QED BY <1>1, <1>2

\* Every log grows as RunLog says: a run is named before it talks, talks until its
\* last words, and whoever finds it settled has seen all of it, whatever exits,
\* recoveries and repeats there are.
THEOREM RunsAreTold == Spec => LogsAreTold
  <1>1. Init => NamedInv /\ Log!Init
    <2> SUFFICES ASSUME Init PROVE NamedInv /\ Log!Init
      OBVIOUS
    <2>1. NamedInv
      BY DEF Init, NamedInv, Free, Introduced
    <2>2. \A q \in Requests : Over(q) = FALSE
      BY DEF Init, Over, Terminal
    <2> QED BY <2>1, <2>2 DEF Log!Init, Init
  <1>2. IInv /\ IInv' /\ NamedInv /\ [Next]_vars =>
           [Log!Next]_<<log, [q \in Requests |-> Over(q)]>>
    <2> SUFFICES ASSUME IInv, IInv', NamedInv, [Next]_vars PROVE Log!Next
      OBVIOUS
    <2>1. log' = [q \in Requests |-> log'[q]]
      BY DEF IInv, TypeOK
    <2>2. \A q \in Requests : Log!Step(q)
      BY StepTold
    <2> QED BY <2>1, <2>2 DEF Log!Next
  <1>3. Spec => []NamedInv
    <2>1. IInv /\ NamedInv /\ [Next]_vars => NamedInv'
      BY NamedNext
    <2> QED BY <1>1, <2>1, Invariance, PTL DEF Spec
  <1> QED BY <1>1, <1>2, <1>3, Invariance, PTL DEF Spec, LogsAreTold, Log!Spec
=============================================================================
