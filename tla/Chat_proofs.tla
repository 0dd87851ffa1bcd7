----------------------------- MODULE Chat_proofs ------------------------------
(***************************************************************************)
(* Theorems of ChatPane, for any actors, sessions, entries and requests,    *)
(* and of StreamClient, for any number of attempts and events: the          *)
(* conversation on the screen, and the stream that brings its next answer.  *)
(***************************************************************************)
EXTENDS ChatPane, StreamCall, FiniteSetTheorems, TLAPS

VARIABLE pos

Stream == INSTANCE StreamClient

-----------------------------------------------------------------------------
(* ChatPane: the inductive invariant *)

InFlight == {"stream", "refresh"}

\* The turn: it exists while the composer waits for it, on a loaded pane, and the
\* server puts its message where it was asked to.
TurnInv == /\ ui.busy \notin InFlight => turn = NoTurn
           /\ ui.busy \in InFlight => ui.boot = "ready"
           /\ turn.place # New /\ turn.asked # New => turn.place = turn.asked
           /\ ui.busy = "refresh" => turn.place # New

\* Whose the sessions are that the turn and the replies on their way name.
OwnInv == /\ OwnConversation
          /\ \A s \in {turn.asked, turn.place} \ {New} : owner[s] = ui.actor
          /\ \A r \in requests : r.served /\ r.op = "open" => owner[r.session] = r.actor

\* While nothing came apart, a pane that is not loaded shows no conversation, and
\* the turn whose bubble is on the screen was asked in the active one.
OneInv == /\ OneConversation
          /\ ui.boot # "ready" /\ ~adrift => ui.active = New /\ ui.base = New
          /\ ui.busy = "stream" /\ ui.bubble /\ ~adrift => ui.active = turn.asked

\* What the turn holds is still to be given back, unless the server took it; a file
\* stays in the composer meanwhile.
Numbered == {"text", "file"} \X (1 .. count)
KeptInv == /\ owed \subseteq ui.draft \cup ui.files \cup turn.entries
           /\ ui.busy = "stream"
                 => owed \cap turn.entries \subseteq Texts(Entries) \cup ui.files
           /\ turn.place # New => owed \cap turn.entries = {}
           /\ ui.draft \cup ui.files \cup turn.entries \subseteq Numbered

IInv == TypeOK /\ TurnInv /\ OwnInv /\ OneInv /\ KeptInv
-----------------------------------------------------------------------------
(* Loading, views and the composer *)

\* The types of the fields of the pane.
LEMMA UiFields ==
  ASSUME TypeOK
  PROVE  /\ ui \in UiStates /\ ui.actor \in Actors /\ ui.list \subseteq Sessions
         /\ ui.active \in Sessions \cup {New} /\ ui.base \in Sessions \cup {New}
         /\ ui.draft \subseteq Texts(Entries) /\ ui.files \subseteq Entries \ Texts(Entries)
         /\ turn \in TurnStates /\ turn.entries \subseteq Entries
         /\ turn.asked \in Sessions \cup {New} /\ turn.place \in Sessions \cup {New}
         /\ MaxMoves \in Nat /\ MaxEntries \in Nat
  BY ChatConstants DEF TypeOK, UiStates, TurnStates

LEMMA Counted ==
  ASSUME TypeOK
  PROVE  /\ moves < MaxMoves => moves + 1 \in 0 .. MaxMoves
         /\ count < MaxEntries => count + 1 \in 0 .. MaxEntries
  <1>1. moves \in 0 .. MaxMoves /\ count \in 0 .. MaxEntries
    BY DEF TypeOK
  <1> QED BY <1>1, UiFields

LEMMA InitInv == Init => IInv
  <1> SUFFICES ASSUME Init PROVE IInv
    OBVIOUS
  <1>1. TypeOK
    <2>1. ui \in UiStates /\ turn \in TurnStates
      BY ChatConstants DEF Init, UiStates, TurnStates, NoTurn
    <2>2. /\ owner \in [Sessions -> Actors \cup {NoOne}] /\ alive \subseteq Sessions
          /\ requests \subseteq Requests
      BY ChatConstants DEF Init
    <2>3. /\ moves \in 0 .. MaxMoves /\ count \in 0 .. MaxEntries
          /\ adrift \in BOOLEAN /\ owed \subseteq Entries
      <3>1. MaxMoves \in Nat /\ MaxEntries \in Nat
        BY ChatConstants
      <3>2. moves = 0 /\ count = 0 /\ adrift = FALSE /\ owed = {}
        BY DEF Init
      <3>3. 0 \in 0 .. MaxMoves /\ 0 \in 0 .. MaxEntries
        BY <3>1
      <3> QED BY <3>2, <3>3
    <2> QED BY <2>1, <2>2, <2>3 DEF TypeOK
  <1>2. TurnInv /\ OwnInv /\ OneInv /\ KeptInv
    BY DEF Init, TurnInv, InFlight, OwnInv, OwnConversation, NoTurn, OneInv,
           OneConversation, KeptInv
  <1> QED BY <1>1, <1>2 DEF IInv

LEMMA SwitchActorInv ==
  ASSUME IInv, NEW a \in Actors, SwitchActor(a)
  PROVE  IInv'
  <1>1. /\ ui' = [Unmounted(Cleared(ui)) EXCEPT !.actor = a, !.view = "chat", !.files = {}]
        /\ moves' = moves + 1 /\ moves < MaxMoves
        /\ owed' = owed \ (ui.draft \cup ui.files) /\ adrift' = FALSE
        /\ ui.busy = "idle" /\ UNCHANGED <<turn, requests, owner, alive, count>>
    BY DEF SwitchActor
  <1>2. turn = NoTurn
    BY <1>1 DEF IInv, TurnInv, InFlight
  <1>3. /\ ui' \in UiStates /\ ui'.actor = a /\ ui'.boot = "loading" /\ ui'.active = New
        /\ ui'.base = New /\ ui'.bubble = FALSE /\ ui'.busy = "idle" /\ ui'.draft = {}
        /\ ui'.files = {}
    BY <1>1, UiFields DEF IInv, UiStates, Unmounted, Cleared
  <1>4. TypeOK'
    BY <1>1, <1>3, Counted DEF IInv, TypeOK
  <1>5. TurnInv' /\ OwnInv' /\ OneInv'
    BY <1>1, <1>2, <1>3 DEF IInv, TurnInv, InFlight, OwnInv, OwnConversation, NoTurn, OneInv,
           OneConversation
  <1>6. KeptInv'
    BY <1>1, <1>2, <1>3 DEF IInv, KeptInv, NoTurn, Numbered
  <1> QED BY <1>4, <1>5, <1>6 DEF IInv

LEMMA BootInv ==
  ASSUME IInv, BootArrives \/ BootFails \/ Retry \/ Revive
  PROVE  IInv'
  <1>1. /\ ui' \in UiStates /\ ui'.actor = ui.actor /\ ui'.busy = ui.busy
        /\ ui'.draft = ui.draft /\ ui'.files = ui.files
        /\ ui'.base \in {ui.base, New} /\ ui'.active \in {ui.active, New}
        /\ ui.boot # "ready"
        /\ UNCHANGED <<turn, requests, owner, alive, moves, count, owed>>
        /\ \/ BootArrives /\ ui'.base = New /\ ui'.active = ui.active /\ adrift' = adrift
           \/ ui'.active = New /\ ui'.base = New
           \/ ui'.base = ui.base /\ ui'.active = ui.active /\ adrift' = adrift
        /\ adrift' \in {adrift, FALSE}
    <2>1. ui \in UiStates /\ Mine(ui.actor, alive) \subseteq Sessions
      BY UiFields DEF IInv, TypeOK, Mine
    <2> HIDE DEF Mine
    <2>2. CASE BootArrives
      BY <2>1, <2>2 DEF BootArrives, UiStates
    <2>3. CASE BootFails
      BY <2>1, <2>3 DEF BootFails, UiStates
    <2>4. CASE Retry
      BY <2>1, <2>4 DEF Retry, UiStates, Cleared
    <2>5. CASE Revive
      BY <2>1, <2>5 DEF Revive, UiStates
    <2> QED BY <2>2, <2>3, <2>4, <2>5
  <1>2. TypeOK'
    BY <1>1 DEF IInv, TypeOK
  <1>3. TurnInv'
    BY <1>1 DEF IInv, TurnInv
  <1>4. OwnInv'
    BY <1>1 DEF IInv, OwnInv, OwnConversation
  <1>5. OneInv' /\ KeptInv'
    BY <1>1 DEF IInv, OneInv, OneConversation, KeptInv, TurnInv, InFlight, Numbered
  <1> QED BY <1>2, <1>3, <1>4, <1>5 DEF IInv

LEMMA ChangeViewInv ==
  ASSUME IInv, NEW v \in {"chat", "panel"}, ChangeView(v)
  PROVE  IInv'
  <1>1. /\ ui' = [Unmounted(ui) EXCEPT !.view = v] /\ moves < MaxMoves /\ moves' = moves + 1
        /\ owed' = owed \ ui.draft
        /\ UNCHANGED <<turn, requests, owner, alive, count, adrift>>
    BY DEF ChangeView
  <1>2. /\ ui' \in UiStates /\ ui'.draft = {} /\ ui'.files = ui.files
        /\ ui'.actor = ui.actor /\ ui'.boot = ui.boot /\ ui'.active = ui.active
        /\ ui'.base = ui.base /\ ui'.bubble = ui.bubble /\ ui'.busy = ui.busy
    BY <1>1, UiFields DEF IInv, UiStates, Unmounted
  <1>3. TypeOK'
    BY <1>1, <1>2, Counted DEF IInv, TypeOK
  <1>4. TurnInv' /\ OwnInv' /\ OneInv'
    BY <1>1, <1>2 DEF IInv, TurnInv, OwnInv, OwnConversation, OneInv, OneConversation
  <1>5. KeptInv'
    BY <1>1, <1>2 DEF IInv, KeptInv, Numbered
  <1> QED BY <1>3, <1>4, <1>5 DEF IInv

\* A new entry has a number that none of the others has.
LEMMA EnterInv ==
  ASSUME IInv, NEW kind \in {"text", "file"}, Enter(kind)
  PROVE  IInv'
  <1> DEFINE e == <<kind, count + 1>>
  <1>1. /\ ui' = IF kind = "text" THEN [ui EXCEPT !.draft = {e}]
                                  ELSE [ui EXCEPT !.files = @ \cup {e}]
        /\ kind = "text" => ui.draft = {}
        /\ count < MaxEntries /\ count' = count + 1 /\ owed' = owed \cup {e}
        /\ UNCHANGED <<turn, requests, owner, alive, moves, adrift>>
    BY DEF Enter
  <1>2. count + 1 \in 0 .. MaxEntries /\ count \in Nat /\ count + 1 \in 1 .. MaxEntries
    <2>1. count \in 0 .. MaxEntries
      BY DEF IInv, TypeOK
    <2> QED BY <1>1, <2>1, UiFields DEF IInv
  <1>3. /\ e \in Entries /\ e \notin Numbered
        /\ kind = "text" => e \in Texts(Entries)
        /\ kind = "file" => e \notin Texts(Entries)
    BY <1>2 DEF Entries, Texts, Numbered
  <1>4. e \in Numbered' /\ Numbered \subseteq Numbered'
    BY <1>1, <1>2 DEF Numbered
  <1> HIDE DEF e
  <1>5. /\ ui' \in UiStates /\ ui'.actor = ui.actor /\ ui'.boot = ui.boot
        /\ ui'.active = ui.active /\ ui'.base = ui.base /\ ui'.bubble = ui.bubble
        /\ ui'.busy = ui.busy /\ ui.draft \subseteq ui'.draft /\ ui.files \subseteq ui'.files
        /\ ui'.draft \cup ui'.files = ui.draft \cup ui.files \cup {e}
    <2>1. ui \in UiStates
      BY UiFields DEF IInv
    <2>2. CASE kind = "text"
      BY <1>1, <1>3, <2>1, <2>2 DEF UiStates
    <2>3. CASE kind = "file"
      BY <1>1, <1>3, <2>1, <2>3 DEF UiStates
    <2> QED BY <2>2, <2>3
  <1>6. TypeOK'
    BY <1>1, <1>2, <1>3, <1>5 DEF IInv, TypeOK
  <1>7. TurnInv' /\ OwnInv' /\ OneInv'
    BY <1>1, <1>5 DEF IInv, TurnInv, OwnInv, OwnConversation, OneInv, OneConversation
  <1>8. KeptInv'
    <2>1. e \notin turn.entries
      BY <1>3 DEF IInv, KeptInv
    <2>2. owed' \subseteq ui'.draft \cup ui'.files \cup turn'.entries
      BY <1>1, <1>5 DEF IInv, KeptInv
    <2>3. owed' \cap turn'.entries = owed \cap turn.entries
      BY <1>1, <2>1
    <2>4. ui'.draft \cup ui'.files \cup turn'.entries \subseteq Numbered'
      BY <1>1, <1>4, <1>5 DEF IInv, KeptInv
    <2>5. /\ ui'.busy = "stream"
                => owed' \cap turn'.entries \subseteq Texts(Entries) \cup ui'.files
          /\ turn'.place # New => owed' \cap turn'.entries = {}
      BY <1>1, <1>5, <2>3 DEF IInv, KeptInv
    <2> QED BY <2>2, <2>4, <2>5 DEF KeptInv
  <1> QED BY <1>6, <1>7, <1>8 DEF IInv

LEMMA RemoveFileInv ==
  ASSUME IInv, NEW f \in ui.files, RemoveFile(f)
  PROVE  IInv'
  <1>1. /\ ui' = [ui EXCEPT !.files = @ \ {f}] /\ owed' = owed \ {f}
        /\ UNCHANGED <<turn, requests, owner, alive, moves, count, adrift>>
    BY DEF RemoveFile
  <1>2. /\ ui' \in UiStates /\ ui'.draft = ui.draft /\ ui'.files = ui.files \ {f}
        /\ ui'.actor = ui.actor /\ ui'.boot = ui.boot /\ ui'.active = ui.active
        /\ ui'.base = ui.base /\ ui'.bubble = ui.bubble /\ ui'.busy = ui.busy
    BY <1>1, UiFields DEF IInv, UiStates
  <1>3. TypeOK'
    BY <1>1, <1>2 DEF IInv, TypeOK
  <1>4. TurnInv' /\ OwnInv' /\ OneInv'
    BY <1>1, <1>2 DEF IInv, TurnInv, OwnInv, OwnConversation, OneInv, OneConversation
  <1>5. KeptInv'
    BY <1>1, <1>2 DEF IInv, KeptInv, Numbered
  <1> QED BY <1>3, <1>4, <1>5 DEF IInv

\* A new conversation, and a brief, which changes no conversation.
LEMMA BriefInv ==
  ASSUME IInv, Brief \/ BriefEnds
  PROVE  IInv'
  <1>1. /\ ui' \in UiStates /\ ui'.draft = ui.draft /\ ui'.files = ui.files
        /\ ui'.actor = ui.actor /\ ui'.boot = ui.boot /\ ui'.active = ui.active
        /\ ui'.base = ui.base /\ ui'.bubble = ui.bubble
        /\ ui.busy \notin InFlight /\ ui'.busy \notin InFlight
        /\ moves' = moves \/ (moves < MaxMoves /\ moves' = moves + 1)
        /\ UNCHANGED <<turn, requests, owner, alive, count, owed, adrift>>
    <2>1. ui \in UiStates
      BY UiFields DEF IInv
    <2>2. CASE Brief
      BY <2>1, <2>2 DEF Brief, UiStates, InFlight
    <2>3. CASE BriefEnds
      BY <2>1, <2>3 DEF BriefEnds, UiStates, InFlight
    <2> QED BY <2>2, <2>3
  <1>2. TypeOK'
    BY <1>1, Counted DEF IInv, TypeOK
  <1>3. TurnInv' /\ OwnInv' /\ OneInv' /\ KeptInv'
    BY <1>1 DEF IInv, TurnInv, OwnInv, OwnConversation, OneInv, OneConversation, KeptInv,
                Numbered, InFlight
  <1> QED BY <1>2, <1>3 DEF IInv

LEMMA NewSessionInv ==
  ASSUME IInv, NewSession
  PROVE  IInv'
  <1>1. /\ ui' = Show(ui, New) /\ adrift' = FALSE
        /\ UNCHANGED <<turn, requests, owner, alive, moves, count, owed>>
    BY DEF NewSession
  <1>2. /\ ui' \in UiStates /\ ui'.draft = ui.draft /\ ui'.files = ui.files
        /\ ui'.actor = ui.actor /\ ui'.boot = ui.boot /\ ui'.active = New
        /\ ui'.base = New /\ ui'.bubble = FALSE /\ ui'.busy = ui.busy
    BY <1>1, UiFields DEF IInv, UiStates, Show
  <1>3. TypeOK'
    BY <1>1, <1>2 DEF IInv, TypeOK
  <1>4. TurnInv' /\ OwnInv' /\ OneInv' /\ KeptInv'
    BY <1>1, <1>2 DEF IInv, TurnInv, OwnInv, OwnConversation, OneInv, OneConversation, KeptInv,
                      Numbered
  <1> QED BY <1>3, <1>4 DEF IInv

-----------------------------------------------------------------------------
(* The turn *)

LEMMA SendInv ==
  ASSUME IInv, Send
  PROVE  IInv'
  <1>1. /\ turn' = [entries |-> ui.draft \cup ui.files, asked |-> ui.active, place |-> New]
        /\ ui' = [ui EXCEPT !.draft = {}, !.busy = "stream", !.bar = TRUE, !.bubble = TRUE]
        /\ ui.busy = "idle" /\ ui.boot = "ready"
        /\ UNCHANGED <<requests, owner, alive, moves, count, owed, adrift>>
    BY DEF Send, Composing
  <1>2. /\ ui' \in UiStates /\ ui'.draft = {} /\ ui'.files = ui.files
        /\ ui'.actor = ui.actor /\ ui'.boot = ui.boot /\ ui'.active = ui.active
        /\ ui'.base = ui.base /\ ui'.bubble = TRUE /\ ui'.busy = "stream"
    BY <1>1, UiFields DEF IInv, UiStates
  <1>3. /\ turn' \in TurnStates /\ turn'.asked = ui.active /\ turn'.place = New
        /\ turn'.entries = ui.draft \cup ui.files
    BY <1>1, UiFields DEF IInv, TurnStates, Texts
  <1>4. turn = NoTurn
    BY <1>1 DEF IInv, TurnInv, InFlight
  <1>5. TypeOK'
    BY <1>1, <1>2, <1>3 DEF IInv, TypeOK
  <1>6. TurnInv' /\ OneInv'
    BY <1>1, <1>2, <1>3 DEF IInv, TurnInv, OneInv, OneConversation, InFlight
  <1>7. OwnInv'
    BY <1>1, <1>2, <1>3 DEF IInv, OwnInv, OwnConversation
  <1>8. KeptInv'
    BY <1>1, <1>2, <1>3, <1>4, UiFields DEF IInv, KeptInv, Numbered, NoTurn
  <1> QED BY <1>5, <1>6, <1>7, <1>8 DEF IInv

\* The server gives the session that a message opens to its sender; a session that
\* has an owner keeps it.
LEMMA TakeInv ==
  ASSUME IInv, NEW s \in Sessions, Take(s)
  PROVE  IInv'
  <1>1. /\ ui.busy = "stream" /\ turn.place = New
        /\ IF turn.asked = New THEN owner[s] = NoOne ELSE s = turn.asked /\ s \in alive
        /\ turn' = [turn EXCEPT !.place = s]
        /\ owner' = [owner EXCEPT ![s] = ui.actor]
        /\ alive' = alive \cup {s} /\ owed' = owed \ turn.entries
        /\ UNCHANGED <<ui, requests, moves, count, adrift>>
    BY DEF Take
  <1>2. /\ turn' \in TurnStates /\ turn'.asked = turn.asked /\ turn'.place = s
        /\ turn'.entries = turn.entries
    BY <1>1, UiFields DEF IInv, TurnStates
  <1>3. /\ owner' \in [Sessions -> Actors \cup {NoOne}] /\ owner'[s] = ui.actor
        /\ \A t \in Sessions : t # s => owner'[t] = owner[t]
    BY <1>1, UiFields DEF IInv, TypeOK
  <1>4. \A t \in Sessions : owner[t] \in Actors => owner'[t] = owner[t]
    <2>1. owner[s] \in Actors => owner[s] = ui.actor
      BY <1>1, ChatConstants DEF IInv, OwnInv
    <2> QED BY <1>3, <2>1
  <1>5. s # New
    BY ChatConstants
  <1>6. TypeOK'
    BY <1>1, <1>2, <1>3 DEF IInv, TypeOK
  <1>7. TurnInv' /\ OneInv'
    BY <1>1, <1>2 DEF IInv, TurnInv, OneInv, OneConversation, InFlight
  <1>8. OwnInv'
    <2>1. /\ ui.actor \in Actors /\ {ui.base, ui.active} \subseteq Sessions \cup {New}
          /\ turn.asked \in Sessions \cup {New}
      BY UiFields DEF IInv
    <2>2. OwnConversation'
      BY <1>1, <1>4, <2>1 DEF IInv, OwnInv, OwnConversation
    <2>3. \A t \in {turn'.asked, turn'.place} \ {New} : owner'[t] = ui'.actor
      BY <1>1, <1>2, <1>3, <1>4, <2>1 DEF IInv, OwnInv
    <2>4. ASSUME NEW r \in requests, r.served, r.op = "open"
          PROVE  owner'[r.session] = r.actor
      <3>1. r.session \in Sessions \cup {New} /\ r.actor \in Actors
        BY DEF IInv, TypeOK, Requests
      <3>2. owner[r.session] = r.actor
        BY <2>4 DEF IInv, OwnInv
      <3>3. CASE r.session \in Sessions
        BY <1>4, <3>1, <3>2, <3>3
      <3>4. CASE r.session \notin Sessions
        <4>1. DOMAIN owner = Sessions /\ r.session # s
          BY <3>4 DEF IInv, TypeOK
        <4> QED BY <1>1, <3>2, <4>1
      <3> QED BY <3>3, <3>4
    <2>5. requests' = requests
      BY <1>1
    <2> QED BY <2>2, <2>3, <2>4, <2>5 DEF OwnInv
  <1>9. KeptInv'
    BY <1>1, <1>2 DEF IInv, KeptInv, Numbered
  <1> QED BY <1>6, <1>7, <1>8, <1>9 DEF IInv

LEMMA AnswerInv ==
  ASSUME IInv, AnswerArrives
  PROVE  IInv'
  <1>1. /\ ui.busy = "stream" /\ turn.place # New /\ ui' = Answered(ui)
        /\ owed' = owed \ ui.files /\ adrift' = (adrift \/ ~ui.bubble)
        /\ UNCHANGED <<turn, requests, owner, alive, moves, count>>
    BY DEF AnswerArrives
  <1>2. /\ ui' \in UiStates /\ ui'.draft = ui.draft /\ ui'.files = {}
        /\ ui'.actor = ui.actor /\ ui'.boot = ui.boot /\ ui'.active = turn.place
        /\ ui'.base = (IF ui.base = New /\ ui.bubble THEN turn.place ELSE ui.base)
        /\ ui'.bubble = ui.bubble /\ ui'.busy = "refresh"
    BY <1>1, UiFields DEF IInv, UiStates, Answered
  <1>3. TypeOK'
    BY <1>1, <1>2, UiFields DEF IInv, TypeOK, UiStates
  <1>4. TurnInv'
    BY <1>1, <1>2 DEF IInv, TurnInv, InFlight
  <1>5. OwnInv'
    BY <1>1, <1>2 DEF IInv, OwnInv, OwnConversation
  <1>6. OneInv'
    BY <1>1, <1>2 DEF IInv, OneInv, OneConversation, TurnInv, InFlight
  <1>7. KeptInv'
    BY <1>1, <1>2 DEF IInv, KeptInv, Numbered
  <1> QED BY <1>3, <1>4, <1>5, <1>6, <1>7 DEF IInv

\* A turn that fails leaves its texts in the composer or is excused.
LEMMA FailsInv ==
  ASSUME IInv, NEW phase \in InFlight, Fails(phase)
  PROVE  IInv'
  <1> DEFINE texts == Texts(turn.entries)
  <1>1. /\ ui.busy = phase /\ ui' = Failed(ui, texts) /\ turn' = NoTurn
        /\ owed' = IF ui.bar /\ ui.draft = {} THEN owed ELSE owed \ texts
        /\ UNCHANGED <<requests, owner, alive, moves, count, adrift>>
    BY DEF Fails
  <1>2. texts = turn.entries \cap Texts(Entries) /\ texts \subseteq Texts(Entries)
    BY UiFields DEF IInv, Texts
  <1> HIDE DEF texts
  <1>3. /\ ui' \in UiStates /\ ui'.files = ui.files
        /\ ui'.draft = (IF ui.bar /\ ui.draft = {} THEN texts ELSE ui.draft)
        /\ ui'.actor = ui.actor /\ ui'.boot = ui.boot /\ ui'.active = ui.active
        /\ ui'.base = ui.base /\ ui'.bubble = FALSE /\ ui'.busy = "idle"
    BY <1>1, <1>2, UiFields DEF IInv, UiStates, Failed, Restored
  <1>4. turn'.entries = {} /\ turn'.asked = New /\ turn'.place = New /\ turn' \in TurnStates
    BY <1>1 DEF NoTurn, TurnStates
  <1>5. TypeOK'
    BY <1>1, <1>3, <1>4 DEF IInv, TypeOK
  <1>6. TurnInv' /\ OwnInv' /\ OneInv'
    BY <1>1, <1>3, <1>4 DEF IInv, TurnInv, InFlight, OwnInv, OwnConversation, OneInv,
                            OneConversation
  <1>7. owed \cap turn.entries \subseteq texts \cup ui.files
    BY <1>1, <1>2 DEF IInv, KeptInv, TurnInv, InFlight
  <1>8. KeptInv'
    BY <1>1, <1>2, <1>3, <1>4, <1>7 DEF IInv, KeptInv, Numbered
  <1> QED BY <1>5, <1>6, <1>8 DEF IInv

LEMMA SessionsArriveInv ==
  ASSUME IInv, SessionsArrive
  PROVE  IInv'
  <1>1. /\ ui' = [ui EXCEPT !.list = Mine(ui.actor, alive), !.busy = "idle", !.bubble = FALSE]
        /\ turn' = NoTurn /\ ui.busy = "refresh"
        /\ UNCHANGED <<requests, owner, alive, moves, count, owed, adrift>>
    BY DEF SessionsArrive
  <1>2. Mine(ui.actor, alive) \subseteq Sessions
    BY DEF IInv, TypeOK, Mine
  <1>3. /\ ui' \in UiStates /\ ui'.draft = ui.draft /\ ui'.files = ui.files
        /\ ui'.actor = ui.actor /\ ui'.boot = ui.boot /\ ui'.active = ui.active
        /\ ui'.base = ui.base /\ ui'.bubble = FALSE /\ ui'.busy = "idle"
    BY <1>1, <1>2, UiFields DEF IInv, UiStates
  <1>4. turn'.entries = {} /\ turn'.asked = New /\ turn'.place = New /\ turn' \in TurnStates
    BY <1>1 DEF NoTurn, TurnStates
  <1>5. TypeOK'
    BY <1>1, <1>3, <1>4 DEF IInv, TypeOK
  <1>6. TurnInv' /\ OwnInv' /\ OneInv'
    BY <1>1, <1>3, <1>4 DEF IInv, TurnInv, InFlight, OwnInv, OwnConversation, OneInv,
                            OneConversation
  <1>7. owed \cap turn.entries = {}
    BY <1>1 DEF IInv, KeptInv, TurnInv
  <1>8. KeptInv'
    BY <1>1, <1>3, <1>4, <1>7 DEF IInv, KeptInv, Numbered
  <1> QED BY <1>5, <1>6, <1>8 DEF IInv

-----------------------------------------------------------------------------
(* The list of sessions *)

LEMMA AskInv ==
  ASSUME IInv, NEW op \in {"open", "retitle", "delete"}, NEW s \in Sessions, Ask(op, s)
  PROVE  IInv'
  <1> DEFINE r == [op |-> op, session |-> s, actor |-> ui.actor,
                   home |-> op = "delete" /\ s = ui.active, served |-> FALSE, list |-> {}]
  <1>1. /\ requests' = requests \cup {r}
        /\ UNCHANGED <<ui, turn, owner, alive, moves, count, owed, adrift>>
    BY DEF Ask
  <1>2. r \in Requests /\ r.served = FALSE
    BY UiFields DEF IInv, Requests
  <1> HIDE DEF r
  <1>3. TypeOK'
    BY <1>1, <1>2 DEF IInv, TypeOK
  <1>4. TurnInv' /\ OneInv' /\ KeptInv'
    BY <1>1 DEF IInv, TurnInv, OneInv, OneConversation, KeptInv, Numbered
  <1>5. OwnInv'
    BY <1>1, <1>2 DEF IInv, OwnInv, OwnConversation
  <1> QED BY <1>3, <1>4, <1>5 DEF IInv

LEMMA ServeInv ==
  ASSUME IInv, NEW r \in requests, Serve(r)
  PROVE  IInv'
  <1> DEFINE left == IF r.op = "delete" THEN alive \ {r.session} ELSE alive
             q == IF r.op = "open" THEN [r EXCEPT !.served = TRUE]
                  ELSE [r EXCEPT !.served = TRUE, !.op = "list", !.session = New,
                                 !.list = Mine(r.actor, left)]
  <1>1. /\ alive' = left /\ requests' = (requests \ {r}) \cup {q}
        /\ r.session \in Mine(r.actor, alive)
        /\ UNCHANGED <<ui, turn, owner, moves, count, owed, adrift>>
    BY DEF Serve
  <1>2. r \in Requests /\ left \subseteq Sessions /\ Mine(r.actor, left) \subseteq Sessions
    BY DEF IInv, TypeOK, Mine
  <1>3. /\ q \in Requests
        /\ q.op = "open" => q.session = r.session /\ q.actor = r.actor
    <2> HIDE DEF left
    <2> QED BY <1>2 DEF Requests
  <1>4. owner[r.session] = r.actor
    BY <1>1 DEF Mine
  <1> HIDE DEF q, left
  <1>5. TypeOK'
    BY <1>1, <1>2, <1>3 DEF IInv, TypeOK
  <1>6. TurnInv' /\ OneInv' /\ KeptInv'
    BY <1>1 DEF IInv, TurnInv, OneInv, OneConversation, KeptInv, Numbered
  <1>7. OwnInv'
    BY <1>1, <1>3, <1>4 DEF IInv, OwnInv, OwnConversation
  <1> QED BY <1>5, <1>6, <1>7 DEF IInv

\* A reply to the current actor's click.
LEMMA LandInv ==
  ASSUME IInv, NEW r \in requests, Land(r) \/ Drop(r)
  PROVE  IInv'
  <1>1. /\ requests' = requests \ {r}
        /\ UNCHANGED <<turn, owner, alive, moves, count, owed>>
    BY DEF Land, Drop
  <1>2. /\ ui' \in UiStates /\ ui'.draft = ui.draft /\ ui'.files = ui.files
        /\ ui'.actor = ui.actor /\ ui'.boot = ui.boot /\ ui'.busy = ui.busy
        /\ \/ /\ ui'.active = ui.active /\ ui'.base = ui.base /\ ui'.bubble = ui.bubble
              /\ adrift' = adrift
           \/ /\ r.served /\ r.op = "open" /\ r.actor = ui.actor /\ ui'.active = r.session
              /\ ui'.base = r.session /\ ui'.bubble = FALSE /\ adrift' = (ui.boot # "ready")
           \/ /\ ui'.active = New /\ ui'.base = New /\ ui'.bubble = FALSE /\ adrift' = FALSE
    <2>1. ui \in UiStates /\ r \in Requests
      BY UiFields DEF IInv, TypeOK
    <2>2. CASE Drop(r)
      BY <2>1, <2>2 DEF Drop
    <2>3. CASE Land(r) /\ ~StillMine(r)
      BY <2>1, <2>3 DEF Land
    <2>4. CASE Land(r) /\ StillMine(r) /\ r.op = "open"
      <3>1. r.served /\ ui' = Show(ui, r.session) /\ adrift' = (ui.boot # "ready")
        BY <2>4 DEF Land
      <3> QED BY <2>1, <2>4, <3>1 DEF Show, UiStates, Requests, StillMine
    <2>5. CASE Land(r) /\ StillMine(r) /\ r.op # "open" /\ r.home
      <3>1. ui' = Show([ui EXCEPT !.list = r.list], New) /\ adrift' = FALSE
        BY <2>5 DEF Land
      <3> QED BY <2>1, <3>1 DEF Show, UiStates, Requests
    <2>6. CASE Land(r) /\ StillMine(r) /\ r.op # "open" /\ ~r.home
      <3>1. ui' = [ui EXCEPT !.list = r.list] /\ adrift' = adrift
        BY <2>6 DEF Land
      <3> QED BY <2>1, <3>1 DEF UiStates, Requests
    <2> QED BY <2>2, <2>3, <2>4, <2>5, <2>6
  <1>3. TypeOK'
    <2>1. adrift' \in BOOLEAN
      BY <1>2 DEF IInv, TypeOK
    <2> QED BY <1>1, <1>2, <2>1 DEF IInv, TypeOK
  <1>4. TurnInv' /\ KeptInv'
    BY <1>1, <1>2 DEF IInv, TurnInv, KeptInv, Numbered
  <1>5. OwnInv'
    BY <1>1, <1>2 DEF IInv, OwnInv, OwnConversation
  <1>6. OneInv'
    <2>1. CASE /\ ui'.active = ui.active /\ ui'.base = ui.base /\ ui'.bubble = ui.bubble
               /\ adrift' = adrift
      BY <1>1, <1>2, <2>1 DEF IInv, OneInv, OneConversation
    <2>2. CASE ui'.active = r.session /\ ui'.base = r.session /\ ui'.bubble = FALSE
               /\ adrift' = (ui.boot # "ready")
      <3>1. ui'.boot # "ready" => adrift'
        BY <1>2, <2>2
      <3> QED BY <2>2, <3>1 DEF OneInv, OneConversation
    <2>3. CASE ui'.active = New /\ ui'.base = New /\ ui'.bubble = FALSE
      BY <2>3 DEF OneInv, OneConversation
    <2> QED BY <1>2, <2>1, <2>2, <2>3
  <1> QED BY <1>3, <1>4, <1>5, <1>6 DEF IInv

-----------------------------------------------------------------------------
LEMMA NextInv == IInv /\ [Next]_vars => IInv'
  <1> SUFFICES ASSUME IInv, [Next]_vars PROVE IInv'
    OBVIOUS
  <1>1. CASE \E a \in Actors : SwitchActor(a)
    BY <1>1, SwitchActorInv
  <1>2. CASE BootArrives \/ BootFails \/ Retry \/ Revive
    BY <1>2, BootInv
  <1>3. CASE \E v \in {"chat", "panel"} : ChangeView(v)
    BY <1>3, ChangeViewInv
  <1>4. CASE Send \/ TurnMoves \/ Brief \/ NewSession
    BY <1>4, SendInv, AnswerInv, FailsInv, SessionsArriveInv, BriefInv, NewSessionInv
       DEF TurnMoves, StreamFails, SessionsFail, InFlight
  <1>5. CASE \/ \E kind \in {"text", "file"} : Enter(kind)
             \/ \E f \in ui.files : RemoveFile(f)
    BY <1>5, EnterInv, RemoveFileInv
  <1>6. CASE \E s \in Sessions : Take(s)
    BY <1>6, TakeInv
  <1>7. CASE \/ \E op \in {"open", "retitle", "delete"}, s \in Sessions : Ask(op, s)
             \/ \E r \in requests : Serve(r) \/ Drop(r) \/ Land(r)
    BY <1>7, AskInv, ServeInv, LandInv
  <1>8. CASE UNCHANGED vars
    BY <1>8 DEF vars, IInv, TypeOK, TurnInv, OwnInv, OwnConversation, OneInv,
                OneConversation, KeptInv, Numbered
  <1> QED BY <1>1, <1>2, <1>3, <1>4, <1>5, <1>6, <1>7, <1>8 DEF Next

\* The turn, the sessions it names and the entries it holds agree with the pane.
THEOREM Invariance == Spec => []IInv
  BY InitInv, NextInv, PTL DEF Spec

\* Pane, turns, requests and entries keep their form.
THEOREM TypeCorrect == Spec => []TypeOK
  <1>1. IInv => TypeOK
    BY DEF IInv
  <1> QED BY <1>1, Invariance, PTL

\* What is sent next goes to the conversation on the screen (App.tsx, handleSend
\* and the handlers of the list).
THEOREM OneConversationShown == Spec => []OneConversation
  <1>1. IInv => OneConversation
    BY DEF IInv, OneInv
  <1> QED BY <1>1, Invariance, PTL

\* Whatever is answered late, the conversation is the current actor's.
THEOREM OwnConversationShown == Spec => []OwnConversation
  <1>1. IInv => OwnConversation
    BY DEF IInv, OwnInv
  <1> QED BY <1>1, Invariance, PTL

\* Nothing that was entered is lost without one of the named excuses.
THEOREM NothingLost == Spec => []EntriesKept
  <1>1. IInv => EntriesKept
    BY DEF IInv, KeptInv, EntriesKept
  <1> QED BY <1>1, Invariance, PTL

-----------------------------------------------------------------------------
(* StreamClient: the inductive invariant *)

\* All attempts carry one request id, so there is one run.
Q == Stream!ClientRequestId(0)

\* The server has accepted that id or none.
OneId == accepted \subseteq {Q}

\* Every event but a recovery comes after the name of the run; only a run that has
\* begun settles.  Unnamed: of the first n events none names the run.
Unnamed(run, n) == \A i \in DOMAIN run : i <= n => run[i] = "run_recovered"
LogInv == /\ \A q \in Stream!RequestIds : \A i \in DOMAIN log[q] :
                log[q][i] \notin Stream!Beginning
                   => \E j \in DOMAIN log[q] : j < i /\ log[q][j] = "run_started"
          /\ \A q \in Stream!RequestIds : settled[q] => Stream!HasBegun(q)

\* What the client knows of the run, of its attempts and of what it has read.
RunKnown == /\ call.runId # Stream!NoRun => call.runId = Q /\ Q \in accepted
            /\ call.runId = Stream!NoRun => Unnamed(log[Q], call.lastEventId)
            /\ call.replaying => call.runId # Stream!NoRun
Tries    == call.at \in {"fetch", "delay"} => call.attempt < MaxStreamAttempts
\* An open connection has sent no event that the cursor has not passed.
Cursor   == /\ call.at = "open" => Q \in accepted /\ pos <= call.lastEventId
            /\ call.at # "thrown" => call.lastEventId <= Len(log[Q])
            /\ ~settled[Q] => call.lastEventId <= Len(log[Q])

StreamInv == Stream!TypeOK /\ OneId /\ LogInv /\ RunKnown /\ Tries /\ Cursor
             /\ Stream!TextIsTheLog

-----------------------------------------------------------------------------
\* The id of an attempt does not depend on the attempt.
LEMMA OneIdForAll ==
  /\ Q \in Stream!RequestIds /\ Q # Stream!NoRun /\ Q \in Nat
  /\ \A a : Stream!ClientRequestId(a) = Q
  BY StreamConstants DEF Q, Stream!ClientRequestId, Stream!RequestIds, Stream!NoRun

\* The connection that is open carries the events of that run.
LEMMA StreamedRun ==
  ASSUME NEW c \in Stream!Calls, c.runId # Stream!NoRun => c.runId = Q,
         c.replaying => c.runId # Stream!NoRun
  PROVE  Stream!Streamed(c) = Q
  BY OneIdForAll DEF Stream!Streamed

\* The ranges of the counters.
LEMMA Numbers ==
  /\ \A n : n \in 0 .. MaxStreamAttempts <=> n \in Nat /\ n <= MaxStreamAttempts
  /\ \A n : n \in 0 .. MaxEvents + 2 <=> n \in Nat /\ n <= MaxEvents + 2
  /\ \A n : n \in 0 .. MaxEvents + 3 <=> n \in Nat /\ n <= MaxEvents + 3
  /\ \A n : n \in Stream!EventIds <=> n \in Nat /\ 1 <= n /\ n <= MaxEvents + 2
  /\ MaxStreamAttempts \in Nat /\ 0 < MaxStreamAttempts /\ MaxEvents \in Nat
  BY StreamConstants DEF Stream!EventIds

\* The fields of a call.
LEMMA Fields ==
  ASSUME NEW c \in Stream!Calls
  PROVE  /\ c.at \in {"fetch", "open", "delay", "returned", "thrown"}
         /\ c.attempt \in Nat /\ c.attempt <= MaxStreamAttempts
         /\ c.runId \in {Stream!NoRun} \cup Stream!RequestIds
         /\ c.lastEventId \in Nat /\ c.lastEventId <= MaxEvents + 3
         /\ c.replaying \in BOOLEAN /\ c.finalPayload \in BOOLEAN
         /\ c.copies \in [Stream!EventIds -> Nat]
  <1>1. c.attempt \in 0 .. MaxStreamAttempts /\ c.lastEventId \in 0 .. MaxEvents + 3
    BY DEF Stream!Calls
  <1> QED BY <1>1, Numbers DEF Stream!Calls

LEMMA CallFields ==
  ASSUME Stream!TypeOK
  PROVE  /\ call.lastEventId \in Nat /\ pos \in Nat /\ pos <= MaxEvents + 2
         /\ call.attempt \in Nat /\ call.attempt <= MaxStreamAttempts
  <1>1. call \in Stream!Calls /\ pos \in 0 .. MaxEvents + 2
    BY DEF Stream!TypeOK
  <1> QED BY <1>1, Fields, Numbers

LEMMA LogOfRun ==
  ASSUME Stream!TypeOK
  PROVE  /\ log[Q] \in Seq(Stream!Kinds) /\ Len(log[Q]) \in Nat /\ Len(log[Q]) <= MaxEvents + 2
         /\ DOMAIN log[Q] = 1 .. Len(log[Q])
  <1>1. log[Q] \in Stream!Logs
    BY OneIdForAll DEF Stream!TypeOK
  <1> QED BY <1>1 DEF Stream!Logs

LEMMA StreamInitInv == Stream!Init => StreamInv
  <1> SUFFICES ASSUME Stream!Init PROVE StreamInv
    OBVIOUS
  <1>1. << >> \in Stream!Logs
    BY StreamConstants DEF Stream!Logs
  <1>2. /\ Stream!NoText \in [Stream!EventIds -> Nat]
        /\ \A i \in Stream!EventIds : Stream!NoText[i] = 0
    BY DEF Stream!NoText
  <1>3. /\ call.at = "fetch" /\ call.attempt = 0 /\ call.runId = 0 /\ call.lastEventId = 0
        /\ call.replaying = FALSE /\ call.copies = Stream!NoText
        /\ accepted = {} /\ pos = 0
        /\ \A q \in Stream!RequestIds : log[q] = << >> /\ settled[q] = FALSE
    BY DEF Stream!Init, Stream!NoRun
  <1>4. Stream!TypeOK
    <2>1. call \in Stream!Calls
      <3>1. call = [at |-> "fetch", attempt |-> 0, runId |-> Stream!NoRun, lastEventId |-> 0,
                    replaying |-> FALSE, finalPayload |-> FALSE, copies |-> Stream!NoText,
                    outcome |-> ""]
        BY DEF Stream!Init
      <3>2. 0 \in 0 .. MaxStreamAttempts /\ 0 \in 0 .. MaxEvents + 3
        BY Numbers
      <3> QED BY <1>2, <3>1, <3>2 DEF Stream!Calls
    <2>2. /\ log \in [Stream!RequestIds -> Stream!Logs]
          /\ settled \in [Stream!RequestIds -> BOOLEAN]
      BY <1>1 DEF Stream!Init
    <2> QED BY <2>1, <2>2, <1>3, StreamConstants DEF Stream!TypeOK
  <1>5. OneId /\ LogInv /\ RunKnown
    <2>1. DOMAIN << >> = {}
      OBVIOUS
    <2>2. LogInv
      BY <1>3, <2>1 DEF LogInv
    <2>3. Unnamed(log[Q], call.lastEventId)
      BY <1>3, <2>1, OneIdForAll DEF Unnamed
    <2> QED BY <1>3, <2>2, <2>3 DEF OneId, RunKnown, Stream!NoRun
  <1>6. Tries
    BY <1>3, StreamConstants DEF Tries
  <1>7. Cursor
    <2>1. Len(log[Q]) = 0
      BY <1>3, OneIdForAll
    <2> QED BY <2>1, <1>3 DEF Cursor
  <1>8. Stream!TextIsTheLog
    BY <1>2, <1>3 DEF Stream!TextIsTheLog, Stream!NoRun
  <1> QED BY <1>4, <1>5, <1>6, <1>7, <1>8 DEF StreamInv

-----------------------------------------------------------------------------
(* The run *)

\* Events are appended behind the cursor; the last one may settle the run.
LEMMA AppendInv ==
  ASSUME StreamInv, NEW q \in Stream!RequestIds, NEW kind \in Stream!Kinds,
         Stream!Append1(q, kind),
         kind \in Stream!Beginning \/ Stream!HasBegun(q),
         \/ UNCHANGED settled
         \/ Stream!HasBegun(q) /\ settled' = [settled EXCEPT ![q] = TRUE]
  PROVE  StreamInv'
  <1> USE DEF StreamInv
  <1>1. q = Q
    BY DEF Stream!Append1, OneId
  <1>2. /\ log' = [log EXCEPT ![Q] = Append(log[Q], kind)] /\ ~settled[Q]
        /\ Len(log[Q]) < MaxEvents + 2 /\ UNCHANGED <<accepted, call, pos>>
    BY <1>1 DEF Stream!Append1
  <1>3. log \in [Stream!RequestIds -> Stream!Logs] /\ Q \in Stream!RequestIds
    BY OneIdForAll DEF Stream!TypeOK
  <1>4. /\ log[Q] \in Seq(Stream!Kinds) /\ Len(log[Q]) \in Nat
        /\ log'[Q] = Append(log[Q], kind)
        /\ \A p \in Stream!RequestIds : p # Q => log'[p] = log[p]
    BY <1>2, <1>3, LogOfRun
  <1>5. /\ Len(log'[Q]) = Len(log[Q]) + 1 /\ log'[Q] \in Seq(Stream!Kinds)
        /\ \A i \in 1 .. Len(log[Q]) : log'[Q][i] = log[Q][i]
        /\ log'[Q][Len(log[Q]) + 1] = kind
    BY <1>4
  <1>6. log' \in [Stream!RequestIds -> Stream!Logs]
    <2>1. log'[Q] \in Stream!Logs
      BY <1>2, <1>4, <1>5, StreamConstants DEF Stream!Logs
    <2> QED BY <2>1, <1>2, <1>3, <1>4
  <1>7. Stream!TypeOK'
    BY <1>2, <1>6 DEF Stream!TypeOK
  <1>0. call.lastEventId \in Nat /\ pos \in Nat
    BY CallFields
  <1>8. DOMAIN log[Q] = 1 .. Len(log[Q]) /\ DOMAIN log'[Q] = 1 .. Len(log[Q]) + 1
    BY <1>4, <1>5
  <1>9. LogInv'
    <2>1. ASSUME NEW i \in DOMAIN log'[Q], log'[Q][i] \notin Stream!Beginning
          PROVE  \E j \in DOMAIN log'[Q] : j < i /\ log'[Q][j] = "run_started"
      <3>1. CASE i \in DOMAIN log[Q]
        <4>1. PICK j \in DOMAIN log[Q] : j < i /\ log[Q][j] = "run_started"
          BY <1>3, <1>5, <1>8, <2>1, <3>1 DEF LogInv
        <4> QED BY <1>5, <1>8, <4>1
      <3>2. CASE i = Len(log[Q]) + 1
        <4>1. Stream!HasBegun(Q)
          BY <1>1, <1>5, <2>1, <3>2
        <4>2. PICK j \in DOMAIN log[Q] : log[Q][j] = "run_started"
          BY <4>1 DEF Stream!HasBegun
        <4> QED BY <1>4, <1>5, <1>8, <3>2, <4>2
      <3> QED BY <1>4, <1>8, <3>1, <3>2
    <2>2. Stream!HasBegun(Q) => Stream!HasBegun(Q)'
      BY <1>5, <1>8, <1>4 DEF Stream!HasBegun
    <2>3. \A p \in Stream!RequestIds : p # Q => (Stream!HasBegun(p)' <=> Stream!HasBegun(p))
      BY <1>4 DEF Stream!HasBegun
    <2>4. ASSUME NEW p \in Stream!RequestIds, settled'[p] PROVE Stream!HasBegun(p)'
      <3>1. settled[p] => Stream!HasBegun(p)
        BY DEF LogInv
      <3>2. settled[p] \/ (p = Q /\ Stream!HasBegun(p))
        BY <1>1, <2>4 DEF Stream!TypeOK
      <3> QED BY <2>2, <2>3, <3>1, <3>2
    <2>5. ASSUME NEW p \in Stream!RequestIds, NEW i \in DOMAIN log'[p],
                 log'[p][i] \notin Stream!Beginning
          PROVE  \E j \in DOMAIN log'[p] : j < i /\ log'[p][j] = "run_started"
      <3>1. CASE p = Q
        BY <2>1, <2>5, <3>1
      <3>2. CASE p # Q
        BY <1>4, <2>5, <3>2 DEF LogInv
      <3> QED BY <3>1, <3>2
    <2> QED BY <2>4, <2>5 DEF LogInv, Stream!Beginning
  <1>10. call.lastEventId <= Len(log[Q]) /\ call.lastEventId \in Nat
    BY <1>0, <1>2 DEF Cursor
  <1>11. OneId' /\ RunKnown' /\ Tries'
    <2>1. Unnamed(log[Q], call.lastEventId) <=> Unnamed(log'[Q], call.lastEventId)
      BY <1>5, <1>8, <1>10, <1>4 DEF Unnamed
    <2> QED BY <1>2, <2>1 DEF OneId, RunKnown, Tries
  <1>12. Cursor'
    BY <1>0, <1>2, <1>5, <1>4, <1>10 DEF Cursor
  <1>13. \A i \in Stream!EventIds : Stream!InText(log[Q], call.lastEventId, i)
                              <=> Stream!InText(log'[Q], call.lastEventId, i)
    BY <1>4, <1>5, <1>8, <1>10 DEF Stream!InText, Stream!EventIds
  <1>14. Stream!TextIsTheLog'
    BY <1>2, <1>11, <1>13 DEF Stream!TextIsTheLog, RunKnown
  <1> QED BY <1>7, <1>9, <1>11, <1>12, <1>14

LEMMA SettleInv ==
  ASSUME StreamInv, NEW q \in Stream!RequestIds, Stream!RunSettles(q)
  PROVE  StreamInv'
  <1> USE DEF StreamInv
  <1>1. /\ Stream!HasBegun(q) /\ settled' = [settled EXCEPT ![q] = TRUE]
        /\ UNCHANGED <<accepted, log, call, pos>>
    BY DEF Stream!RunSettles
  <1>2. Stream!TypeOK'
    BY <1>1 DEF Stream!TypeOK
  <1>3. settled \in [Stream!RequestIds -> BOOLEAN] /\ Q \in Stream!RequestIds
    BY OneIdForAll DEF Stream!TypeOK
  <1>4. LogInv'
    BY <1>1, <1>3 DEF LogInv, Stream!HasBegun
  <1>5. settled[Q] => settled'[Q]
    BY <1>1, <1>3
  <1>6. OneId' /\ RunKnown' /\ Tries' /\ Cursor' /\ Stream!TextIsTheLog'
    BY <1>1, <1>5 DEF OneId, RunKnown, Tries, Cursor, Stream!TextIsTheLog
  <1> QED BY <1>2, <1>4, <1>6

LEMMA RunInv ==
  ASSUME StreamInv, NEW q \in Stream!RequestIds, Stream!Runs(q)
  PROVE  StreamInv'
  <1>1. CASE Stream!RunBegins(q)
    BY <1>1, AppendInv DEF Stream!RunBegins, Stream!Kinds, Stream!Beginning
  <1>2. CASE Stream!RunTalks(q)
    BY <1>2, AppendInv DEF Stream!RunTalks, Stream!Kinds
  <1>3. CASE Stream!RunSpeaks(q)
    BY <1>3, AppendInv DEF Stream!RunSpeaks, Stream!Kinds
  <1>4. CASE Stream!RunEvolves(q)
    <2>1. Stream!HasBegun(q)
      BY <1>4 DEF Stream!RunEvolves, Stream!HasSpoken, Stream!HasBegun, StreamInv, LogInv,
                  Stream!LastWords, Stream!Beginning
    <2> QED BY <1>4, <2>1, AppendInv DEF Stream!RunEvolves, Stream!Kinds
  <1>5. CASE Stream!RunSettles(q)
    BY <1>5, SettleInv
  <1> QED BY <1>1, <1>2, <1>3, <1>4, <1>5 DEF Stream!Runs

-----------------------------------------------------------------------------
(* The client *)

\* What the invariant says of a call, a cursor of the server and the accepted
\* ids, beside the number of attempts.
Sound(c, p, acc) ==
    /\ c \in Stream!Calls /\ p \in 0 .. MaxEvents + 2 /\ acc \subseteq {Q}
    /\ c.runId # Stream!NoRun => c.runId = Q /\ Q \in acc
    /\ c.runId = Stream!NoRun => Unnamed(log[Q], c.lastEventId)
    /\ c.replaying => c.runId # Stream!NoRun
    /\ c.at = "open" => Q \in acc /\ p <= c.lastEventId
    /\ c.at # "thrown" => c.lastEventId <= Len(log[Q])
    /\ ~settled[Q] => c.lastEventId <= Len(log[Q])
    /\ \A i \in Stream!EventIds :
         c.copies[i] = IF Stream!InText(log[Q], c.lastEventId, i) THEN 1 ELSE 0

TriesLeft(c) == c.at \in {"fetch", "delay"} => c.attempt < MaxStreamAttempts

\* What is read before the name of the run is no text.
LEMMA NothingRead ==
  ASSUME NEW run, NEW i \in Stream!EventIds,
         NEW last, Unnamed(run, last)
  PROVE  ~Stream!InText(run, last, i)
  BY DEF Stream!InText, Unnamed

LEMMA Known ==
  ASSUME StreamInv
  PROVE  Sound(call, pos, accepted) /\ TriesLeft(call)
  <1>1. \A i \in Stream!EventIds :
          call.copies[i] = IF Stream!InText(log[Q], call.lastEventId, i) THEN 1 ELSE 0
    <2>1. CASE call.runId = Stream!NoRun
      BY <2>1, NothingRead DEF StreamInv, RunKnown, Stream!TextIsTheLog
    <2>2. CASE call.runId # Stream!NoRun
      BY <2>2 DEF StreamInv, RunKnown, Stream!TextIsTheLog
    <2> QED BY <2>1, <2>2
  <1> QED BY <1>1 DEF StreamInv, Stream!TypeOK, OneId, RunKnown, Tries, Cursor, Sound, TriesLeft

LEMMA ClientStep ==
  ASSUME StreamInv, UNCHANGED <<log, settled>>, Sound(call', pos', accepted'), TriesLeft(call')
  PROVE  StreamInv'
  <1>1. Stream!TypeOK' /\ OneId' /\ LogInv' /\ RunKnown' /\ Tries' /\ Cursor'
    BY OneIdForAll
       DEF StreamInv, Stream!TypeOK, OneId, LogInv, Stream!HasBegun, RunKnown, Tries, Cursor,
           Sound, TriesLeft
  <1>2. Stream!TextIsTheLog'
    <2>1. CASE call'.runId = Stream!NoRun
      BY <2>1, NothingRead DEF Sound, Stream!TextIsTheLog
    <2>2. CASE call'.runId # Stream!NoRun
      BY <2>2 DEF Sound, Stream!TextIsTheLog
    <2> QED BY <2>1, <2>2
  <1> QED BY <1>1, <1>2 DEF StreamInv

\* A call that gives up its connection stays sound.
LEMMA CaughtSound ==
  ASSUME NEW c, NEW p, NEW acc, Sound(c, p, acc), c.at # "thrown"
  PROVE  Sound(Stream!Caught(c), p, acc) /\ TriesLeft(Stream!Caught(c))
  <1>1. c \in Stream!Calls /\ c.attempt \in Nat /\ c.attempt <= MaxStreamAttempts
    BY Fields DEF Sound
  <1>2. CASE c.attempt >= MaxStreamAttempts
    <2>1. Stream!Caught(c) = [c EXCEPT !.at = "thrown", !.outcome = "lost"]
      BY <1>2 DEF Stream!Caught
    <2> HIDE DEF Stream!Caught
    <2>2. Stream!Caught(c) \in Stream!Calls
      BY <1>1, <2>1 DEF Stream!Calls
    <2>3. /\ Stream!Caught(c).at = "thrown" /\ Stream!Caught(c).runId = c.runId
          /\ Stream!Caught(c).lastEventId = c.lastEventId
          /\ Stream!Caught(c).replaying = c.replaying
          /\ Stream!Caught(c).copies = c.copies
      BY <1>1, <2>1 DEF Stream!Calls
    <2> QED BY <2>2, <2>3 DEF Sound, TriesLeft
  <1>3. CASE c.attempt < MaxStreamAttempts
    <2>1. Stream!Caught(c) = [c EXCEPT !.at = "delay"]
      BY <1>1, <1>3, Numbers DEF Stream!Caught
    <2>2. Stream!Caught(c) \in Stream!Calls
      BY <1>1, <2>1 DEF Stream!Calls
    <2>3. /\ Stream!Caught(c).at = "delay" /\ Stream!Caught(c).runId = c.runId
          /\ Stream!Caught(c).lastEventId = c.lastEventId
          /\ Stream!Caught(c).replaying = c.replaying
          /\ Stream!Caught(c).copies = c.copies /\ Stream!Caught(c).attempt = c.attempt
      BY <1>1, <2>1 DEF Stream!Calls
    <2> QED BY <1>3, <2>2, <2>3 DEF Sound, TriesLeft
  <1> QED BY <1>1, <1>2, <1>3, Numbers

\* The head of the loop.
LEMMA StartSound ==
  ASSUME StreamInv, call.at = "fetch"
  PROVE  /\ Sound(Stream!StartAttempt(call), pos, accepted)
         /\ Stream!StartAttempt(call).at = "fetch"
         /\ Stream!StartAttempt(call).replaying = (call.runId # Stream!NoRun)
         /\ Stream!StartAttempt(call).runId = call.runId
         /\ Stream!StartAttempt(call).lastEventId = call.lastEventId
  <1>1. Sound(call, pos, accepted) /\ TriesLeft(call) /\ call \in Stream!Calls
    BY Known DEF Sound
  <1>2. call.attempt + 1 \in 0 .. MaxStreamAttempts
    BY <1>1, Fields, Numbers DEF TriesLeft
  <1>3. Stream!StartAttempt(call) = [call EXCEPT !.attempt = call.attempt + 1,
                                          !.replaying = call.runId # Stream!NoRun]
    BY DEF Stream!StartAttempt
  <1>4. Stream!StartAttempt(call) \in Stream!Calls
    BY <1>1, <1>2, <1>3 DEF Stream!Calls
  <1>5. /\ Stream!StartAttempt(call).at = "fetch"
        /\ Stream!StartAttempt(call).replaying = (call.runId # Stream!NoRun)
        /\ Stream!StartAttempt(call).runId = call.runId
        /\ Stream!StartAttempt(call).lastEventId = call.lastEventId
        /\ Stream!StartAttempt(call).copies = call.copies
    BY <1>1, <1>3 DEF Stream!Calls
  <1> QED BY <1>1, <1>4, <1>5 DEF Sound

\* Asking once more adds no second id.
LEMMA ReachesSound ==
  ASSUME NEW c, NEW p, NEW acc, Sound(c, p, acc), acc = accepted
  PROVE  /\ Sound(c, p, Stream!Reaches(c))
         /\ c.replaying = (c.runId # Stream!NoRun) => Q \in Stream!Reaches(c)
  BY OneIdForAll DEF Sound, Stream!Reaches

LEMMA ConnectInv ==
  ASSUME StreamInv, Stream!Connect
  PROVE  StreamInv'
  <1> DEFINE c == Stream!StartAttempt(call)
  <1>1. /\ call.at = "fetch" /\ accepted' = Stream!Reaches(c)
        /\ call' = [c EXCEPT !.at = "open"]
        /\ pos' = Stream!After(c) /\ UNCHANGED <<log, settled>>
    BY DEF Stream!Connect
  <1>2. /\ Sound(c, pos, accepted) /\ Sound(c, pos, Stream!Reaches(c))
        /\ Q \in Stream!Reaches(c)
        /\ c.replaying = (c.runId # Stream!NoRun) /\ c.at = "fetch"
    BY <1>1, StartSound, ReachesSound
  <1> HIDE DEF c
  <1>3. c \in Stream!Calls
    BY <1>2 DEF Sound
  <1>4. call' \in Stream!Calls
    BY <1>1, <1>3 DEF Stream!Calls
  <1>5. /\ call'.at = "open" /\ call'.runId = c.runId /\ call'.replaying = c.replaying
        /\ call'.lastEventId = c.lastEventId /\ call'.copies = c.copies
    BY <1>1, <1>3 DEF Stream!Calls
  <1>6. c.lastEventId \in Nat /\ c.lastEventId <= Len(log[Q])
    BY <1>2, <1>3, Fields DEF Sound
  <1>7. pos' \in 0 .. MaxEvents + 2 /\ pos' <= c.lastEventId
    <2>1. Len(log[Q]) \in Nat /\ Len(log[Q]) <= MaxEvents + 2
      BY LogOfRun DEF StreamInv
    <2>2. pos' \in Nat /\ pos' <= c.lastEventId
      BY <1>1, <1>6 DEF Stream!After
    <2> QED BY <1>6, <2>1, <2>2, Numbers
  <1>8. Sound(call', pos', accepted') /\ TriesLeft(call')
    BY <1>1, <1>2, <1>4, <1>5, <1>6, <1>7 DEF Sound, TriesLeft
  <1> QED BY <1>1, <1>8, ClientStep

LEMMA ConnectFailsInv ==
  ASSUME StreamInv, Stream!ConnectFails
  PROVE  StreamInv'
  <1> DEFINE c == Stream!StartAttempt(call)
  <1>1. /\ call.at = "fetch" /\ accepted' \in {accepted, Stream!Reaches(c)}
        /\ call' = Stream!Caught(c)
        /\ UNCHANGED <<log, settled, pos>>
    BY DEF Stream!ConnectFails
  <1>2. c.at = "fetch" /\ Sound(c, pos, accepted) /\ Sound(c, pos, Stream!Reaches(c))
    BY <1>1, StartSound, ReachesSound
  <1> HIDE DEF c
  <1>3. Sound(Stream!Caught(c), pos, accepted') /\ TriesLeft(Stream!Caught(c))
    BY <1>1, <1>2, CaughtSound
  <1>4. Sound(call', pos', accepted') /\ TriesLeft(call')
    BY <1>1, <1>3
  <1> QED BY <1>1, <1>4, ClientStep

LEMMA RefuseInv ==
  ASSUME StreamInv, Stream!Refuse
  PROVE  StreamInv'
  <1> DEFINE c == Stream!StartAttempt(call)
  <1>1. /\ call.at = "fetch" /\ UNCHANGED <<accepted, log, settled, pos>>
        /\ call' = [c EXCEPT !.at = "thrown", !.outcome = "refused"]
    BY DEF Stream!Refuse
  <1>2. Sound(c, pos, accepted) /\ c.at = "fetch"
    BY <1>1, StartSound
  <1> HIDE DEF c
  <1>3. c \in Stream!Calls
    BY <1>2 DEF Sound
  <1>4. call' \in Stream!Calls
    BY <1>1, <1>3 DEF Stream!Calls
  <1>5. /\ call'.at = "thrown" /\ call'.runId = c.runId /\ call'.replaying = c.replaying
        /\ call'.lastEventId = c.lastEventId /\ call'.copies = c.copies
    BY <1>1, <1>3 DEF Stream!Calls
  <1>6. Sound(call', pos', accepted') /\ TriesLeft(call')
    BY <1>1, <1>2, <1>4, <1>5 DEF Sound, TriesLeft
  <1> QED BY <1>1, <1>6, ClientStep

-----------------------------------------------------------------------------
(* An accepted event *)

\* One more event is read: a delta joins the text, a reset empties it.
LEMMA OneMore ==
  ASSUME NEW run, NEW n \in Nat, DOMAIN run = 1 .. n, NEW last \in Nat, last + 1 <= n,
         NEW i \in Stream!EventIds
  PROVE  /\ run[last + 1] = "delta" =>
               (Stream!InText(run, last + 1, i) <=> i = last + 1 \/ Stream!InText(run, last, i))
         /\ run[last + 1] = "model_output_reset" => ~Stream!InText(run, last + 1, i)
         /\ run[last + 1] \notin {"delta", "model_output_reset"} =>
               (Stream!InText(run, last + 1, i) <=> Stream!InText(run, last, i))
         /\ ~Stream!InText(run, last, last + 1)
  <1>1. i \in Nat /\ 1 <= i /\ last + 1 \in DOMAIN run
    BY Numbers
  <1>2. ~Stream!InText(run, last, last + 1)
    BY DEF Stream!InText
  <1>3. ASSUME run[last + 1] # "model_output_reset", i # last + 1
        PROVE  Stream!InText(run, last + 1, i) <=> Stream!InText(run, last, i)
    BY <1>1, <1>3 DEF Stream!InText
  <1>4. ASSUME run[last + 1] = "delta", i = last + 1
        PROVE  Stream!InText(run, last + 1, i)
    BY <1>1, <1>4 DEF Stream!InText
  <1>5. ASSUME run[last + 1] = "model_output_reset"
        PROVE  ~Stream!InText(run, last + 1, i)
    BY <1>1, <1>5 DEF Stream!InText
  <1>6. ASSUME run[last + 1] \notin {"delta", "model_output_reset"}, i = last + 1
        PROVE  ~Stream!InText(run, last + 1, i) /\ ~Stream!InText(run, last, i)
    BY <1>2, <1>6 DEF Stream!InText
  <1> QED BY <1>2, <1>3, <1>4, <1>5, <1>6

\* What the handler makes of each field.
Read(c, id, kind, q, h) ==
    /\ h \in Stream!Calls /\ h.lastEventId = id /\ h.replaying = c.replaying
    /\ h.at \in {"open", "thrown"}
    /\ h.runId = IF kind = "run_started" THEN q ELSE c.runId
    /\ h.copies = IF kind = "delta" THEN [c.copies EXCEPT ![id] = @ + 1]
                  ELSE IF kind = "model_output_reset" THEN Stream!NoText ELSE c.copies

LEMMA HandledFields ==
  ASSUME NEW c \in Stream!Calls, c.at = "open", NEW id \in Stream!EventIds,
         NEW kind \in Stream!Kinds,
         NEW q \in Stream!RequestIds, NEW h, h = Stream!Handled(c, id, kind, q)
  PROVE  Read(c, id, kind, q, h)
  <1> DEFINE seen == [c EXCEPT !.lastEventId = id]
  <1>1. id \in 0 .. MaxEvents + 3
    BY Numbers
  <1>2. /\ seen \in Stream!Calls /\ seen.lastEventId = id /\ seen.at = "open"
        /\ seen.replaying = c.replaying /\ seen.runId = c.runId /\ seen.copies = c.copies
    BY <1>1 DEF Stream!Calls
  <1>3. /\ Stream!NoText \in [Stream!EventIds -> Nat] /\ c.copies \in [Stream!EventIds -> Nat]
        /\ [c.copies EXCEPT ![id] = @ + 1] \in [Stream!EventIds -> Nat]
    BY Fields DEF Stream!NoText
  <1>4. h = CASE kind = "delta"              -> [seen EXCEPT !.copies[id] = @ + 1]
             [] kind = "model_output_reset" -> [seen EXCEPT !.copies = Stream!NoText]
             [] kind = "run_started"        -> [seen EXCEPT !.runId = q]
             [] kind = "error"              -> [seen EXCEPT !.at = "thrown",
                                                            !.outcome = "run_error"]
             [] kind = "final"              -> [seen EXCEPT !.finalPayload = TRUE]
             [] OTHER                       -> seen
    BY DEF Stream!Handled
  <1> HIDE DEF seen
  <1> USE DEF Read
  <1>5. CASE kind = "delta"
    <2>1. h = [seen EXCEPT !.copies = [c.copies EXCEPT ![id] = @ + 1]]
      BY <1>2, <1>4, <1>5 DEF Stream!Calls
    <2> QED BY <1>2, <1>3, <1>5, <2>1 DEF Stream!Calls
  <1>6. CASE kind = "model_output_reset"
    <2>1. h = [seen EXCEPT !.copies = Stream!NoText]
      BY <1>4, <1>6
    <2> QED BY <1>2, <1>3, <1>6, <2>1 DEF Stream!Calls
  <1>7. CASE kind = "run_started"
    <2>1. h = [seen EXCEPT !.runId = q]
      BY <1>4, <1>7
    <2> QED BY <1>2, <1>7, <2>1 DEF Stream!Calls
  <1>8. CASE kind = "error"
    <2>1. h = [seen EXCEPT !.at = "thrown", !.outcome = "run_error"]
      BY <1>4, <1>8
    <2> QED BY <1>2, <1>8, <2>1 DEF Stream!Calls
  <1>9. CASE kind = "final"
    <2>1. h = [seen EXCEPT !.finalPayload = TRUE]
      BY <1>4, <1>9
    <2> QED BY <1>2, <1>9, <2>1 DEF Stream!Calls
  <1>10. CASE kind \notin {"delta", "model_output_reset", "run_started", "error", "final"}
    <2>1. h = seen
      BY <1>4, <1>10
    <2> QED BY <1>2, <1>10, <2>1
  <1> QED BY <1>5, <1>6, <1>7, <1>8, <1>9, <1>10

\* The next frame of the connection, read or dropped as already seen.
LEMMA DeliverInv ==
  ASSUME StreamInv, Stream!Deliver
  PROVE  StreamInv'
  <1> DEFINE id == pos + 1
             run == log[Q]
             kind == run[id]
             h == Stream!Handled(call, id, kind, Q)
  <1>1. /\ Sound(call, pos, accepted) /\ TriesLeft(call)
        /\ call \in Stream!Calls /\ call.at = "open"
    BY Known DEF Sound, Stream!Deliver
  <1>2. Stream!Streamed(call) = Q
    BY <1>1, StreamedRun DEF Sound
  <1>3. /\ pos < Len(run) /\ pos' = id /\ UNCHANGED <<accepted, log, settled>>
        /\ call' = IF id > call.lastEventId THEN h ELSE call
    BY <1>2 DEF Stream!Deliver, Stream!Accepts
  <1>4. /\ run \in Seq(Stream!Kinds) /\ Len(run) \in Nat /\ Len(run) <= MaxEvents + 2
        /\ DOMAIN run = 1 .. Len(run)
    BY LogOfRun DEF StreamInv
  <1>5. call.lastEventId \in Nat /\ pos \in Nat /\ pos <= call.lastEventId
    BY <1>1, CallFields DEF StreamInv, Sound
  <1>6. id \in Stream!EventIds /\ id \in 0 .. MaxEvents + 2 /\ id <= Len(run) /\ id \in Nat
    BY <1>3, <1>4, <1>5, Numbers
  <1>7. CASE id > call.lastEventId
    <2>1. call.lastEventId = pos /\ id = call.lastEventId + 1
      BY <1>5, <1>7
    <2>2. kind \in Stream!Kinds
      <3>1. id \in 1 .. Len(run)
        BY <1>6, <1>4, Numbers
      <3> HIDE DEF run, id
      <3>2. run[id] \in Stream!Kinds
        BY <1>4, <3>1
      <3> QED BY <3>2
    <2>0. h = Stream!Handled(call, id, kind, Q)
      OBVIOUS
    <2> HIDE DEF run, id, kind, h
    <2>3. Read(call, id, kind, Q, h)
      BY <1>1, <1>6, <2>0, <2>2, OneIdForAll, HandledFields
    <2> USE DEF Read
    <2>4. /\ h.runId # Stream!NoRun => h.runId = Q
          /\ h.runId = Stream!NoRun => Unnamed(run, id)
      <3>1. CASE call.runId # Stream!NoRun
        BY <1>1, <2>3, <3>1, OneIdForAll DEF Sound
      <3>2. CASE call.runId = Stream!NoRun /\ kind = "run_started"
        BY <2>3, <3>2, OneIdForAll
      <3>3. CASE call.runId = Stream!NoRun /\ kind # "run_started"
        <4>1. Unnamed(run, pos)
          BY <1>1, <2>1, <3>3 DEF Sound, run
        <4>2. id \in DOMAIN run /\ id = pos + 1
          BY <1>4, <1>5, <1>6 DEF id
        <4>3. \A i \in DOMAIN run : i < id => run[i] # "run_started"
          BY <1>4, <1>5, <4>1, <4>2 DEF Unnamed
        <4>4. kind \in Stream!Beginning
          BY <4>2, <4>3, OneIdForAll DEF StreamInv, LogInv, run, kind
        <4>5. Unnamed(run, id)
          BY <1>4, <1>5, <3>3, <4>1, <4>2, <4>4 DEF Unnamed, kind, Stream!Beginning
        <4> QED BY <2>3, <3>3, <4>5
      <3> QED BY <3>1, <3>2, <3>3
    <2>5. ASSUME NEW i \in Stream!EventIds
          PROVE  h.copies[i] = IF Stream!InText(run, id, i) THEN 1 ELSE 0
      <3>1. /\ kind = "delta"
                  => (Stream!InText(run, id, i) <=> i = id \/ Stream!InText(run, pos, i))
            /\ kind = "model_output_reset" => ~Stream!InText(run, id, i)
            /\ kind \notin {"delta", "model_output_reset"} =>
                 (Stream!InText(run, id, i) <=> Stream!InText(run, pos, i))
            /\ ~Stream!InText(run, pos, id)
        <4>1. id = pos + 1 /\ kind = run[pos + 1]
          BY DEF id, kind
        <4> QED BY <1>4, <1>5, <1>6, <4>1, OneMore
      <3>2. call.copies \in [Stream!EventIds -> Nat]
        BY <1>1, Fields
      <3>3. \A j \in Stream!EventIds :
              call.copies[j] = IF Stream!InText(run, pos, j) THEN 1 ELSE 0
        BY <1>1, <2>1 DEF Sound, run
      <3>4. CASE kind = "delta"
        <4>1. h.copies = [call.copies EXCEPT ![id] = @ + 1]
          BY <2>3, <3>4
        <4>2. CASE i = id
          BY <3>1, <3>2, <3>3, <3>4, <4>1, <4>2, <1>6
        <4>3. CASE i # id
          BY <3>1, <3>2, <3>3, <3>4, <4>1, <4>3, <1>6
        <4> QED BY <4>2, <4>3
      <3>5. CASE kind = "model_output_reset"
        BY <2>3, <3>1, <3>5 DEF Stream!NoText
      <3>6. CASE kind \notin {"delta", "model_output_reset"}
        BY <2>3, <3>1, <3>3, <3>6
      <3> QED BY <3>4, <3>5, <3>6
    <2>6. call' = h
      BY <1>3, <1>7
    <2>7. call'.lastEventId <= Len(log[Q]) /\ pos' <= call'.lastEventId
      BY <1>3, <1>6, <2>3, <2>6 DEF run
    <2>8. \A i \in Stream!EventIds :
            call'.copies[i] = IF Stream!InText(log[Q], call'.lastEventId, i) THEN 1 ELSE 0
      BY <2>3, <2>5, <2>6 DEF run
    <2>9. Sound(call', pos', accepted') /\ TriesLeft(call')
      BY <1>1, <1>3, <1>6, <2>3, <2>4, <2>6, <2>7, <2>8, OneIdForAll
         DEF Sound, TriesLeft, run
    <2> QED BY <1>3, <2>9, ClientStep
  <1>8. CASE ~(id > call.lastEventId)
    <2>1. call' = call /\ id <= call.lastEventId
      BY <1>3, <1>5, <1>6, <1>8
    <2>2. Sound(call', pos', accepted') /\ TriesLeft(call')
      BY <1>1, <1>3, <1>6, <2>1 DEF Sound, TriesLeft
    <2> QED BY <1>3, <2>2, ClientStep
  <1> QED BY <1>7, <1>8

\* The made-up error comes behind the last event, and changes no text.
LEMMA DeliverMissingEndInv ==
  ASSUME StreamInv, Stream!DeliverMissingEnd
  PROVE  StreamInv'
  <1> DEFINE run == log[Q]
  <1>1. /\ Sound(call, pos, accepted) /\ TriesLeft(call)
        /\ call \in Stream!Calls /\ call.at = "open"
    BY Known DEF Sound, Stream!DeliverMissingEnd
  <1>2. Stream!Streamed(call) = Q
    BY <1>1, StreamedRun DEF Sound
  <1>3. /\ pos = Len(run) /\ settled[Q] /\ UNCHANGED <<accepted, log, settled, pos>>
        /\ call' = [call EXCEPT !.lastEventId = pos + 1, !.at = "thrown",
                                !.outcome = "run_error"]
    BY <1>2 DEF Stream!DeliverMissingEnd
  <1>4. Len(run) \in Nat /\ Len(run) <= MaxEvents + 2 /\ DOMAIN run = 1 .. Len(run)
    BY LogOfRun DEF StreamInv
  <1>5. call.lastEventId = pos
    BY <1>1, <1>3, <1>4, CallFields DEF StreamInv, Sound
  <1>6. \E i \in DOMAIN run : i <= pos /\ run[i] = "run_started"
    BY <1>3, <1>4, OneIdForAll DEF StreamInv, LogInv, Stream!HasBegun
  <1>7. pos + 1 \in 0 .. MaxEvents + 3
    BY <1>3, <1>4, Numbers
  <1>8. call' \in Stream!Calls
    BY <1>1, <1>3, <1>7 DEF Stream!Calls
  <1>9. /\ call'.at = "thrown" /\ call'.runId = call.runId /\ call'.copies = call.copies
        /\ call'.replaying = call.replaying /\ call'.lastEventId = pos + 1
    BY <1>1, <1>3 DEF Stream!Calls
  <1>10. call.runId # Stream!NoRun
    BY <1>1, <1>5, <1>6 DEF Sound, Unnamed
  <1>11. \A i \in Stream!EventIds :
              Stream!InText(run, pos + 1, i) <=> Stream!InText(run, pos, i)
    BY <1>3, <1>4, Numbers DEF Stream!InText
  <1>12. Sound(call', pos', accepted') /\ TriesLeft(call')
    BY <1>1, <1>3, <1>5, <1>8, <1>9, <1>10, <1>11 DEF Sound, TriesLeft
  <1> QED BY <1>3, <1>12, ClientStep

\* A finished call stays as it is.
LEMMA FinishedInv ==
  ASSUME StreamInv, call.at \in {"open", "delay"}, call' \in Stream!Finished(call),
         UNCHANGED <<accepted, log, settled, pos>>
  PROVE  StreamInv'
  <1>1. Sound(call, pos, accepted) /\ call \in Stream!Calls
    BY Known DEF Sound
  <1>2. /\ call' \in Stream!Calls /\ call'.at \in {"returned", "thrown"}
        /\ call'.runId = call.runId /\ call'.copies = call.copies
        /\ call'.replaying = call.replaying /\ call'.lastEventId = call.lastEventId
    BY <1>1 DEF Stream!Finished, Stream!Calls
  <1>3. Sound(call', pos', accepted') /\ TriesLeft(call')
    BY <1>1, <1>2 DEF Sound, TriesLeft
  <1> QED BY <1>3, ClientStep

LEMMA EndOfBodyInv ==
  ASSUME StreamInv, Stream!EndOfBody
  PROVE  StreamInv'
  <1>1. CASE call.finalPayload
    BY <1>1, FinishedInv DEF Stream!EndOfBody
  <1>2. CASE ~call.finalPayload
    <2>1. Sound(Stream!Caught(call), pos, accepted) /\ TriesLeft(Stream!Caught(call))
      BY Known, CaughtSound DEF Stream!EndOfBody
    <2>2. Sound(call', pos', accepted') /\ TriesLeft(call') /\ UNCHANGED <<log, settled>>
      BY <1>2, <2>1 DEF Stream!EndOfBody
    <2> QED BY <2>2, ClientStep
  <1> QED BY <1>1, <1>2

LEMMA BreakInv ==
  ASSUME StreamInv, Stream!Break
  PROVE  StreamInv'
  <1>1. Sound(Stream!Caught(call), pos, accepted) /\ TriesLeft(Stream!Caught(call))
    BY Known, CaughtSound DEF Stream!Break
  <1>2. Sound(call', pos', accepted') /\ TriesLeft(call') /\ UNCHANGED <<log, settled>>
    BY <1>1 DEF Stream!Break
  <1> QED BY <1>2, ClientStep

LEMMA ResumeInv ==
  ASSUME StreamInv, Stream!Resume
  PROVE  StreamInv'
  <1>1. CASE call.finalPayload
    BY <1>1, FinishedInv DEF Stream!Resume
  <1>2. CASE ~call.finalPayload
    <2>1. /\ Sound(call, pos, accepted) /\ TriesLeft(call)
          /\ call \in Stream!Calls /\ call.at = "delay"
      BY Known DEF Sound, Stream!Resume
    <2>2. call' = [call EXCEPT !.at = "fetch"] /\ UNCHANGED <<accepted, log, settled, pos>>
      BY <1>2 DEF Stream!Resume
    <2>3. /\ call' \in Stream!Calls /\ call'.at = "fetch" /\ call'.attempt = call.attempt
          /\ call'.runId = call.runId /\ call'.copies = call.copies
          /\ call'.replaying = call.replaying /\ call'.lastEventId = call.lastEventId
      BY <2>1, <2>2 DEF Stream!Calls
    <2>4. Sound(call', pos', accepted') /\ TriesLeft(call')
      BY <2>1, <2>2, <2>3 DEF Sound, TriesLeft
    <2> QED BY <2>2, <2>4, ClientStep
  <1> QED BY <1>1, <1>2

-----------------------------------------------------------------------------
LEMMA StreamNextInv == StreamInv /\ [Stream!Next]_Stream!vars => StreamInv'
  <1> SUFFICES ASSUME StreamInv, [Stream!Next]_Stream!vars PROVE StreamInv'
    OBVIOUS
  <1>1. CASE Stream!Client
    BY <1>1, ConnectInv, ConnectFailsInv, RefuseInv, DeliverInv, DeliverMissingEndInv,
       EndOfBodyInv, BreakInv, ResumeInv DEF Stream!Client
  <1>2. ASSUME NEW q \in Stream!RequestIds, Stream!Runs(q) PROVE StreamInv'
    BY <1>2, RunInv
  <1>3. CASE UNCHANGED Stream!vars
    BY <1>3 DEF Stream!vars, StreamInv, Stream!TypeOK, OneId, LogInv, Stream!HasBegun,
       RunKnown, Tries, Cursor, Stream!TextIsTheLog
  <1> QED BY <1>1, <1>2, <1>3 DEF Stream!Next

\* The inductive invariant: one run behind the call, and a cursor between what
\* the connection has sent and what the run has said.
THEOREM StreamInvariance == Stream!Spec => []StreamInv
  BY StreamInitInv, StreamNextInv, PTL DEF Stream!Spec

\* The record of a call, the logs and the cursor keep their form.
THEOREM StreamTypeCorrect == Stream!Spec => []Stream!TypeOK
  <1>1. StreamInv => Stream!TypeOK
    BY DEF StreamInv
  <1> QED BY <1>1, StreamInvariance, PTL

\* Whatever breaks and however often the stream is resumed and the message posted
\* again: the message is executed as one run, the one the stream follows, and the
\* text on the screen is what that run has said up to the cursor.
THEOREM OneRunOneTextKept == Stream!Spec => []OneRunOneText
  <1>1. StreamInv => TextIsTheLog
    BY DEF StreamInv, Stream!TextIsTheLog, TextIsTheLog, Stream!InText, InText,
             Stream!EventIds, EventIds, Stream!NoRun, NoRun
  <1>2. StreamInv => OneRunPerCall
    <2> SUFFICES ASSUME StreamInv PROVE OneRunPerCall
      OBVIOUS
    <2>1. accepted = {} \/ accepted = {Q}
      BY DEF StreamInv, OneId
    <2>2. Cardinality({}) = 0 /\ Cardinality({Q}) = 1
      BY FS_EmptySet, FS_Singleton
    <2>3. Cardinality(accepted) <= 1
      BY <2>1, <2>2
    <2> QED BY <2>3 DEF StreamInv, RunKnown, OneRunPerCall, Stream!NoRun, NoRun
  <1>3. StreamInv => OneRunOneText
    BY <1>1, <1>2 DEF OneRunOneText
  <1> QED BY <1>3, StreamInvariance, PTL

-----------------------------------------------------------------------------
(* The runs behind the stream are those that ConversationRuns writes *)

Told == INSTANCE RunLog WITH Runs <- RequestIds

\* A step of one run as RunLog has it, within the bounds of StreamClient.
ToldStep(q) == /\ q \in accepted /\ Told!Step(q)
               /\ log' = [log EXCEPT ![q] = log'[q]]
               /\ settled' = [settled EXCEPT ![q] = settled'[q]]
               /\ log'[q] \in Logs
               /\ Len(log'[q]) <= MaxEvents \/ \E i \in DOMAIN log'[q] : log'[q][i] \in LastWords
               /\ UNCHANGED <<accepted, call, pos>>
ToldNext == Stream!Client \/ \E q \in RequestIds : ToldStep(q)
ToldSpec == Stream!Init /\ [][ToldNext]_Stream!vars

\* A run of RunLog settles only when it has spoken.
ToldInv == StreamInv /\ \A q \in Stream!RequestIds : settled[q] => Stream!HasSpoken(q)

LEMMA ToldStepRuns ==
  ASSUME ToldInv, NEW q \in Stream!RequestIds, ToldStep(q)
  PROVE  /\ Stream!Runs(q) \/ UNCHANGED Stream!vars
         /\ \A p \in Stream!RequestIds : settled'[p] => Stream!HasSpoken(p)'
  <1> DEFINE run == log[q]
             new == log'[q]
  <1>1. /\ q \in accepted /\ log' = [log EXCEPT ![q] = new] /\ new \in Logs
        /\ settled' = [settled EXCEPT ![q] = settled'[q]]
        /\ Len(new) <= MaxEvents \/ \E i \in DOMAIN new : new[i] \in LastWords
        /\ UNCHANGED <<accepted, call, pos>>
    BY DEF ToldStep
  <1>2. /\ log \in [Stream!RequestIds -> Stream!Logs] /\ settled \in [Stream!RequestIds -> BOOLEAN]
        /\ run \in Seq(Stream!Kinds) /\ new \in Seq(Stream!Kinds) /\ Len(new) <= MaxEvents + 2
        /\ settled[q] => Stream!HasSpoken(q)
        /\ \A p \in Stream!RequestIds : p # q => settled'[p] = settled[p] /\ log'[p] = log[p]
    BY <1>1 DEF ToldInv, StreamInv, Stream!TypeOK, Stream!Logs, Logs, Stream!Kinds, Kinds,
       Stream!Beginning, Beginning, Stream!Chatter, Chatter, Stream!LastWords, LastWords
  <1>3. /\ Told!Said(q, Told!LastWords) <=> Stream!HasSpoken(q)
        /\ Told!Said(q, {"run_started"}) <=> Stream!HasBegun(q)
    BY DEF Told!Said, Told!LastWords, Stream!HasSpoken, Stream!LastWords, Stream!HasBegun
  <1>4. settled'[q] = settled[q] => UNCHANGED settled
    BY <1>1, <1>2
  <1>5. \A p \in Stream!RequestIds : p # q => (settled'[p] => Stream!HasSpoken(p)')
    BY <1>2 DEF ToldInv, Stream!HasSpoken
  \* An event is added behind the others.
  <1>6. ASSUME NEW kind \in Stream!Kinds, new = Append(run, kind), ~settled[q]
        PROVE  /\ Stream!Append1(q, kind)
               /\ Stream!HasSpoken(q) => Stream!HasSpoken(q)'
               /\ kind \in Stream!LastWords => Stream!HasSpoken(q)'
               /\ ~Stream!HasSpoken(q) /\ kind \notin Stream!LastWords => Len(run) < MaxEvents
    <2> HIDE DEF run, new
    <2>1. /\ Len(new) = Len(run) + 1 /\ Len(run) \in Nat
          /\ DOMAIN run = 1 .. Len(run) /\ DOMAIN new = 1 .. Len(run) + 1
          /\ \A i \in DOMAIN run : new[i] = run[i]
          /\ new[Len(run) + 1] = kind
      BY <1>2, <1>6
    <2>2. Stream!Append1(q, kind)
      BY <1>1, <1>2, <1>6, <2>1, StreamConstants DEF Stream!Append1, run
    <2>3. /\ Stream!HasSpoken(q) => Stream!HasSpoken(q)'
          /\ kind \in Stream!LastWords => Stream!HasSpoken(q)'
      BY <2>1 DEF Stream!HasSpoken, run, new
    <2>4. ASSUME ~Stream!HasSpoken(q), kind \notin Stream!LastWords PROVE Len(run) < MaxEvents
      <3>1. \A i \in DOMAIN new : new[i] \notin LastWords
        BY <2>1, <2>4 DEF Stream!HasSpoken, Stream!LastWords, LastWords, run
      <3> QED BY <1>1, <2>1, <3>1, StreamConstants
    <2> QED BY <2>2, <2>3, <2>4
  <1> HIDE DEF run, new
  <1>7. CASE Told!Begins(q)
    <2>1. ~Stream!HasSpoken(q) /\ ~settled[q] /\ UNCHANGED settled
      BY <1>2, <1>3, <1>4, <1>7 DEF Told!Begins
    <2>2. PICK kind \in {"run_started", "run_recovered"} : new = Append(run, kind)
      BY <1>7 DEF Told!Begins, Told!Adds, run, new
    <2>3. Stream!Append1(q, kind) /\ Len(run) < MaxEvents
      BY <1>6, <2>1, <2>2 DEF Stream!Kinds, Stream!Beginning, Stream!LastWords
    <2>4. Stream!RunBegins(q)
      BY <2>1, <2>2, <2>3 DEF Stream!RunBegins, run
    <2> QED BY <1>2, <1>5, <2>1, <2>4 DEF Stream!Runs
  <1>8. CASE Told!Talks(q)
    <2>1. Stream!HasBegun(q) /\ ~Stream!HasSpoken(q) /\ ~settled[q] /\ UNCHANGED settled
      BY <1>2, <1>3, <1>4, <1>8 DEF Told!Talks
    <2>2. PICK kind \in Stream!Chatter : new = Append(run, kind)
      BY <1>8 DEF Told!Talks, Told!Adds, Told!Chatter, Stream!Chatter, run, new
    <2>3. Stream!Append1(q, kind) /\ Len(run) < MaxEvents
      BY <1>6, <2>1, <2>2 DEF Stream!Kinds, Stream!Chatter, Stream!LastWords
    <2>4. Stream!RunTalks(q)
      BY <2>1, <2>2, <2>3 DEF Stream!RunTalks, run
    <2> QED BY <1>2, <1>5, <2>1, <2>4 DEF Stream!Runs
  <1>9. CASE Told!Speaks(q)
    <2>1. Stream!HasBegun(q) /\ ~Stream!HasSpoken(q) /\ ~settled[q] /\ UNCHANGED settled
      BY <1>2, <1>3, <1>4, <1>9 DEF Told!Speaks
    <2>2. PICK kind \in Stream!LastWords : new = Append(run, kind)
      BY <1>9 DEF Told!Speaks, Told!Adds, Told!LastWords, Stream!LastWords, run, new
    <2>3. Stream!Append1(q, kind)
      BY <1>6, <2>1, <2>2 DEF Stream!Kinds
    <2>4. Stream!RunSpeaks(q)
      BY <2>1, <2>2, <2>3 DEF Stream!RunSpeaks
    <2> QED BY <1>2, <1>5, <2>1, <2>4 DEF Stream!Runs
  <1>10. CASE Told!Evolves(q)
    <2>1. Stream!HasSpoken(q) /\ ~settled[q] /\ settled' = [settled EXCEPT ![q] = TRUE]
      BY <1>1, <1>3, <1>10 DEF Told!Evolves
    <2>2. new = Append(run, "memory_evolution")
      BY <1>10 DEF Told!Evolves, Told!Adds, run, new
    <2>3. Stream!Append1(q, "memory_evolution") /\ Stream!HasSpoken(q)'
      BY <1>6, <2>1, <2>2 DEF Stream!Kinds
    <2>4. Stream!RunEvolves(q)
      BY <2>1, <2>3 DEF Stream!RunEvolves
    <2> QED BY <1>5, <2>3, <2>4 DEF Stream!Runs
  <1>11. CASE Told!Settles(q) \/ Told!Waits(q)
    <2>1. UNCHANGED log
      BY <1>1, <1>2, <1>11 DEF Told!Settles, Told!Waits, new
    <2>2. Stream!HasSpoken(q)' <=> Stream!HasSpoken(q)
      BY <2>1 DEF Stream!HasSpoken
    <2>3. CASE settled'[q] = settled[q]
      BY <1>1, <1>2, <1>4, <1>5, <2>1, <2>2, <2>3 DEF Stream!vars
    <2>4. CASE settled'[q] # settled[q]
      <3>1. Stream!HasSpoken(q) /\ settled'[q] = TRUE /\ ~settled[q]
        BY <1>2, <1>3, <1>11, <2>4 DEF Told!Settles, Told!Waits
      <3>2. Stream!HasBegun(q)
        BY <3>1 DEF ToldInv, StreamInv, LogInv, Stream!HasSpoken, Stream!HasBegun,
                    Stream!LastWords, Stream!Beginning
      <3>3. Stream!RunSettles(q)
        BY <1>1, <2>1, <3>1, <3>2 DEF Stream!RunSettles
      <3> QED BY <1>5, <2>2, <3>1, <3>3 DEF Stream!Runs
    <2> QED BY <2>3, <2>4
  <1> QED BY <1>7, <1>8, <1>9, <1>10, <1>11 DEF ToldStep, Told!Step

LEMMA ToldNextStep ==
  ASSUME ToldInv, [ToldNext]_Stream!vars
  PROVE  [Stream!Next]_Stream!vars /\ ToldInv'
  <1>1. CASE Stream!Client \/ UNCHANGED Stream!vars
    <2>1. UNCHANGED <<log, settled>>
      BY <1>1 DEF Stream!Client, Stream!Connect, Stream!ConnectFails, Stream!Refuse,
         Stream!Deliver, Stream!DeliverMissingEnd, Stream!EndOfBody, Stream!Break,
         Stream!Resume, Stream!vars
    <2>2. [Stream!Next]_Stream!vars
      BY <1>1 DEF Stream!Next
    <2> QED BY <2>1, <2>2, StreamNextInv DEF ToldInv, Stream!HasSpoken
  <1>2. ASSUME NEW q \in Stream!RequestIds, ToldStep(q)
        PROVE  [Stream!Next]_Stream!vars /\ ToldInv'
    <2>1. [Stream!Next]_Stream!vars
      BY <1>2, ToldStepRuns DEF Stream!Next
    <2> QED BY <1>2, <2>1, ToldStepRuns, StreamNextInv DEF ToldInv
  <1> QED BY <1>1, <1>2 DEF ToldNext, RequestIds, Stream!RequestIds

\* Whatever a run says, as long as its log grows as RunLog allows, which is what
\* ConversationRuns guarantees: the client in front of it behaves as StreamClient,
\* so the text it shows is what the run has said.
THEOREM ToldRunsAreStreamed == ToldSpec => Stream!Spec
  <1>1. Stream!Init => ToldInv
    BY StreamInitInv DEF ToldInv, Stream!Init
  <1>2. ToldInv /\ [ToldNext]_Stream!vars => [Stream!Next]_Stream!vars /\ ToldInv'
    BY ToldNextStep
  <1> QED BY <1>1, <1>2, PTL DEF ToldSpec, Stream!Spec
=============================================================================
