------------------------------- MODULE ChatPane -------------------------------
(***************************************************************************)
(* The conversation pane of the browser: the list of sessions, the messages *)
(* on the screen, the composer, and the turn that is in flight.             *)
(*                                                                         *)
(*   frontend/src/App.tsx                    the state and its handlers     *)
(*   frontend/src/chat/SenderBar.tsx         the composer                   *)
(*   frontend/src/layout/ProjectListPane.tsx the list of sessions           *)
(*                                                                         *)
(* Every handler awaits a request and goes on with what it read before, so  *)
(* any two of them interleave at their awaits.  The stream of a turn is     *)
(* StreamClient; here it is answered or it fails.                           *)
(***************************************************************************)
EXTENDS Naturals, FiniteSets

CONSTANTS Actors, Sessions,
          New,         \* the empty session id: a conversation not yet started
          NoOne,       \* the owner of a session that does not exist yet
          Pmo,         \* the actor every visit starts as
          Old,         \* that actor's sessions of earlier visits
          MaxEntries,  \* bound: texts typed and files chosen
          MaxRequests, \* bound: session requests out at a time
          MaxMoves     \* bound: switches of actor or view, and briefs

ASSUME ChatConstants == /\ New \notin Sessions /\ NoOne \notin Actors /\ Pmo \in Actors
                        /\ Old \subseteq Sessions
                        /\ {MaxEntries, MaxRequests, MaxMoves} \subseteq Nat

VARIABLES ui,       \* the React state of App and SenderBar
          turn,     \* the message in flight
          requests, \* session requests that have not come back
          owner, alive, \* the sessions of the server
          moves,    \* the moves made so far
          count,    \* texts and files entered so far
          owed,     \* history: entries that nothing has excused from being kept
          adrift    \* history: the messages and the active session came apart

vars == <<ui, turn, requests, owner, alive, moves, count, owed, adrift>>

Entries  == {"text", "file"} \X (1 .. MaxEntries)
Texts(S) == {e \in S : e[1] = "text"}

\* base: the conversation whose messages are on the screen; bubble: the turn in
\* flight is among them.  draft and files: the composer; bar: the composer that
\* submitted the turn in flight is still mounted.
UiStates == [actor: Actors, boot: {"loading", "ready", "failed"}, view: {"chat", "panel"},
             list: SUBSET Sessions, active: Sessions \cup {New}, base: Sessions \cup {New},
             bubble: BOOLEAN, busy: {"idle", "stream", "refresh", "brief"},
             draft: SUBSET Texts(Entries), files: SUBSET (Entries \ Texts(Entries)), bar: BOOLEAN]

\* asked: the session named to the server; place: the one it put the message in.
NoTurn == [entries |-> {}, asked |-> New, place |-> New]
TurnStates == [entries: SUBSET Entries, asked: Sessions \cup {New}, place: Sessions \cup {New}]

\* home: the session to delete was the active one in the render of the click.  A
\* served request for anything but messages is its list.
Requests == [op: {"open", "retitle", "delete", "list"}, session: Sessions \cup {New},
             actor: Actors, home: BOOLEAN, served: BOOLEAN, list: SUBSET Sessions]

Mine(actor, living) == {s \in living : owner[s] = actor}

Init == /\ ui = [actor |-> Pmo, boot |-> "loading", view |-> "chat", list |-> {},
                 active |-> New, base |-> New, bubble |-> FALSE, busy |-> "idle",
                 draft |-> {}, files |-> {}, bar |-> FALSE]
        /\ turn = NoTurn
        /\ requests = {}
        /\ owner = [s \in Sessions |-> IF s \in Old THEN Pmo ELSE NoOne]
        /\ alive = Old
        /\ moves = 0
        /\ count = 0
        /\ owed = {}
        /\ adrift = FALSE

-----------------------------------------------------------------------------
(* Loading the workspace of an actor *)

\* What the effect on [currentActorId, reloadToken] clears; the list stays.
Cleared(u) == [u EXCEPT !.boot = "loading", !.active = New, !.base = New, !.bubble = FALSE]

\* Leaving the chat view unmounts the composer and its text.
Unmounted(u) == [u EXCEPT !.draft = {}, !.bar = FALSE]

SwitchActor(a) ==
    /\ ui.boot = "ready" /\ ui.busy = "idle" /\ a # ui.actor
    /\ moves < MaxMoves
    /\ ui' = [Unmounted(Cleared(ui)) EXCEPT !.actor = a, !.view = "chat", !.files = {}]
    /\ moves' = moves + 1
    /\ owed' = owed \ (ui.draft \cup ui.files)
    /\ adrift' = FALSE
    /\ UNCHANGED <<turn, requests, owner, alive, count>>

BootArrives == /\ ui.boot = "loading"
               /\ ui' = [ui EXCEPT !.boot = "ready", !.list = Mine(ui.actor, alive),
                                   !.base = New, !.bubble = FALSE]
               /\ UNCHANGED <<turn, requests, owner, alive, moves, count, owed, adrift>>

BootFails == /\ ui.boot = "loading"
             /\ ui' = [ui EXCEPT !.boot = "failed"]
             /\ UNCHANGED <<turn, requests, owner, alive, moves, count, owed, adrift>>

Retry == /\ ui.boot = "failed"
         /\ ui' = Cleared(ui)
         /\ adrift' = FALSE
         /\ UNCHANGED <<turn, requests, owner, alive, moves, count, owed>>

\* A workspace asked for before the actor was left lands after the failure, and
\* the screen opens with it (WorkspaceSync).
Revive == /\ ui.boot = "failed" /\ moves > 0
          /\ ui' = [ui EXCEPT !.boot = "ready"]
          /\ UNCHANGED <<turn, requests, owner, alive, moves, count, owed, adrift>>

ChangeView(v) == /\ ui.boot = "ready" /\ v # ui.view
                 /\ ui' = [Unmounted(ui) EXCEPT !.view = v]
                 /\ moves < MaxMoves /\ moves' = moves + 1
                 /\ owed' = owed \ ui.draft
                 /\ UNCHANGED <<turn, requests, owner, alive, count, adrift>>

-----------------------------------------------------------------------------
(* The composer and the turn *)

Composing == ui.boot = "ready" /\ ui.view = "chat"

\* Typing into the empty composer, or choosing a file.
Enter(kind) ==
    LET e == <<kind, count + 1>> IN
    /\ Composing /\ count < MaxEntries
    /\ kind = "text" => ui.draft = {}
    /\ ui' = IF kind = "text" THEN [ui EXCEPT !.draft = {e}]
                              ELSE [ui EXCEPT !.files = @ \cup {e}]
    /\ count' = count + 1 /\ owed' = owed \cup {e}
    /\ UNCHANGED <<turn, requests, owner, alive, moves, adrift>>

RemoveFile(f) == /\ Composing /\ f \in ui.files
                 /\ ui' = [ui EXCEPT !.files = @ \ {f}]
                 /\ owed' = owed \ {f}
                 /\ UNCHANGED <<turn, requests, owner, alive, moves, count, adrift>>

\* submit and handleSend up to the await.
Send == /\ Composing /\ ui.busy = "idle" /\ ui.draft \cup ui.files # {}
        /\ turn' = [entries |-> ui.draft \cup ui.files, asked |-> ui.active, place |-> New]
        /\ ui' = [ui EXCEPT !.draft = {}, !.busy = "stream", !.bar = TRUE, !.bubble = TRUE]
        /\ UNCHANGED <<requests, owner, alive, moves, count, owed, adrift>>

\* The server takes the message, in a session of its own if none was named.
Take(s) == /\ ui.busy = "stream" /\ turn.place = New
           /\ IF turn.asked = New THEN owner[s] = NoOne ELSE s = turn.asked /\ s \in alive
           /\ turn' = [turn EXCEPT !.place = s]
           /\ owner' = [owner EXCEPT ![s] = ui.actor]
           /\ alive' = alive \cup {s}
           /\ owed' = owed \ turn.entries
           /\ UNCHANGED <<ui, requests, moves, count, adrift>>

\* setActiveSessionId, setSelectedFiles([]).  A bubble that is still there turns
\* an opening screen into the conversation of the answer.
Answered(u) == [u EXCEPT !.active = turn.place, !.files = {}, !.busy = "refresh",
                         !.base = IF u.base = New /\ u.bubble THEN turn.place ELSE @]

AnswerArrives ==
    /\ ui.busy = "stream" /\ turn.place # New
    /\ ui' = Answered(ui)
    /\ owed' = owed \ ui.files
    /\ adrift' = (adrift \/ ~ui.bubble)
    /\ UNCHANGED <<turn, requests, owner, alive, moves, count>>

\* The two catch blocks and the finally: the composer gets its text back if it
\* is still the same composer and still empty.
RestoredOver(u, texts) == IF u.bar THEN texts ELSE u.draft
Restored(u, texts) == IF u.bar /\ u.draft = {} THEN texts ELSE u.draft
FailedBusy(u, texts) == [u EXCEPT !.draft = Restored(u, texts), !.bubble = FALSE]
Failed(u, texts) == [u EXCEPT !.draft = Restored(u, texts), !.bubble = FALSE, !.busy = "idle"]

Fails(phase) ==
    LET texts == Texts(turn.entries) IN
    /\ ui.busy = phase
    /\ ui' = Failed(ui, texts)
    /\ owed' = IF ui.bar /\ ui.draft = {} THEN owed ELSE owed \ texts
    /\ turn' = NoTurn
    /\ UNCHANGED <<requests, owner, alive, moves, count, adrift>>

StreamFails   == Fails("stream")
SessionsFail  == Fails("refresh")
SessionsArrive == /\ ui.busy = "refresh"
                  /\ ui' = [ui EXCEPT !.list = Mine(ui.actor, alive), !.busy = "idle",
                                      !.bubble = FALSE]
                  /\ turn' = NoTurn
                  /\ UNCHANGED <<requests, owner, alive, moves, count, owed, adrift>>

\* handleGenerateBrief shares the busy flag; its brief lands in whatever
\* conversation is open by then.
Brief == /\ ui.boot = "ready" /\ ui.busy = "idle"
         /\ moves < MaxMoves /\ moves' = moves + 1
         /\ ui' = [ui EXCEPT !.busy = "brief"]
         /\ UNCHANGED <<turn, requests, owner, alive, count, owed, adrift>>

BriefEnds == /\ ui.busy = "brief"
             /\ ui' \in {[ui EXCEPT !.busy = "idle", !.view = "chat"], [ui EXCEPT !.busy = "idle"]}
             /\ UNCHANGED <<turn, requests, owner, alive, moves, count, owed, adrift>>

-----------------------------------------------------------------------------
(* The list of sessions *)

\* Replacing the conversation; forgetting to name it to the next turn, or to
\* clear the old rows, is the slip.
ShowRowsOnly(u, s) == [u EXCEPT !.view = "chat", !.base = s, !.bubble = FALSE]
Show(u, s) == [u EXCEPT !.active = s, !.view = "chat", !.base = s, !.bubble = FALSE]

NewSession == /\ ui.boot = "ready"
              /\ ui' = Show(ui, New)
              /\ adrift' = FALSE
              /\ UNCHANGED <<turn, requests, owner, alive, moves, count, owed>>

\* A click on a session; a click repeated before it is answered is the same
\* request.  handleSessionDelete keeps the activeSessionId of its own render.
Ask(op, s) == /\ ui.boot = "ready" /\ s \in ui.list /\ Cardinality(requests) < MaxRequests
              /\ requests' = requests \cup {[op |-> op, session |-> s, actor |-> ui.actor,
                                             home |-> op = "delete" /\ s = ui.active,
                                             served |-> FALSE, list |-> {}]}
              /\ UNCHANGED <<ui, turn, owner, alive, moves, count, owed, adrift>>

Serve(r) == LET left == IF r.op = "delete" THEN alive \ {r.session} ELSE alive IN
            /\ ~r.served /\ r.session \in Mine(r.actor, alive)
            /\ alive' = left
            /\ requests' = (requests \ {r}) \cup
                 {IF r.op = "open" THEN [r EXCEPT !.served = TRUE]
                    ELSE [r EXCEPT !.served = TRUE, !.op = "list", !.session = New,
                                   !.list = Mine(r.actor, left)]}
            /\ UNCHANGED <<ui, turn, owner, moves, count, owed, adrift>>

\* Refused, or lost on the way there or back: nobody catches it.
Drop(r) == /\ requests' = requests \ {r}
           /\ UNCHANGED <<ui, turn, owner, alive, moves, count, owed, adrift>>

\* currentActorIdRef.current === requestActorId
AnyActor(r) == TRUE
StillMine(r) == r.actor = ui.actor

Land(r) ==
    /\ r.served
    /\ requests' = requests \ {r}
    /\ LET listed == [ui EXCEPT !.list = r.list] IN
       CASE ~StillMine(r)  -> UNCHANGED <<ui, adrift>>
         [] StillMine(r) /\ r.op = "open" ->
              ui' = Show(ui, r.session) /\ adrift' = (ui.boot # "ready")
         [] StillMine(r) /\ r.op # "open" /\ r.home ->
              ui' = Show(listed, New) /\ adrift' = FALSE
         [] OTHER -> ui' = listed /\ UNCHANGED adrift
    /\ UNCHANGED <<turn, owner, alive, moves, count, owed>>

-----------------------------------------------------------------------------
TurnMoves == AnswerArrives \/ StreamFails \/ SessionsArrive \/ SessionsFail \/ BriefEnds

Next == \/ \E a \in Actors : SwitchActor(a)
        \/ BootArrives \/ BootFails \/ Retry \/ Revive
        \/ \E v \in {"chat", "panel"} : ChangeView(v)
        \/ Send \/ TurnMoves \/ Brief \/ NewSession
        \/ \E kind \in {"text", "file"} : Enter(kind)
        \/ \E f \in ui.files : RemoveFile(f)
        \/ \E s \in Sessions : Take(s)
        \/ \E op \in {"open", "retitle", "delete"}, s \in Sessions : Ask(op, s)
        \/ \E r \in requests : Serve(r) \/ Drop(r) \/ Land(r)

Spec == Init /\ [][Next]_vars

\* A stream returns or throws (StreamClient's CallEnds), a fetch settles.
FairSpec == Spec /\ WF_vars(TurnMoves) /\ WF_vars(BootArrives \/ BootFails)

-----------------------------------------------------------------------------
\* Every variable keeps its form and stays within its bounds.
TypeOK == /\ ui \in UiStates
          /\ turn \in TurnStates
          /\ requests \subseteq Requests
          /\ owner \in [Sessions -> Actors \cup {NoOne}] /\ alive \subseteq Sessions
          /\ moves \in 0 .. MaxMoves /\ count \in 0 .. MaxEntries
          /\ adrift \in BOOLEAN /\ owed \subseteq Entries

\* What the user sends next goes to the conversation that is on the screen.  They
\* come apart in two ways only: the conversation was replaced while a turn was
\* in flight, or an old request landed while the actor was loading again.
OneConversation == ui.boot = "ready" /\ ~adrift => ui.base = ui.active

\* Whatever is answered late, the conversation that is shown or will be continued
\* is the current actor's.
OwnConversation == \A s \in {ui.base, ui.active} \ {New} : owner[s] = ui.actor

\* A text or a file that was entered is in the composer or was part of a message
\* that the server took or may still take, unless it had to make room: for another
\* text, for another view or actor, or because the file was added while a turn
\* was in flight.
EntriesKept == TypeOK /\ owed \subseteq ui.draft \cup ui.files \cup turn.entries

\* The composer is not blocked for ever.
ComposerFreed == ui.busy # "idle" ~> ui.busy = "idle"
=============================================================================
