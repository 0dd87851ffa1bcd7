------------------------------ MODULE RowEditing ------------------------------
(***************************************************************************)
(* Editing table rows in the panels of the browser: drafts, saves in        *)
(* flight, optimistic rows and their rollback.                              *)
(*                                                                         *)
(*   panels/useRowEditor.ts, useAsyncAction.ts, ThreeLists.tsx              *)
(*                             "lists" (its tasks), "issues", "methods"     *)
(*   panels/Milestone.tsx                                       "milestone" *)
(*   panels/TaskList.tsx                                        "tasks"     *)
(*   panels/People.tsx                                          "people"    *)
(*   panels/DailyWorkRecords.tsx                                "daily"     *)
(*   panels/Deliverables.tsx                               "deliverables"   *)
(*                                                                         *)
(* "lists", "milestone" and "tasks" show the same rows of the workspace,    *)
(* the others one table each; tables do not share rows, so a behaviour is   *)
(* about the panels of one table.  A row has a title and a progress, which  *)
(* stand for the fields that a milestone save always and only sometimes     *)
(* sends.                                                                   *)
(***************************************************************************)
EXTENDS Naturals, FiniteSets

CONSTANTS Rows, Nobody,       \* Nobody: no row is edited or saved
          MaxEdits,           \* bound: values entered here and elsewhere
          MaxSaves, MaxMoves  \* bounds: saves begun, panels entered

ASSUME RowConstants == /\ Nobody \notin Rows
                       /\ {MaxEdits, MaxSaves, MaxMoves} \subseteq Nat

VARIABLES ui,      \* the panel on the screen and the state of its hooks
          server,  \* the rows of the table
          saves,   \* update requests whose outcome has not been handled
          count, begun, moves, \* values entered, saves begun and panels entered so far
          owed,    \* history: values typed that are not saved, given up or dropped
          entered, \* history: fields whose draft the user has typed
          told,    \* history: what the server has last said of a local table
          crossed  \* history: a save began during another row's save

vars == <<ui, server, saves, count, begun, moves, owed, entered, told, crossed>>

Fields  == {"title", "progress"}
Untyped == 0
Blank   == 1
Cells   == Blank .. MaxEdits + 2
Row     == [Fields -> Cells]
Table   == [Rows -> Row]
Draft   == [Fields -> Cells \cup {Untyped}]
NoDraft == [f \in Fields |-> Untyped]
NoDrafts == [r \in Rows |-> NoDraft]
NoTable == NoDrafts
Entries == Rows \X Fields \X Cells

Lists      == {"lists", "issues", "methods"}  \* the tables with a useRowEditor
Panels     == Lists \cup {"milestone", "tasks", "people", "daily", "deliverables"}
WorkPanels == {"lists", "milestone", "tasks"}
OwnRows    == {"daily", "deliverables"}   \* rows in the state of the panel
OneDraft   == OwnRows \cup {"people"}     \* one draft, a copy of the row
WithEditor == OneDraft \cup Lists         \* a row is opened before it is typed in

\* busy: the row whose save button is loading.  shown: workspace rows or own rows.
UiStates == [panel: Panels, loaded: BOOLEAN, shown: Table, editing: Rows \cup {Nobody},
             drafts: [Rows -> Draft], busy: Rows \cup {Nobody}]

\* here: sent by the panel that is still mounted.  before: the rows a failure
\* restores.  reply: the table when the update was written, or when it was read
\* again.  since: history, the values entered by the time of the click.
SaveStates == [row: Rows, panel: Panels, here: BOOLEAN,
               at: {"sent", "written", "reloading", "read"}, since: 0 .. MaxEdits,
               patch: Draft, typed: SUBSET Fields, before: Table, reply: Table \cup {NoTable}]

Mounted(p, table) == [panel |-> p, loaded |-> p \notin OwnRows, shown |-> table,
                      editing |-> Nobody, drafts |-> NoDrafts, busy |-> Nobody]

Init == /\ server = [r \in Rows |-> [f \in Fields |-> Blank + 1]]
        /\ \E p \in Panels : ui = Mounted(p, server)
        /\ saves = {}
        /\ count = 0 /\ begun = 0 /\ moves = 0
        /\ owed = {} /\ entered = {}
        /\ told = server
        /\ crossed = FALSE

Here == {s \in saves : s.here}
Of(S, r) == {e \in S : e[1] = r}
Fresh == Blank + 2 + count
Counted == count < MaxEdits /\ count' = count + 1
Merge(cells, patch) == [f \in Fields |-> IF patch[f] = Untyped THEN cells[f] ELSE patch[f]]

-----------------------------------------------------------------------------
(* The panel on the screen *)

\* Leaving a panel unmounts its hooks; the requests they sent go on.
Enter(p) == /\ moves < MaxMoves /\ moves' = moves + 1
            /\ p # ui.panel => {p, ui.panel} \subseteq WorkPanels
            /\ ui' = Mounted(p, ui.shown)
            /\ saves' = {[s EXCEPT !.here = FALSE] : s \in saves}
            /\ owed' = {} /\ entered' = {} /\ crossed' = FALSE
            /\ UNCHANGED <<server, count, begun, told>>

\* The effect that loads the rows of a panel, cancelled when it unmounts.
Load == /\ ~ui.loaded
        /\ ui' = [ui EXCEPT !.loaded = TRUE, !.shown = server]
        /\ told' = server
        /\ UNCHANGED <<server, saves, count, begun, moves, owed, entered, crossed>>

\* A poll, a turn or a refresh brings a workspace (WorkspaceSync).
Refresh == /\ ui.panel \notin OwnRows /\ ui.shown # server
           /\ ui' = [ui EXCEPT !.shown = server]
           /\ UNCHANGED <<server, saves, count, begun, moves, owed, entered, told, crossed>>

\* Somebody else, or a turn of the conversation, changes a row.
Other(r, f) == /\ Counted
               /\ server' = [server EXCEPT ![r][f] = Fresh]
               /\ UNCHANGED <<ui, saves, begun, moves, owed, entered, told, crossed>>

-----------------------------------------------------------------------------
(* What the cells of a row show: the draft over the row, where the draft holds only   *)
(* what was typed, and the draft alone where it is a copy of the row.                 *)

Over(u, r) == Merge(u.shown[r], u.drafts[r])

EditableCell(u, r, edit, view) == IF u.editing = r THEN edit ELSE view

ListCells(u, r)        == EditableCell(u, r, Over(u, r), u.shown[r])
IssueCells(u, r)       == EditableCell(u, r, Over(u, r), u.shown[r])
MethodCells(u, r)      == EditableCell(u, r, Over(u, r), u.shown[r])
MilestoneCells(u, r)   == Over(u, r)
TaskCells(u, r)        == u.shown[r]
DailyCells(u, r)       == EditableCell(u, r, u.drafts[r], u.shown[r])
DeliverableCells(u, r) == EditableCell(u, r, u.drafts[r], u.shown[r])
PersonForm(u, r)       == IF u.editing = r THEN u.drafts[r] ELSE u.shown[r]

Inputs(u, r) == CASE u.panel = "lists"        -> ListCells(u, r)
                  [] u.panel = "issues"       -> IssueCells(u, r)
                  [] u.panel = "methods"      -> MethodCells(u, r)
                  [] u.panel = "milestone"    -> MilestoneCells(u, r)
                  [] u.panel = "tasks"        -> TaskCells(u, r)
                  [] u.panel = "daily"        -> DailyCells(u, r)
                  [] u.panel = "deliverables" -> DeliverableCells(u, r)
                  [] u.panel = "people"       -> PersonForm(u, r)

-----------------------------------------------------------------------------
(* Drafts *)

\* The modal of "people" covers the table while a person is edited.
Begin(r) ==
    /\ ui.panel \in WithEditor /\ ui.loaded /\ ui.editing # r
    /\ ui.panel = "people" => ui.editing = Nobody
    /\ IF ui.panel \in OneDraft
         THEN /\ ui' = [ui EXCEPT !.editing = r,
                                  !.drafts = [NoDrafts EXCEPT ![r] = ui.shown[r]]]
              /\ owed' = {}
         ELSE /\ ui' = [ui EXCEPT !.editing = r]
              /\ UNCHANGED owed
    /\ UNCHANGED <<server, saves, count, begun, moves, entered, told, crossed>>

\* The long-text modal of the lists types into a row that is not open.
Typable(r) == \/ ui.panel \in Lists \cup {"milestone"}
              \/ ui.panel \in OneDraft /\ ui.editing = r

Type(r, f) ==
    LET earlier == {e \in owed : e[1] = r /\ e[2] = f} IN
    /\ Typable(r) /\ Counted
    /\ ui' = [ui EXCEPT !.drafts[r][f] = Fresh]
    /\ owed' = (owed \ earlier) \cup {<<r, f, Fresh>>}
    /\ entered' = entered \cup {<<r, f>>}
    /\ UNCHANGED <<server, saves, begun, moves, told, crossed>>

\* Cancelling drops the draft of the open row, but for "deliverables", which leaves it
\* to the next Begin; only "daily" forbids it in a save.
Cancel ==
    /\ ui.panel \in WithEditor /\ ui.editing # Nobody
    /\ ui.panel = "daily" => ui.busy # ui.editing
    /\ ui' = [ui EXCEPT !.editing = Nobody,
                        !.drafts[ui.editing] = IF ui.panel = "deliverables" THEN @ ELSE NoDraft]
    /\ owed' = owed \ Of(owed, ui.editing)
    /\ entered' = entered \ Of(entered, ui.editing)
    /\ UNCHANGED <<server, saves, count, begun, moves, told, crossed>>

\* The dialog for a new deliverable uses the draft of the row that is open.
OpenCreate ==
    /\ ui.panel = "deliverables" /\ ui.loaded /\ ui.editing # Nobody
    /\ ui' = [ui EXCEPT !.drafts[ui.editing] = [f \in Fields |-> Blank]]
    /\ owed' = owed \ Of(owed, ui.editing)
    /\ UNCHANGED <<server, saves, count, begun, moves, entered, told, crossed>>

-----------------------------------------------------------------------------
(* Saves *)

\* What a milestone row sends although nobody typed it, and what a copied draft does.
Resent(p) == CASE p = "milestone"  -> {"title"}
               [] p \in OneDraft   -> Fields
               [] OTHER            -> {}

\* What is resent is what the inputs of the row show.
Sent(r) == [f \in Fields |-> IF f \in Resent(ui.panel) THEN Inputs(ui, r)[f]
                                                        ELSE ui.drafts[r][f]]

\* Every save marks its row and only its row as busy.
MarkBusy(u, r) == [u EXCEPT !.busy = r]

Optimistic(u, r, patch) == IF u.panel \in OwnRows
                             THEN [u EXCEPT !.shown[r] = Merge(@, patch)] ELSE u

Start(r, patch, typed) ==
    /\ begun < MaxSaves /\ begun' = begun + 1
    /\ ui' = Optimistic(MarkBusy(ui, r), r, patch)
    /\ saves' = saves \cup {[row |-> r, panel |-> ui.panel, here |-> TRUE, at |-> "sent",
                             since |-> count, patch |-> patch, typed |-> typed,
                             before |-> ui.shown, reply |-> NoTable]}
    /\ crossed' = (crossed \/ \E s \in Here : s.row # r)

\* A loading button ignores clicks; "people" has one button for whoever is edited.
Clickable(r) == /\ ui.busy # r
                /\ ui.panel \in WithEditor => ui.editing = r
                /\ ui.panel = "people" => ui.busy = Nobody

Save(r) == /\ ui.panel # "tasks" /\ ui.loaded /\ Clickable(r)
           /\ Start(r, Sent(r), {f \in Fields : <<r, f>> \in entered})
           /\ UNCHANGED <<server, count, moves, owed, entered, told>>

\* Choosing a status saves it at once, loading or not.
Pick(r) == /\ ui.panel = "tasks" /\ Counted
           /\ Start(r, [NoDraft EXCEPT !["progress"] = Fresh], {"progress"})
           /\ UNCHANGED <<server, moves, owed, entered, told>>

\* A deliverable without a title is refused.
Write(s) ==
    LET table == [server EXCEPT ![s.row] = Merge(@, s.patch)] IN
    /\ s.at = "sent" /\ s.patch["title"] # Blank
    /\ server' = table
    /\ saves' = (saves \ {s}) \cup {[s EXCEPT !.at = "written", !.reply = table]}
    /\ UNCHANGED <<ui, count, begun, moves, owed, entered, told, crossed>>

\* After a success the editor is closed whichever row it has open by then, and with
\* it the one draft of a panel that has one.
KeepDrafts(u, s) == [u EXCEPT !.editing = Nobody]
ClearDrafts(u, s) == IF u.panel \in WithEditor THEN [u EXCEPT !.editing = Nobody, !.drafts = NoDrafts]
                                               ELSE u
Closed(u, s) == CASE u.panel = "deliverables" -> [u EXCEPT !.editing = Nobody]
                  [] u.panel \in {"daily", "people"} ->
                       [u EXCEPT !.editing = Nobody, !.drafts = NoDrafts]
                  [] u.panel \in Lists -> [u EXCEPT !.editing = Nobody, !.drafts[s.row] = NoDraft]
                  [] OTHER -> u

\* What the user sees of a typed value, and what a success says of it.
Standing(u, e) == u.drafts[e[1]][e[2]] = e[3] /\ (u.panel \in OneDraft => u.editing = e[1])
Saved(e, s) == s.row = e[1] /\ s.patch[e[2]] = e[3]

Succeeded(s) ==
    /\ owed' = {e \in owed : Standing(ui', e) /\ ~Saved(e, s)}
    /\ entered' = IF ui.panel \in Lists THEN entered \ Of(entered, s.row) ELSE entered

\* A workspace panel shows the reply, "daily" puts the answered row in its table.
Answer(u, s) == IF u.panel \in OwnRows THEN [u EXCEPT !.shown[s.row] = s.reply[s.row]]
                                       ELSE [u EXCEPT !.shown = s.reply]

Land(s) ==
    /\ s.here /\ s.at = "written" /\ ui.panel # "deliverables"
    /\ saves' = saves \ {s}
    /\ ui' = [Answer(Closed(ui, s), s) EXCEPT !.busy = Nobody]
    /\ told' = IF ui.panel \in OwnRows THEN [told EXCEPT ![s.row] = s.reply[s.row]] ELSE told
    /\ Succeeded(s)
    /\ UNCHANGED <<server, count, begun, moves, crossed>>

\* The workspace of a reply is shown whoever asked for it, the rows of a panel not.
LandLeft(s) ==
    /\ ~s.here /\ s.at # "sent"
    /\ saves' = saves \ {s}
    /\ ui' = IF ui.panel \in OwnRows THEN ui ELSE [ui EXCEPT !.shown = s.reply]
    /\ UNCHANGED <<server, count, begun, moves, owed, entered, told, crossed>>

\* "deliverables" closes the editor and then loads the table again, busy all along.
Close(s) ==
    /\ s.here /\ s.at = "written" /\ ui.panel = "deliverables"
    /\ ui' = Closed(ui, s)
    /\ saves' = (saves \ {s}) \cup {[s EXCEPT !.at = "reloading"]}
    /\ Succeeded(s)
    /\ UNCHANGED <<server, count, begun, moves, told, crossed>>

Read(s) == /\ s.here /\ s.at = "reloading"
           /\ saves' = (saves \ {s}) \cup {[s EXCEPT !.at = "read", !.reply = server]}
           /\ UNCHANGED <<ui, server, count, begun, moves, owed, entered, told, crossed>>

Reload(s) == /\ s.here /\ s.at = "read"
             /\ saves' = saves \ {s}
             /\ ui' = [ui EXCEPT !.shown = s.reply, !.busy = Nobody]
             /\ told' = s.reply
             /\ UNCHANGED <<server, count, begun, moves, owed, entered, crossed>>

\* The error of the reload is told, and the optimistic row stays.
ReloadFails(s) ==
    /\ s.here /\ s.at \in {"reloading", "read"}
    /\ saves' = saves \ {s}
    /\ ui' = [ui EXCEPT !.busy = Nobody]
    /\ told' = [told EXCEPT ![s.row] = Merge(@, s.patch)]
    /\ UNCHANGED <<server, count, begun, moves, owed, entered, crossed>>

\* An error, before the row was written or after it: the draft stays, own rows
\* are put back to what they were at the click.
FailedOptimist(u, s) == [u EXCEPT !.busy = Nobody]
Failed(u, s) == [u EXCEPT !.busy = Nobody,
                          !.shown = IF u.panel \in OwnRows THEN s.before ELSE @]

Fail(s) == /\ s.at \in {"sent", "written"}
           /\ saves' = saves \ {s}
           /\ ui' = IF s.here THEN Failed(ui, s) ELSE ui
           /\ UNCHANGED <<server, count, begun, moves, owed, entered, told, crossed>>

-----------------------------------------------------------------------------
Next == \/ \E p \in Panels : Enter(p)
        \/ Load \/ Refresh \/ Cancel \/ OpenCreate
        \/ \E r \in Rows : Begin(r) \/ Save(r) \/ Pick(r)
        \/ \E r \in Rows, f \in Fields : Type(r, f) \/ Other(r, f)
        \/ \E s \in saves : \/ Write(s) \/ Land(s) \/ LandLeft(s) \/ Fail(s)
                             \/ Close(s) \/ Read(s) \/ Reload(s) \/ ReloadFails(s)

Spec == Init /\ [][Next]_vars

-----------------------------------------------------------------------------
\* Every variable keeps its form and stays within its bounds.
TypeOK == /\ ui \in UiStates
          /\ server \in Table
          /\ saves \subseteq SaveStates
          /\ count \in 0 .. MaxEdits /\ begun \in 0 .. MaxSaves /\ moves \in 0 .. MaxMoves
          /\ owed \subseteq Entries /\ entered \subseteq Rows \X Fields
          /\ told \in Table
          /\ crossed \in BOOLEAN

\* A value that was typed is in its draft, in an open row where there is one draft,
\* however saves fail and overlap.  It ceases to be when the user types over it or
\* gives it up, or when a save succeeds: one that has sent it, or one that was clicked
\* before it was typed.  In a panel with one draft that save may be another row's: its
\* success drops what has been typed in the row opened since, saved nowhere.
GivesUp == Cancel \/ OpenCreate \/ (\E r \in Rows : Begin(r)) \/ (\E p \in Panels : Enter(p))
TypedOver(e) == \E d \in owed' : d[1] = e[1] /\ d[2] = e[2]
Overtaken(e, s) == e[3] >= Blank + 2 + s.since /\ (ui.panel \in OneDraft \/ s.row = e[1])
Kept    == TypeOK /\ \A e \in owed : Standing(ui, e)
Dropped == \A e \in owed \ owed' :
             \/ GivesUp \/ TypedOver(e)
             \/ \E s \in Here : (Land(s) \/ Close(s)) /\ (Saved(e, s) \/ Overtaken(e, s))
EditsKept == []Kept /\ [][Dropped]_vars

\* A save changes nothing that its user has not typed since the draft was last
\* dropped, except what the panel is known to send again.
OthersKept == \A s \in saves : \A f \in Fields :
                s.patch[f] # Untyped => f \in s.typed \cup Resent(s.panel)

\* When nothing is in flight a local table shows what the server last said of it.
TableIsTold == ui.panel \in OwnRows /\ ui.loaded /\ Here = {} /\ ~crossed
                 => ui.shown = told
=============================================================================
