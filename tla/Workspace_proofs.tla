--------------------------- MODULE Workspace_proofs ---------------------------
(***************************************************************************)
(* Theorems of RowEditing, for any rows and number of edits and saves, and  *)
(* of WorkspaceSync, for any actors, jobs and number of requests: what the  *)
(* panels make of the rows of a workspace, and how the workspace comes.     *)
(***************************************************************************)
EXTENDS RowEditing, WorkspaceTab, TLAPS

CONSTANTS Pmo, MaxRequests, MaxTabMoves
VARIABLES poll, requests, jobs, tabMoves

Sync == INSTANCE WorkspaceSync WITH MaxMoves <- MaxTabMoves, moves <- tabMoves

-----------------------------------------------------------------------------
(* RowEditing: the inductive invariant *)

\* A save sends what was typed or is known to be sent again; once it is written
\* it has the table it was written to.
Sound(s) == /\ s \in SaveStates
            /\ s.at # "sent" => s.reply \in Table
            /\ \A f \in Fields : s.patch[f] # Untyped => f \in s.typed \cup Resent(s.panel)
SavesInv == \A s \in saves : Sound(s)

\* Nothing is in a draft that nobody typed, but what the panel sends again anyway.
DraftInv == \A r \in Rows, f \in Fields :
              ui.drafts[r][f] # Untyped => <<r, f>> \in entered \/ f \in Resent(ui.panel)

OwedInv == \A e \in owed : Standing(ui, e)

\* A save that can drop a typed value has sent it or was clicked before.
SentInv == ui.panel \in WithEditor =>
             \A s \in Here : \A e \in owed :
               ui.panel \in OneDraft \/ s.row = e[1] => Saved(e, s) \/ e[3] >= Blank + 2 + s.since
SinceInv == \A s \in saves : s.since <= count

\* As long as no two saves crossed, a local table differs from what the server
\* last said in the one row that is being saved, and that save remembers it.
Saving(s) == /\ ui.loaded /\ ui.busy = s.row /\ s.before = told
             /\ \A r \in Rows \ {s.row} : ui.shown[r] = told[r]
             /\ ui.shown[s.row] = Merge(told[s.row], s.patch)
OwnInv == ui.panel \in OwnRows /\ ~crossed =>
            /\ \A s, t \in Here : s = t
            /\ \A s \in Here : Saving(s)
            /\ Here = {} /\ ui.loaded => ui.shown = told

IInv == TypeOK /\ SavesInv /\ DraftInv /\ OwedInv /\ SentInv /\ SinceInv /\ OwnInv

-----------------------------------------------------------------------------
(* The data *)

LEMMA Numbers ==
  /\ MaxEdits \in Nat /\ MaxSaves \in Nat /\ MaxMoves \in Nat
  /\ Cells \subseteq Nat /\ Untyped \notin Cells /\ Blank \in Cells /\ Blank + 1 \in Cells
  BY RowConstants DEF Cells, Untyped, Blank

LEMMA FreshCell ==
  ASSUME count \in 0 .. MaxEdits, Counted
  PROVE  Fresh \in Cells /\ Fresh # Untyped /\ count' \in 0 .. MaxEdits
  BY Numbers DEF Counted, Fresh, Cells, Untyped, Blank

\* The fields of the panel and of a save.
LEMMA UiFields ==
  ASSUME TypeOK
  PROVE  /\ ui.panel \in Panels /\ ui.loaded \in BOOLEAN /\ ui.shown \in Table
         /\ ui.editing \in Rows \cup {Nobody} /\ ui.drafts \in [Rows -> Draft]
         /\ ui.busy \in Rows \cup {Nobody}
  BY DEF TypeOK, UiStates

LEMMA SaveFields ==
  ASSUME NEW s \in SaveStates
  PROVE  /\ s.row \in Rows /\ s.panel \in Panels /\ s.here \in BOOLEAN /\ s.patch \in Draft
         /\ s.typed \subseteq Fields /\ s.before \in Table /\ s.reply \in Table \cup {NoTable}
         /\ s.since \in 0 .. MaxEdits
  BY DEF SaveStates

LEMMA SetCell ==
  ASSUME NEW table \in Table, NEW r \in Rows, NEW f \in Fields, NEW v \in Cells
  PROVE  [table EXCEPT ![r][f] = v] \in Table
  BY DEF Table, Row

LEMMA SetRow ==
  ASSUME NEW table \in Table, NEW r \in Rows, NEW cells \in Row
  PROVE  [table EXCEPT ![r] = cells] \in Table
  BY DEF Table

LEMMA MergedRow ==
  ASSUME NEW cells \in Row, NEW patch \in Draft
  PROVE  Merge(cells, patch) \in Row
  BY DEF Merge, Row, Draft

LEMMA EmptyDrafts ==
  /\ NoDraft \in Draft /\ NoDrafts \in [Rows -> Draft] /\ NoTable \in [Rows -> Draft]
  /\ \A f \in Fields : NoDraft[f] = Untyped
  /\ \A r \in Rows, f \in Fields : NoDrafts[r][f] = Untyped
  BY DEF NoDraft, NoDrafts, NoTable, Draft

LEMMA RowIsDraft == Row \subseteq Draft
  BY DEF Row, Draft

LEMMA FreshPanel ==
  ASSUME NEW p \in Panels, NEW table \in Table
  PROVE  Mounted(p, table) \in UiStates
  BY EmptyDrafts DEF Mounted, UiStates

\* The entries of a row, and those of others.
LEMMA Entry ==
  ASSUME TypeOK, NEW e \in owed
  PROVE  e[1] \in Rows /\ e[2] \in Fields /\ e[3] \in Cells /\ e = <<e[1], e[2], e[3]>>
  BY DEF TypeOK, Entries

\* Drafts, panel and editor as they were: what was standing is standing.
LEMMA OwedKept ==
  ASSUME IInv, owed' \subseteq owed, ui'.panel = ui.panel, ui'.drafts = ui.drafts,
         ui.panel \in OneDraft => ui'.editing = ui.editing
  PROVE  OwedInv'
  BY DEF IInv, OwedInv, Standing

\* The saves go on as they were clicked, or have ended.
Onward == /\ \A t \in saves' : \E s \in saves : /\ t.row = s.row /\ t.patch = s.patch
                                                /\ t.since = s.since /\ t.here = s.here
          /\ ui'.panel = ui.panel /\ owed' \subseteq owed
          /\ count' \in Nat /\ count <= count'

LEMMA Clicked ==
  ASSUME IInv, Onward
  PROVE  SentInv' /\ SinceInv'
  <1>1. ASSUME NEW t \in saves'
        PROVE  t.since <= count'
    <2>1. PICK s \in saves : t.since = s.since
      BY DEF Onward
    <2>2. s.since \in 0 .. MaxEdits /\ s.since <= count /\ count \in 0 .. MaxEdits
      BY SaveFields DEF IInv, TypeOK, SinceInv
    <2> QED BY <2>1, <2>2, Numbers DEF Onward
  <1>2. SentInv'
    <2> SUFFICES ASSUME ui.panel \in WithEditor, NEW t \in Here', NEW e \in owed',
                        ui.panel \in OneDraft \/ t.row = e[1]
                 PROVE  Saved(e, t) \/ e[3] >= Blank + 2 + t.since
      BY DEF SentInv, Onward, Saved
    <2>1. PICK s \in saves : /\ t.row = s.row /\ t.patch = s.patch
                             /\ t.since = s.since /\ t.here = s.here
      BY DEF Onward, Here
    <2>2. s \in Here /\ e \in owed
      BY <2>1 DEF Onward, Here
    <2> QED BY <2>1, <2>2 DEF IInv, SentInv, Saved
  <1> QED BY <1>1, <1>2 DEF SinceInv

\* No save has changed, and nothing more is owed.
LEMMA SavesKept ==
  ASSUME IInv, UNCHANGED <<saves, count>>, ui'.panel = ui.panel, owed' \subseteq owed
  PROVE  SavesInv' /\ SentInv' /\ SinceInv'
  <1>1. Onward
    BY Numbers DEF IInv, TypeOK, Onward
  <1> QED BY <1>1, Clicked DEF IInv, SavesInv

\* One save has ended.
LEMMA SaveEnds ==
  ASSUME IInv, NEW s \in saves, saves' = saves \ {s}, count' = count,
         ui'.panel = ui.panel, owed' \subseteq owed
  PROVE  SavesInv' /\ SentInv' /\ SinceInv'
  <1>1. Onward
    BY Numbers DEF IInv, TypeOK, Onward
  <1> QED BY <1>1, Clicked DEF IInv, SavesInv

\* One save has gone on, and the rows on the screen are the same.
LEMMA SaveGoesOn ==
  ASSUME IInv, NEW s \in saves, NEW new, saves' = (saves \ {s}) \cup {new}, count' = count,
         Sound(new), new.row = s.row, new.patch = s.patch, new.since = s.since,
         new.here = s.here, new.before = s.before,
         ui'.panel = ui.panel, ui'.shown = ui.shown, ui'.loaded = ui.loaded, ui'.busy = ui.busy,
         owed' \subseteq owed, UNCHANGED <<told, crossed>>
  PROVE  SavesInv' /\ SentInv' /\ SinceInv' /\ OwnInv'
  <1>1. Onward
    BY Numbers DEF IInv, TypeOK, Onward
  <1>2. SavesInv'
    BY DEF IInv, SavesInv
  <1>3. OwnInv'
    <2> SUFFICES ASSUME ui.panel \in OwnRows, ~crossed
                 PROVE  /\ \A t, u \in Here' : t = u
                        /\ \A t \in Here' : Saving(t)'
                        /\ Here' = {} /\ ui.loaded => ui.shown = told
      BY DEF OwnInv
    <2>1. /\ \A t, u \in Here : t = u /\ Saving(t)
          /\ Here = {} /\ ui.loaded => ui.shown = told
      BY DEF IInv, OwnInv
    <2>2. CASE s.here
      <3>1. Here = {s} /\ Saving(s)
        BY <2>1, <2>2 DEF Here
      <3>2. Here' = {new}
        BY <2>2, <3>1 DEF Here
      <3>3. \A t \in {new} : Saving(t)'
        BY <3>1 DEF Saving
      <3> QED BY <3>2, <3>3
    <2>3. CASE ~s.here
      <3>1. Here' = Here
        BY <2>3 DEF Here
      <3> QED BY <2>1, <3>1 DEF Saving
    <2> QED BY <2>2, <2>3
  <1> QED BY <1>1, <1>2, <1>3, Clicked

-----------------------------------------------------------------------------
LEMMA InitInv == Init => IInv
  <1> SUFFICES ASSUME Init PROVE IInv
    OBVIOUS
  <1>1. server \in Table
    BY Numbers DEF Init, Table, Row
  <1>2. PICK p \in Panels : ui = Mounted(p, server)
    BY DEF Init
  <1>3. TypeOK
    <2>1. ui \in UiStates
      BY <1>1, <1>2, FreshPanel
    <2>2. count \in 0 .. MaxEdits /\ begun \in 0 .. MaxSaves /\ moves \in 0 .. MaxMoves
      BY Numbers DEF Init
    <2> QED BY <1>1, <2>1, <2>2 DEF Init, TypeOK
  <1>4. SavesInv /\ OwedInv /\ SentInv /\ SinceInv /\ Here = {}
    BY DEF Init, SavesInv, OwedInv, SentInv, SinceInv, Here
  <1>5. DraftInv
    BY <1>2, EmptyDrafts DEF DraftInv, Mounted
  <1>6. OwnInv
    BY <1>2, <1>4 DEF OwnInv, Mounted
  <1> QED BY <1>3, <1>4, <1>5, <1>6 DEF IInv

-----------------------------------------------------------------------------
(* The panel on the screen *)

LEMMA EnterInv ==
  ASSUME IInv, NEW p \in Panels, Enter(p)
  PROVE  IInv'
  <1> DEFINE left(s) == [s EXCEPT !.here = FALSE]
  <1>1. /\ ui' = Mounted(p, ui.shown) /\ saves' = {left(s) : s \in saves}
        /\ owed' = {} /\ entered' = {} /\ crossed' = FALSE
        /\ UNCHANGED <<server, count, begun, told>> /\ moves < MaxMoves /\ moves' = moves + 1
    BY DEF Enter
  <1>2. ASSUME NEW s \in saves
        PROVE  Sound(left(s)) /\ left(s).here = FALSE /\ left(s).since <= count
    <2>1. Sound(s) /\ s.since <= count
      BY DEF IInv, SavesInv, SinceInv
    <2>2. left(s) \in SaveStates /\ left(s).here = FALSE /\ left(s).at = s.at
          /\ left(s).reply = s.reply /\ left(s).patch = s.patch /\ left(s).typed = s.typed
          /\ left(s).panel = s.panel /\ left(s).since = s.since
      BY <2>1 DEF Sound, SaveStates
    <2> QED BY <2>1, <2>2 DEF Sound
  <1>3. SavesInv' /\ SinceInv' /\ Here' = {}
    <2> HIDE DEF left
    <2> QED BY <1>1, <1>2 DEF SavesInv, SinceInv, Here
  <1>4. TypeOK'
    <2>1. saves' \subseteq SaveStates
      BY <1>3 DEF SavesInv, Sound
    <2>2. ui' \in UiStates
      BY <1>1, UiFields, FreshPanel DEF IInv
    <2>3. moves' \in 0 .. MaxMoves
      BY <1>1, Numbers DEF IInv, TypeOK
    <2> QED BY <1>1, <2>1, <2>2, <2>3 DEF IInv, TypeOK
  <1>5. DraftInv' /\ OwedInv' /\ SentInv'
    BY <1>1, EmptyDrafts DEF DraftInv, OwedInv, SentInv, Mounted
  <1>6. OwnInv'
    BY <1>1, <1>3 DEF OwnInv, Mounted
  <1> QED BY <1>3, <1>4, <1>5, <1>6 DEF IInv

LEMMA LoadInv ==
  ASSUME IInv, Load
  PROVE  IInv'
  <1>1. /\ ~ui.loaded /\ ui' = [ui EXCEPT !.loaded = TRUE, !.shown = server] /\ told' = server
        /\ UNCHANGED <<server, saves, count, begun, moves, owed, entered, crossed>>
    BY DEF Load
  <1>2. ui \in UiStates /\ server \in Table
    BY DEF IInv, TypeOK
  <1>3. /\ ui' \in UiStates /\ ui'.panel = ui.panel /\ ui'.drafts = ui.drafts
        /\ ui'.shown = server /\ ui'.editing = ui.editing
    BY <1>1, <1>2 DEF UiStates
  <1>4. TypeOK'
    BY <1>1, <1>2, <1>3 DEF IInv, TypeOK
  <1>5. SavesInv' /\ SentInv' /\ SinceInv' /\ DraftInv' /\ OwedInv'
    BY <1>1, <1>3, SavesKept, OwedKept DEF IInv, DraftInv
  <1>6. OwnInv'
    <2>1. Here' = Here
      BY <1>1 DEF Here
    <2>2. ui.panel \in OwnRows /\ ~crossed => Here = {}
      BY <1>1 DEF IInv, OwnInv, Saving
    <2> QED BY <1>1, <1>3, <2>1, <2>2 DEF OwnInv
  <1> QED BY <1>4, <1>5, <1>6 DEF IInv

LEMMA RefreshInv ==
  ASSUME IInv, Refresh
  PROVE  IInv'
  <1>1. /\ ui.panel \notin OwnRows /\ ui' = [ui EXCEPT !.shown = server]
        /\ UNCHANGED <<server, saves, count, begun, moves, owed, entered, told, crossed>>
    BY DEF Refresh
  <1>2. ui \in UiStates /\ server \in Table
    BY DEF IInv, TypeOK
  <1>3. /\ ui' \in UiStates /\ ui'.panel = ui.panel /\ ui'.drafts = ui.drafts
        /\ ui'.editing = ui.editing
    BY <1>1, <1>2 DEF UiStates
  <1>4. TypeOK'
    BY <1>1, <1>2, <1>3 DEF IInv, TypeOK
  <1>5. SavesInv' /\ SentInv' /\ SinceInv' /\ DraftInv' /\ OwedInv'
    BY <1>1, <1>3, SavesKept, OwedKept DEF IInv, DraftInv
  <1>6. OwnInv'
    BY <1>1, <1>3 DEF OwnInv
  <1> QED BY <1>4, <1>5, <1>6 DEF IInv

LEMMA OtherInv ==
  ASSUME IInv, NEW r \in Rows, NEW f \in Fields, Other(r, f)
  PROVE  IInv'
  <1>1. /\ Counted /\ server' = [server EXCEPT ![r][f] = Fresh]
        /\ UNCHANGED <<ui, saves, begun, moves, owed, entered, told, crossed>>
    BY DEF Other
  <1>2. /\ server' \in Table /\ count' \in 0 .. MaxEdits
        /\ count' \in Nat /\ count <= count'
    <2>1. server' \in Table /\ count' \in 0 .. MaxEdits
      BY <1>1, FreshCell, SetCell DEF IInv, TypeOK
    <2>2. count' \in Nat /\ count <= count'
      BY <1>1, Numbers DEF Counted, IInv, TypeOK
    <2> QED BY <2>1, <2>2
  <1>3. TypeOK'
    BY <1>1, <1>2 DEF IInv, TypeOK
  <1>4. SentInv' /\ SinceInv'
    <2>1. Onward
      BY <1>1, <1>2 DEF Onward
    <2> QED BY <2>1, Clicked
  <1>5. SavesInv' /\ DraftInv' /\ OwedInv' /\ OwnInv'
    BY <1>1, OwedKept DEF IInv, SavesInv, DraftInv, OwnInv, Saving, Here
  <1> QED BY <1>3, <1>4, <1>5 DEF IInv

-----------------------------------------------------------------------------
(* Drafts *)

LEMMA BeginInv ==
  ASSUME IInv, NEW r \in Rows, Begin(r)
  PROVE  IInv'
  <1> DEFINE copied == [NoDrafts EXCEPT ![r] = ui.shown[r]]
  <1>1. UNCHANGED <<server, saves, count, begun, moves, entered, told, crossed>>
    BY DEF Begin
  <1>2. ui \in UiStates /\ ui.shown[r] \in Row /\ copied \in [Rows -> Draft]
    BY UiFields, EmptyDrafts, RowIsDraft DEF IInv, TypeOK, Table
  <1> HIDE DEF copied
  <1>3. /\ ui' \in UiStates /\ ui'.panel = ui.panel /\ ui'.shown = ui.shown
        /\ ui'.loaded = ui.loaded /\ ui'.busy = ui.busy
        /\ IF ui.panel \in OneDraft THEN owed' = {}
                                    ELSE ui'.drafts = ui.drafts /\ owed' = owed
    <2>1. CASE ui.panel \in OneDraft
      <3>1. ui' = [ui EXCEPT !.editing = r, !.drafts = copied] /\ owed' = {}
        BY <2>1 DEF Begin, copied
      <3> QED BY <1>2, <2>1, <3>1 DEF UiStates
    <2>2. CASE ui.panel \notin OneDraft
      <3>1. ui' = [ui EXCEPT !.editing = r] /\ owed' = owed
        BY <2>2 DEF Begin
      <3> QED BY <1>2, <2>2, <3>1 DEF UiStates
    <2> QED BY <2>1, <2>2
  <1>4. TypeOK'
    BY <1>1, <1>3 DEF IInv, TypeOK
  <1>5. DraftInv'
    <2>1. CASE ui.panel \in OneDraft
      BY <1>3, <2>1 DEF DraftInv, Resent, OneDraft, OwnRows
    <2>2. CASE ui.panel \notin OneDraft
      BY <1>1, <1>3, <2>2 DEF IInv, DraftInv
    <2> QED BY <2>1, <2>2
  <1>6. OwedInv'
    BY <1>3, OwedKept DEF OwedInv
  <1>7. SavesInv' /\ SentInv' /\ SinceInv' /\ OwnInv'
    BY <1>1, <1>3, SavesKept DEF IInv, OwnInv, Saving, Here
  <1> QED BY <1>4, <1>5, <1>6, <1>7 DEF IInv

LEMMA TypeInv ==
  ASSUME IInv, NEW r \in Rows, NEW f \in Fields, Type(r, f)
  PROVE  IInv'
  <1>1. /\ Counted /\ ui' = [ui EXCEPT !.drafts[r][f] = Fresh]
        /\ owed' = {e \in owed : ~(e[1] = r /\ e[2] = f)} \cup {<<r, f, Fresh>>}
        /\ entered' = entered \cup {<<r, f>>}
        /\ UNCHANGED <<server, saves, begun, moves, told, crossed>>
        /\ ui.panel \in OneDraft => ui.editing = r
    BY DEF Type, Typable, OneDraft, OwnRows, Lists
  <1>2. Fresh \in Cells /\ count' \in 0 .. MaxEdits /\ count' = count + 1 /\ count \in Nat
    BY <1>1, FreshCell, Numbers DEF IInv, TypeOK, Counted
  <1>3. ui \in UiStates /\ ui.drafts \in [Rows -> Draft]
    BY UiFields DEF IInv, TypeOK
  <1>4. /\ [ui.drafts EXCEPT ![r][f] = Fresh] \in [Rows -> Draft]
        /\ [ui.drafts EXCEPT ![r][f] = Fresh][r][f] = Fresh
        /\ \A q \in Rows, g \in Fields :
              ~(q = r /\ g = f) => [ui.drafts EXCEPT ![r][f] = Fresh][q][g] = ui.drafts[q][g]
    BY <1>2, <1>3 DEF Draft
  <1>5. /\ ui' \in UiStates /\ ui'.drafts = [ui.drafts EXCEPT ![r][f] = Fresh]
        /\ ui'.panel = ui.panel /\ ui'.shown = ui.shown /\ ui'.editing = ui.editing
        /\ ui'.loaded = ui.loaded /\ ui'.busy = ui.busy
    BY <1>1, <1>3, <1>4 DEF UiStates
  <1>6. TypeOK'
    <2>1. owed' \subseteq Entries
      BY <1>1, <1>2 DEF IInv, TypeOK, Entries
    <2> QED BY <1>1, <1>2, <1>5, <2>1 DEF IInv, TypeOK
  <1>7. DraftInv'
    BY <1>1, <1>4, <1>5 DEF IInv, DraftInv
  <1>8. OwedInv'
    <2> SUFFICES ASSUME NEW e \in owed' PROVE Standing(ui', e)
      BY DEF OwedInv
    <2>1. CASE e = <<r, f, Fresh>>
      BY <1>1, <1>4, <1>5, <2>1 DEF Standing
    <2>2. CASE e \in owed /\ ~(e[1] = r /\ e[2] = f)
      <3>1. e[1] \in Rows /\ e[2] \in Fields
        BY <2>2, Entry DEF IInv
      <3> QED BY <1>4, <1>5, <2>2, <3>1 DEF IInv, OwedInv, Standing
    <2> QED BY <1>1, <2>1, <2>2
  <1>9. SinceInv' /\ SentInv'
    <2>1. ASSUME NEW s \in saves PROVE s.since \in Nat /\ s.since <= count
      BY SaveFields, Numbers DEF IInv, TypeOK, SinceInv
    <2>2. SinceInv'
      BY <1>1, <1>2, <2>1 DEF SinceInv
    <2>3. ASSUME NEW s \in Here, NEW e \in owed', ui.panel \in WithEditor,
                 ui.panel \in OneDraft \/ s.row = e[1]
          PROVE  Saved(e, s) \/ e[3] >= Blank + 2 + s.since
      <3>1. CASE e = <<r, f, Fresh>>
        <4>1. s.since \in Nat /\ s.since <= count
          BY <2>1 DEF Here
        <4> QED BY <1>2, <3>1, <4>1 DEF Fresh, Blank
      <3>2. CASE e \in owed
        BY <2>3, <3>2 DEF IInv, SentInv
      <3> QED BY <1>1, <3>1, <3>2
    <2>4. Here' = Here
      BY <1>1 DEF Here
    <2> QED BY <1>5, <2>2, <2>3, <2>4 DEF SentInv, Saved
  <1>10. SavesInv' /\ OwnInv'
    BY <1>1, <1>5 DEF IInv, SavesInv, OwnInv, Saving, Here
  <1> QED BY <1>6, <1>7, <1>8, <1>9, <1>10 DEF IInv

\* Giving up the draft of the open row, for an empty one or for a new deliverable's.
LEMMA GiveUpInv ==
  ASSUME IInv, NEW r \in Rows, ui.editing = r, NEW draft \in Draft,
         UNCHANGED <<server, saves, count, begun, moves, told, crossed>>,
         ui' \in UiStates, ui'.drafts = [ui.drafts EXCEPT ![r] = draft],
         ui'.panel = ui.panel, ui'.shown = ui.shown, ui'.loaded = ui.loaded, ui'.busy = ui.busy,
         owed' = owed \ Of(owed, r), entered' \subseteq entered,
         \/ draft = NoDraft /\ entered' = entered \ Of(entered, r)
         \/ ui.panel \in OneDraft
  PROVE  IInv'
  <1>1. ui.drafts \in [Rows -> Draft]
    BY UiFields DEF IInv
  <1>2. TypeOK'
    BY DEF IInv, TypeOK
  <1>3. DraftInv'
    <2>1. CASE ui.panel \in OneDraft
      BY <2>1 DEF DraftInv, Resent, OneDraft, OwnRows
    <2>2. CASE draft = NoDraft /\ entered' = entered \ Of(entered, r)
      BY <1>1, <2>2, EmptyDrafts DEF IInv, DraftInv, Of
    <2> QED BY <2>1, <2>2
  <1>4. OwedInv'
    <2> SUFFICES ASSUME NEW e \in owed' PROVE Standing(ui', e)
      BY DEF OwedInv
    <2>1. e \in owed /\ e[1] # r
      BY DEF Of
    <2>2. e[1] \in Rows /\ Standing(ui, e)
      BY <2>1, Entry DEF IInv, OwedInv
    <2> QED BY <1>1, <2>1, <2>2 DEF Standing
  <1>5. owed' \subseteq owed
    OBVIOUS
  <1>6. SavesInv' /\ SentInv' /\ SinceInv'
    BY <1>5, SavesKept
  <1>7. OwnInv'
    BY DEF IInv, OwnInv, Saving, Here
  <1> QED BY <1>2, <1>3, <1>4, <1>6, <1>7 DEF IInv

LEMMA CancelInv ==
  ASSUME IInv, Cancel
  PROVE  IInv'
  <1> DEFINE left == IF ui.panel = "deliverables" THEN ui.drafts[ui.editing] ELSE NoDraft
  <1>1. /\ ui' = [ui EXCEPT !.editing = Nobody, !.drafts[ui.editing] = left]
        /\ owed' = owed \ Of(owed, ui.editing) /\ entered' = entered \ Of(entered, ui.editing)
        /\ UNCHANGED <<server, saves, count, begun, moves, told, crossed>>
        /\ ui.editing # Nobody
    BY DEF Cancel
  <1>2. ui \in UiStates /\ ui.editing \in Rows /\ ui.drafts \in [Rows -> Draft]
    BY <1>1, UiFields DEF IInv, TypeOK
  <1>3. left \in Draft /\ (left = NoDraft \/ ui.panel \in OneDraft)
    BY <1>2, EmptyDrafts DEF OneDraft, OwnRows
  <1> HIDE DEF left
  <1>4. [ui.drafts EXCEPT ![ui.editing] = left] \in [Rows -> Draft]
    BY <1>2, <1>3
  <1>5. /\ ui' \in UiStates /\ ui'.drafts = [ui.drafts EXCEPT ![ui.editing] = left]
        /\ ui'.panel = ui.panel /\ ui'.shown = ui.shown
        /\ ui'.loaded = ui.loaded /\ ui'.busy = ui.busy
    BY <1>1, <1>2, <1>4 DEF UiStates
  <1> QED BY <1>1, <1>2, <1>3, <1>5, GiveUpInv

LEMMA OpenCreateInv ==
  ASSUME IInv, OpenCreate
  PROVE  IInv'
  <1> DEFINE blank == [f \in Fields |-> Blank]
  <1>1. /\ ui' = [ui EXCEPT !.drafts[ui.editing] = blank]
        /\ owed' = owed \ Of(owed, ui.editing)
        /\ UNCHANGED <<server, saves, count, begun, moves, entered, told, crossed>>
        /\ ui.editing # Nobody /\ ui.panel \in OneDraft
    BY DEF OpenCreate, OneDraft, OwnRows
  <1>2. blank \in Draft
    BY Numbers DEF Draft
  <1> HIDE DEF blank
  <1>3. ui \in UiStates /\ ui.editing \in Rows /\ ui.drafts \in [Rows -> Draft]
    BY <1>1, UiFields DEF IInv, TypeOK
  <1>4. [ui.drafts EXCEPT ![ui.editing] = blank] \in [Rows -> Draft]
    BY <1>2, <1>3
  <1>5. /\ ui' \in UiStates /\ ui'.drafts = [ui.drafts EXCEPT ![ui.editing] = blank]
        /\ ui'.panel = ui.panel /\ ui'.shown = ui.shown
        /\ ui'.loaded = ui.loaded /\ ui'.busy = ui.busy
    BY <1>1, <1>3, <1>4 DEF UiStates
  <1> QED BY <1>1, <1>2, <1>3, <1>5, GiveUpInv

-----------------------------------------------------------------------------
(* Saves *)

\* What Save sends is what is in the draft, or what the panel sends again.
LEMMA SentDraft ==
  ASSUME IInv, NEW r \in Rows, ui.panel \in WithEditor => ui.editing = r
  PROVE  /\ Sent(r) \in Draft
         /\ \A f \in Fields : Sent(r)[f] # Untyped =>
               f \in {g \in Fields : <<r, g>> \in entered} \cup Resent(ui.panel)
         /\ \A f \in Fields : ui.drafts[r][f] # Untyped => Sent(r)[f] = ui.drafts[r][f]
  <1>1. ui.drafts[r] \in Draft /\ ui.shown[r] \in Row
    BY UiFields DEF IInv, Table
  <1>2. ASSUME NEW f \in Fields, f \in Resent(ui.panel)
        PROVE  /\ Inputs(ui, r)[f] \in Cells \cup {Untyped}
               /\ ui.drafts[r][f] # Untyped => Inputs(ui, r)[f] = ui.drafts[r][f]
    <2>1. /\ ui.drafts[r][f] \in Cells \cup {Untyped}
          /\ Over(ui, r)[f] \in Cells \cup {Untyped}
          /\ ui.drafts[r][f] # Untyped => Over(ui, r)[f] = ui.drafts[r][f]
      BY <1>1 DEF Over, Merge, Draft, Row
    <2>2. CASE ui.panel = "milestone"
      BY <2>1, <2>2 DEF Inputs, MilestoneCells
    <2>3. CASE ui.panel \in OneDraft
      <3>1. ui.editing = r
        BY <2>3 DEF WithEditor
      <3>2. Inputs(ui, r) = ui.drafts[r]
        BY <2>3, <3>1 DEF Inputs, EditableCell, DailyCells, DeliverableCells, PersonForm, OneDraft, OwnRows
      <3> QED BY <2>1, <3>2
    <2> QED BY <1>2, <2>2, <2>3 DEF Resent
  <1>3. Sent(r) \in Draft
    BY <1>1, <1>2 DEF Sent, Draft
  <1>4. ASSUME NEW f \in Fields, Sent(r)[f] # Untyped
        PROVE  <<r, f>> \in entered \/ f \in Resent(ui.panel)
    BY <1>4 DEF Sent, IInv, DraftInv
  <1>5. \A f \in Fields : ui.drafts[r][f] # Untyped => Sent(r)[f] = ui.drafts[r][f]
    BY <1>2 DEF Sent
  <1> QED BY <1>3, <1>4, <1>5

\* A click on a button that is not loading: with a local table and no saves that
\* crossed, nothing was on its way, and whatever is owed is in what is sent.
LEMMA StartInv ==
  ASSUME IInv, NEW r \in Rows, NEW patch \in Draft, NEW typed \in SUBSET Fields,
         Start(r, patch, typed),
         \A f \in Fields : patch[f] # Untyped => f \in typed \cup Resent(ui.panel),
         ui.panel \in OwnRows => ui.loaded /\ ui.busy # r,
         ui.panel \in WithEditor =>
           ui.editing = r /\ \A f \in Fields : ui.drafts[r][f] # Untyped => patch[f] = ui.drafts[r][f],
         UNCHANGED <<server, moves, owed, entered, told>>,
         count' \in 0 .. MaxEdits, count <= count'
  PROVE  IInv'
  <1> DEFINE new == [row |-> r, panel |-> ui.panel, here |-> TRUE, at |-> "sent",
                     since |-> count, patch |-> patch, typed |-> typed,
                     before |-> ui.shown, reply |-> NoTable]
             merged == [ui.shown EXCEPT ![r] = Merge(@, patch)]
  <1>1. /\ begun < MaxSaves /\ begun' = begun + 1
        /\ ui' = Optimistic(MarkBusy(ui, r), r, patch)
        /\ saves' = saves \cup {new}
        /\ crossed' = (crossed \/ \E s \in Here : s.row # r)
    BY DEF Start
  <1>2. /\ ui \in UiStates /\ ui.panel \in Panels /\ ui.shown \in Table /\ count \in 0 .. MaxEdits
    BY UiFields DEF IInv, TypeOK
  <1>3. new \in SaveStates /\ new.at = "sent"
    BY <1>2 DEF SaveStates
  <1>4. Sound(new)
    BY <1>3 DEF Sound
  <1>5. /\ new.here /\ new.row = r /\ new.before = ui.shown /\ new.patch = patch
        /\ new.since = count
    OBVIOUS
  <1>6. /\ merged \in Table /\ \A q \in Rows \ {r} : merged[q] = ui.shown[q]
        /\ merged[r] = Merge(ui.shown[r], patch)
    <2>1. Merge(ui.shown[r], patch) \in Row
      BY <1>2, MergedRow DEF Table
    <2> QED BY <1>2, <2>1 DEF Table
  <1> HIDE DEF new, merged
  <1>7. /\ ui' \in UiStates /\ ui'.panel = ui.panel /\ ui'.drafts = ui.drafts
        /\ ui'.editing = ui.editing /\ ui'.loaded = ui.loaded /\ ui'.busy = r
        /\ ui.panel \in OwnRows => ui'.shown = merged
    <2>1. /\ MarkBusy(ui, r) \in UiStates /\ MarkBusy(ui, r).shown = ui.shown
          /\ MarkBusy(ui, r).panel = ui.panel /\ MarkBusy(ui, r).drafts = ui.drafts
          /\ MarkBusy(ui, r).loaded = ui.loaded /\ MarkBusy(ui, r).busy = r
          /\ MarkBusy(ui, r).editing = ui.editing
      BY <1>2 DEF MarkBusy, UiStates
    <2>2. CASE ui.panel \in OwnRows
      <3>1. ui' = [MarkBusy(ui, r) EXCEPT !.shown = merged]
        BY <1>1, <2>1, <2>2 DEF Optimistic, merged, UiStates
      <3> QED BY <1>6, <2>1, <3>1 DEF UiStates
    <2>3. CASE ui.panel \notin OwnRows
      BY <1>1, <2>1, <2>3 DEF Optimistic
    <2> QED BY <2>2, <2>3
  <1>8. TypeOK'
    <2>1. begun' \in 0 .. MaxSaves
      BY <1>1, Numbers DEF IInv, TypeOK
    <2>2. crossed' \in BOOLEAN
      BY <1>1 DEF IInv, TypeOK
    <2> QED BY <1>1, <1>3, <1>7, <2>1, <2>2 DEF IInv, TypeOK
  <1>9. SavesInv' /\ DraftInv' /\ OwedInv'
    BY <1>1, <1>4, <1>7, OwedKept DEF IInv, SavesInv, DraftInv
  <1>10. OwnInv'
    <2> SUFFICES ASSUME ui.panel \in OwnRows, ~crossed'
                 PROVE  Here' = {new} /\ \A t \in {new} : Saving(t)'
      BY <1>7 DEF OwnInv
    <2>1. ~crossed /\ \A s \in Here : s.row = r
      BY <1>1 DEF IInv, TypeOK
    <2>2. Here = {}
      BY <2>1 DEF IInv, OwnInv, Saving
    <2>3. ui.shown = told /\ ui.loaded
      BY <2>1, <2>2 DEF IInv, OwnInv
    <2>4. Here' = {new}
      BY <1>1, <1>5, <2>2 DEF Here
    <2>5. ui'.busy = r /\ ui'.loaded /\ new.before = told' /\ new.row = r
      BY <1>5, <1>7, <2>3
    <2>6. /\ \A q \in Rows \ {r} : ui'.shown[q] = told'[q]
          /\ ui'.shown[r] = Merge(told'[r], new.patch)
      BY <1>5, <1>6, <1>7, <2>3
    <2> QED BY <2>4, <2>5, <2>6 DEF Saving
  <1>11. SinceInv'
    <2> SUFFICES ASSUME NEW t \in saves PROVE t.since <= count'
      BY <1>1, <1>5 DEF SinceInv
    <2>1. t.since \in 0 .. MaxEdits /\ t.since <= count
      BY SaveFields DEF IInv, TypeOK, SinceInv
    <2> QED BY <1>2, <2>1, Numbers
  <1>12. SentInv'
    <2> SUFFICES ASSUME ui.panel \in WithEditor, NEW t \in Here', NEW e \in owed,
                        ui.panel \in OneDraft \/ t.row = e[1]
                 PROVE  Saved(e, t) \/ e[3] >= Blank + 2 + t.since
      BY <1>7 DEF SentInv, Saved
    <2>1. CASE t = new
      <3>1. e[1] \in Rows /\ e[2] \in Fields /\ e[3] # Untyped
        BY Entry, Numbers DEF IInv
      <3>2. ui.drafts[e[1]][e[2]] = e[3] /\ (ui.panel \in OneDraft => ui.editing = e[1])
        BY DEF IInv, OwedInv, Standing
      <3>3. e[1] = r
        BY <1>5, <2>1, <3>2
      <3> QED BY <1>5, <2>1, <3>1, <3>2, <3>3 DEF Saved
    <2>2. CASE t # new
      <3>1. t \in Here
        BY <1>1, <2>2 DEF Here
      <3> QED BY <3>1 DEF IInv, SentInv
    <2> QED BY <2>1, <2>2
  <1> QED BY <1>8, <1>9, <1>10, <1>11, <1>12 DEF IInv

LEMMA SaveStep ==
  ASSUME IInv, NEW r \in Rows, Save(r)
  PROVE  IInv'
  <1> DEFINE patch == Sent(r)
             typed == {f \in Fields : <<r, f>> \in entered}
  <1>1. /\ Start(r, patch, typed)
        /\ ui.loaded /\ ui.busy # r /\ (ui.panel \in WithEditor => ui.editing = r)
        /\ UNCHANGED <<server, count, moves, owed, entered, told>>
    BY DEF Save, Clickable
  <1>2. count' \in 0 .. MaxEdits /\ count <= count'
    BY <1>1, Numbers DEF IInv, TypeOK
  <1>3. /\ patch \in Draft /\ typed \in SUBSET Fields
        /\ \A f \in Fields : patch[f] # Untyped => f \in typed \cup Resent(ui.panel)
        /\ \A f \in Fields : ui.drafts[r][f] # Untyped => patch[f] = ui.drafts[r][f]
    BY <1>1, SentDraft
  <1> HIDE DEF patch, typed
  <1> QED BY <1>1, <1>2, <1>3, StartInv

LEMMA PickInv ==
  ASSUME IInv, NEW r \in Rows, Pick(r)
  PROVE  IInv'
  <1> DEFINE patch == [NoDraft EXCEPT !["progress"] = Fresh]
  <1>1. /\ ui.panel = "tasks" /\ Counted /\ Start(r, patch, {"progress"})
        /\ UNCHANGED <<server, moves, owed, entered, told>>
    BY DEF Pick
  <1>2. ui.panel \notin OwnRows /\ ui.panel \notin WithEditor
    BY <1>1 DEF OwnRows, OneDraft, WithEditor, Lists
  <1>3. Fresh \in Cells /\ count' \in 0 .. MaxEdits
    BY <1>1, FreshCell DEF IInv, TypeOK
  <1>4. count <= count'
    BY <1>1, Numbers DEF Counted, IInv, TypeOK
  <1>5. /\ patch \in Draft /\ {"progress"} \in SUBSET Fields
        /\ \A f \in Fields : patch[f] # Untyped => f \in {"progress"}
    BY <1>3, EmptyDrafts DEF Draft, Fields
  <1> HIDE DEF patch
  <1> QED BY <1>1, <1>2, <1>3, <1>4, <1>5, StartInv

LEMMA WriteInv ==
  ASSUME IInv, NEW s \in saves, Write(s)
  PROVE  IInv'
  <1> DEFINE table == [server EXCEPT ![s.row] = Merge(@, s.patch)]
             new == [s EXCEPT !.at = "written", !.reply = table]
  <1>1. /\ server' = table /\ saves' = (saves \ {s}) \cup {new}
        /\ UNCHANGED <<ui, count, begun, moves, owed, entered, told, crossed>>
    BY DEF Write
  <1>2. Sound(s) /\ s \in SaveStates /\ server \in Table
    BY DEF IInv, SavesInv, Sound, TypeOK
  <1>3. table \in Table
    <2>1. s.row \in Rows /\ Merge(server[s.row], s.patch) \in Row
      BY <1>2, SaveFields, MergedRow DEF Table
    <2> QED BY <1>2, <2>1 DEF Table
  <1> HIDE DEF table
  <1>4. /\ new \in SaveStates /\ new.reply = table /\ new.patch = s.patch
        /\ new.typed = s.typed /\ new.panel = s.panel /\ new.row = s.row
        /\ new.here = s.here /\ new.before = s.before /\ new.since = s.since
    BY <1>2, <1>3 DEF SaveStates
  <1> HIDE DEF new
  <1>5. Sound(new)
    BY <1>2, <1>3, <1>4 DEF Sound
  <1>6. TypeOK'
    BY <1>1, <1>3, <1>4 DEF IInv, TypeOK
  <1>7. DraftInv' /\ OwedInv'
    BY <1>1, OwedKept DEF IInv, DraftInv
  <1>8. SavesInv' /\ SentInv' /\ SinceInv' /\ OwnInv'
    BY <1>1, <1>4, <1>5, SaveGoesOn
  <1> QED BY <1>6, <1>7, <1>8 DEF IInv

-----------------------------------------------------------------------------
(* The answers *)

\* What closing the editor does to the panel and its drafts.
LEMMA ClosedUi ==
  ASSUME IInv, NEW s \in SaveStates
  PROVE  LET u == Closed(ui, s) IN
         /\ u \in UiStates /\ u.panel = ui.panel /\ u.loaded = ui.loaded
         /\ u.shown = ui.shown /\ u.busy = ui.busy
         /\ u.editing = IF ui.panel \in WithEditor THEN Nobody ELSE ui.editing
         /\ u.drafts = CASE ui.panel \in {"daily", "people"} -> NoDrafts
                         [] ui.panel \in Lists    -> [ui.drafts EXCEPT ![s.row] = NoDraft]
                         [] OTHER                 -> ui.drafts
  <1> DEFINE u == Closed(ui, s)
             without == [ui.drafts EXCEPT ![s.row] = NoDraft]
  <1>1. ui \in UiStates /\ ui.drafts \in [Rows -> Draft] /\ s.row \in Rows
    BY UiFields, SaveFields DEF IInv, TypeOK
  <1>2. without \in [Rows -> Draft]
    BY <1>1, EmptyDrafts
  <1>3. CASE ui.panel \in {"daily", "people"}
    <2>1. u = [ui EXCEPT !.editing = Nobody, !.drafts = NoDrafts]
      BY <1>3 DEF Closed, Lists
    <2> QED BY <1>1, <1>3, <2>1, EmptyDrafts DEF UiStates, WithEditor, OneDraft, OwnRows, Lists
  <1>4. CASE ui.panel \in Lists
    <2>1. u = [ui EXCEPT !.editing = Nobody, !.drafts[s.row] = NoDraft]
      BY <1>4 DEF Closed
    <2>2. u = [ui EXCEPT !.editing = Nobody, !.drafts = without]
      BY <1>1, <2>1 DEF UiStates
    <2> HIDE DEF without
    <2>3. /\ u \in UiStates /\ u.panel = ui.panel /\ u.loaded = ui.loaded
          /\ u.shown = ui.shown /\ u.busy = ui.busy /\ u.editing = Nobody /\ u.drafts = without
      BY <1>1, <1>2, <2>2 DEF UiStates
    <2> QED BY <1>4, <2>3 DEF WithEditor, without
  <1>5. CASE ui.panel = "deliverables"
    <2>1. u = [ui EXCEPT !.editing = Nobody]
      BY <1>5 DEF Closed, Lists
    <2> QED BY <1>1, <1>5, <2>1 DEF UiStates, WithEditor, OneDraft, OwnRows, Lists
  <1>6. CASE ui.panel \notin Lists \cup {"daily", "people", "deliverables"}
    <2>1. u = ui
      BY <1>6 DEF Closed
    <2> QED BY <1>1, <1>6, <2>1 DEF WithEditor, OneDraft, OwnRows
  <1> QED BY <1>3, <1>4, <1>5, <1>6

\* A success leaves nothing owed that is not standing, and no draft that is
\* neither typed nor sent again.
LEMMA SuccessKeeps ==
  ASSUME IInv, NEW s \in saves, ui'.drafts = Closed(ui, s).drafts, ui'.panel = ui.panel,
         Succeeded(s)
  PROVE  DraftInv' /\ OwedInv' /\ owed' \subseteq owed /\ entered' \subseteq entered
  <1>1. /\ owed' = {e \in owed : Standing(ui', e) /\ ~Saved(e, s)}
        /\ entered' = IF ui.panel \in Lists THEN entered \ Of(entered, s.row) ELSE entered
    BY DEF Succeeded
  <1>2. s \in SaveStates /\ s.row \in Rows /\ ui.drafts \in [Rows -> Draft]
    BY UiFields, SaveFields DEF IInv, TypeOK
  <1>3. ui'.drafts = CASE ui.panel \in {"daily", "people"} -> NoDrafts
                       [] ui.panel \in Lists    -> [ui.drafts EXCEPT ![s.row] = NoDraft]
                       [] OTHER                 -> ui.drafts
    BY <1>2, ClosedUi
  <1>4. DraftInv'
    <2>1. CASE ui.panel \in {"daily", "people"}
      BY <1>3, <2>1, EmptyDrafts DEF DraftInv, Lists
    <2>2. CASE ui.panel \in Lists
      <3>1. ui'.drafts = [ui.drafts EXCEPT ![s.row] = NoDraft]
        BY <1>3, <2>2
      <3> QED BY <1>1, <1>2, <2>2, <3>1, EmptyDrafts DEF IInv, DraftInv, Of
    <2>3. CASE ui.panel \notin Lists \cup {"daily", "people"}
      BY <1>1, <1>3, <2>3 DEF IInv, DraftInv
    <2> QED BY <2>1, <2>2, <2>3
  <1>5. OwedInv'
    BY <1>1 DEF OwedInv, Standing
  <1> QED BY <1>1, <1>4, <1>5

LEMMA RowLandInv ==
  ASSUME IInv, NEW s \in saves, Land(s)
  PROVE  IInv'
  <1> DEFINE u == Closed(ui, s)
             put == [ui.shown EXCEPT ![s.row] = s.reply[s.row]]
             table == IF ui.panel \in OwnRows THEN put ELSE s.reply
  <1>1. /\ s.here /\ s.at = "written" /\ saves' = saves \ {s}
        /\ ui' = [Answer(u, s) EXCEPT !.busy = Nobody]
        /\ told' = IF ui.panel \in OwnRows THEN [told EXCEPT ![s.row] = s.reply[s.row]] ELSE told
        /\ Succeeded(s)
        /\ UNCHANGED <<server, count, begun, moves, crossed>>
    BY DEF Land
  <1>2. /\ s \in SaveStates /\ s.row \in Rows /\ s.reply \in Table
        /\ told \in Table /\ ui.shown \in Table
    BY <1>1, SaveFields, UiFields DEF IInv, TypeOK, SavesInv, Sound
  <1>3. /\ u \in UiStates /\ u.panel = ui.panel /\ u.loaded = ui.loaded /\ u.shown = ui.shown
    BY <1>2, ClosedUi
  <1>4. put \in Table /\ table \in Table
    BY <1>2 DEF Table
  <1>5. Answer(u, s) = [u EXCEPT !.shown = table]
    BY <1>3 DEF Answer, UiStates
  <1> HIDE DEF u, table
  <1>6. /\ ui' \in UiStates /\ ui'.panel = ui.panel /\ ui'.loaded = ui.loaded
        /\ ui'.shown = table /\ ui'.drafts = u.drafts
    BY <1>1, <1>3, <1>4, <1>5 DEF UiStates
  <1>7. DraftInv' /\ OwedInv' /\ owed' \subseteq owed /\ entered' \subseteq entered
    BY <1>1, <1>6, SuccessKeeps DEF u
  <1>8. SavesInv' /\ SentInv' /\ SinceInv'
    BY <1>1, <1>6, <1>7, SaveEnds
  <1>9. TypeOK'
    <2>1. told' \in Table
      BY <1>1, <1>2 DEF Table
    <2> QED BY <1>1, <1>6, <1>7, <2>1 DEF IInv, TypeOK
  <1>10. OwnInv'
    <2> SUFFICES ASSUME ui.panel \in OwnRows, ~crossed
                 PROVE  Here' = {} /\ ui'.shown = told'
      BY <1>1, <1>6 DEF OwnInv
    <2>1. s \in Here /\ Here = {s} /\ \A q \in Rows \ {s.row} : ui.shown[q] = told[q]
      BY <1>1 DEF IInv, OwnInv, Here, Saving
    <2>2. Here' = {}
      BY <1>1, <2>1 DEF Here
    <2>3. put = [told EXCEPT ![s.row] = s.reply[s.row]]
      BY <1>2, <2>1 DEF Table
    <2> QED BY <1>1, <1>6, <2>2, <2>3 DEF table
  <1> QED BY <1>7, <1>8, <1>9, <1>10 DEF IInv

LEMMA LeftInv ==
  ASSUME IInv, NEW s \in saves, LandLeft(s)
  PROVE  IInv'
  <1>1. /\ ~s.here /\ s.at # "sent" /\ saves' = saves \ {s}
        /\ ui' = IF ui.panel \in OwnRows THEN ui ELSE [ui EXCEPT !.shown = s.reply]
        /\ UNCHANGED <<server, count, begun, moves, owed, entered, told, crossed>>
    BY DEF LandLeft
  <1>2. ui \in UiStates /\ s.reply \in Table
    BY <1>1 DEF IInv, TypeOK, SavesInv, Sound
  <1>3. /\ ui' \in UiStates /\ ui'.panel = ui.panel /\ ui'.drafts = ui.drafts
        /\ ui'.editing = ui.editing
        /\ ui.panel \in OwnRows => ui' = ui
    BY <1>1, <1>2 DEF UiStates
  <1>4. TypeOK'
    BY <1>1, <1>3 DEF IInv, TypeOK
  <1>5. SavesInv' /\ SentInv' /\ SinceInv' /\ DraftInv' /\ OwedInv'
    BY <1>1, <1>3, SaveEnds, OwedKept DEF IInv, DraftInv
  <1>6. OwnInv'
    <2>1. Here' = Here
      BY <1>1 DEF Here
    <2> QED BY <1>1, <1>3, <2>1 DEF IInv, OwnInv, Saving
  <1> QED BY <1>4, <1>5, <1>6 DEF IInv

LEMMA CloseInv ==
  ASSUME IInv, NEW s \in saves, Close(s)
  PROVE  IInv'
  <1> DEFINE new == [s EXCEPT !.at = "reloading"]
  <1>1. /\ s.here /\ s.at = "written" /\ saves' = (saves \ {s}) \cup {new}
        /\ ui' = Closed(ui, s) /\ Succeeded(s)
        /\ UNCHANGED <<server, count, begun, moves, told, crossed>>
    BY DEF Close
  <1>2. Sound(s) /\ s \in SaveStates
    BY DEF IInv, SavesInv, Sound
  <1>3. /\ ui' \in UiStates /\ ui'.panel = ui.panel /\ ui'.loaded = ui.loaded
        /\ ui'.shown = ui.shown /\ ui'.busy = ui.busy
    BY <1>1, <1>2, ClosedUi
  <1>4. DraftInv' /\ OwedInv' /\ owed' \subseteq owed /\ entered' \subseteq entered
    BY <1>1, <1>3, SuccessKeeps
  <1>5. /\ new \in SaveStates /\ new.reply = s.reply /\ new.patch = s.patch
        /\ new.typed = s.typed /\ new.panel = s.panel /\ new.row = s.row
        /\ new.here = s.here /\ new.before = s.before /\ new.since = s.since
    BY <1>2 DEF SaveStates
  <1> HIDE DEF new
  <1>6. Sound(new)
    BY <1>1, <1>2, <1>5 DEF Sound
  <1>7. TypeOK'
    BY <1>1, <1>3, <1>4, <1>5 DEF IInv, TypeOK
  <1>8. SavesInv' /\ SentInv' /\ SinceInv' /\ OwnInv'
    BY <1>1, <1>3, <1>4, <1>5, <1>6, SaveGoesOn
  <1> QED BY <1>4, <1>7, <1>8 DEF IInv

LEMMA ReadInv ==
  ASSUME IInv, NEW s \in saves, Read(s)
  PROVE  IInv'
  <1> DEFINE new == [s EXCEPT !.at = "read", !.reply = server]
  <1>1. /\ saves' = (saves \ {s}) \cup {new}
        /\ UNCHANGED <<ui, server, count, begun, moves, owed, entered, told, crossed>>
    BY DEF Read
  <1>2. Sound(s) /\ s \in SaveStates /\ server \in Table
    BY DEF IInv, SavesInv, Sound, TypeOK
  <1>3. /\ new \in SaveStates /\ new.reply = server /\ new.patch = s.patch
        /\ new.typed = s.typed /\ new.panel = s.panel /\ new.row = s.row
        /\ new.here = s.here /\ new.before = s.before /\ new.since = s.since
    BY <1>2 DEF SaveStates
  <1> HIDE DEF new
  <1>4. Sound(new)
    BY <1>2, <1>3 DEF Sound
  <1>5. TypeOK'
    BY <1>1, <1>3 DEF IInv, TypeOK
  <1>6. DraftInv' /\ OwedInv'
    BY <1>1, OwedKept DEF IInv, DraftInv
  <1>7. SavesInv' /\ SentInv' /\ SinceInv' /\ OwnInv'
    BY <1>1, <1>3, <1>4, SaveGoesOn
  <1> QED BY <1>5, <1>6, <1>7 DEF IInv

\* A save of the panel on the screen has ended, and the rows are what is told.
LEMMA HereEnds ==
  ASSUME IInv, NEW s \in saves, s.here, saves' = saves \ {s}, ui'.panel = ui.panel,
         crossed' = crossed,
         ui.panel \in OwnRows /\ ~crossed /\ Saving(s) => ui'.shown = told'
  PROVE  OwnInv'
  <1> SUFFICES ASSUME ui.panel \in OwnRows, ~crossed
               PROVE  Here' = {} /\ ui'.shown = told'
    BY DEF OwnInv
  <1>1. Here = {s} /\ Saving(s)
    BY DEF IInv, OwnInv, Here
  <1>2. Here' = {}
    BY <1>1 DEF Here
  <1> QED BY <1>1, <1>2

LEMMA RowReloadInv ==
  ASSUME IInv, NEW s \in saves, Reload(s)
  PROVE  IInv'
  <1>1. /\ s.here /\ s.at = "read" /\ saves' = saves \ {s}
        /\ ui' = [ui EXCEPT !.shown = s.reply, !.busy = Nobody] /\ told' = s.reply
        /\ UNCHANGED <<server, count, begun, moves, owed, entered, crossed>>
    BY DEF Reload
  <1>2. ui \in UiStates /\ s.reply \in Table
    BY <1>1 DEF IInv, TypeOK, SavesInv, Sound
  <1>3. /\ ui' \in UiStates /\ ui'.panel = ui.panel /\ ui'.drafts = ui.drafts
        /\ ui'.editing = ui.editing /\ ui'.shown = told'
    BY <1>1, <1>2 DEF UiStates
  <1>4. TypeOK'
    BY <1>1, <1>2, <1>3 DEF IInv, TypeOK
  <1>5. SavesInv' /\ SentInv' /\ SinceInv' /\ DraftInv' /\ OwedInv'
    BY <1>1, <1>3, SaveEnds, OwedKept DEF IInv, DraftInv
  <1>6. OwnInv'
    BY <1>1, <1>3, HereEnds
  <1> QED BY <1>4, <1>5, <1>6 DEF IInv

LEMMA ReloadFailsInv ==
  ASSUME IInv, NEW s \in saves, ReloadFails(s)
  PROVE  IInv'
  <1> DEFINE merged == [told EXCEPT ![s.row] = Merge(@, s.patch)]
  <1>1. /\ s.here /\ saves' = saves \ {s}
        /\ ui' = [ui EXCEPT !.busy = Nobody] /\ told' = merged
        /\ UNCHANGED <<server, count, begun, moves, owed, entered, crossed>>
    BY DEF ReloadFails
  <1>2. ui \in UiStates /\ ui.shown \in Table /\ told \in Table /\ s.row \in Rows /\ s.patch \in Draft
    BY UiFields, SaveFields DEF IInv, TypeOK
  <1>3. merged \in Table
    <2>1. Merge(told[s.row], s.patch) \in Row
      BY <1>2, MergedRow DEF Table
    <2> QED BY <1>2, <2>1 DEF Table
  <1>4. Saving(s) => ui.shown = merged
    BY <1>2 DEF Saving, Table
  <1> HIDE DEF merged
  <1>5. /\ ui' \in UiStates /\ ui'.panel = ui.panel /\ ui'.drafts = ui.drafts
        /\ ui'.editing = ui.editing /\ ui'.shown = ui.shown
    BY <1>1, <1>2 DEF UiStates
  <1>6. TypeOK'
    BY <1>1, <1>3, <1>5 DEF IInv, TypeOK
  <1>7. SavesInv' /\ SentInv' /\ SinceInv' /\ DraftInv' /\ OwedInv'
    BY <1>1, <1>5, SaveEnds, OwedKept DEF IInv, DraftInv
  <1>8. OwnInv'
    BY <1>1, <1>4, <1>5, HereEnds
  <1> QED BY <1>6, <1>7, <1>8 DEF IInv

LEMMA FailInv ==
  ASSUME IInv, NEW s \in saves, Fail(s)
  PROVE  IInv'
  <1>1. /\ saves' = saves \ {s} /\ ui' = IF s.here THEN Failed(ui, s) ELSE ui
        /\ UNCHANGED <<server, count, begun, moves, owed, entered, told, crossed>>
    BY DEF Fail
  <1>2. ui \in UiStates /\ s.before \in Table
    BY SaveFields DEF IInv, TypeOK
  <1>3. /\ ui' \in UiStates /\ ui'.panel = ui.panel /\ ui'.drafts = ui.drafts
        /\ ui'.editing = ui.editing
        /\ ~s.here => ui' = ui
        /\ s.here /\ ui.panel \in OwnRows => ui'.shown = s.before
    BY <1>1, <1>2 DEF Failed, UiStates
  <1>4. TypeOK'
    BY <1>1, <1>3 DEF IInv, TypeOK
  <1>5. SavesInv' /\ SentInv' /\ SinceInv' /\ DraftInv' /\ OwedInv'
    BY <1>1, <1>3, SaveEnds, OwedKept DEF IInv, DraftInv
  <1>6. OwnInv'
    <2>1. CASE s.here
      <3>1. ui.panel \in OwnRows /\ Saving(s) => ui'.shown = told'
        BY <1>1, <1>3, <2>1 DEF Saving
      <3> QED BY <1>1, <1>3, <2>1, <3>1, HereEnds
    <2>2. CASE ~s.here
      <3>1. Here' = Here
        BY <1>1, <2>2 DEF Here
      <3> QED BY <1>1, <1>3, <2>2, <3>1 DEF IInv, OwnInv, Saving
    <2> QED BY <2>1, <2>2
  <1> QED BY <1>4, <1>5, <1>6 DEF IInv

-----------------------------------------------------------------------------
LEMMA NextInv == IInv /\ [Next]_vars => IInv'
  <1> SUFFICES ASSUME IInv, [Next]_vars PROVE IInv'
    OBVIOUS
  <1>1. CASE UNCHANGED vars
    BY <1>1 DEF vars, IInv, TypeOK, SavesInv, DraftInv, OwedInv, SentInv, SinceInv, OwnInv,
       Saving, Here, Standing
  <1>2. ASSUME NEW p \in Panels, Enter(p) PROVE IInv'
    BY <1>2, EnterInv
  <1>3. CASE Load \/ Refresh \/ Cancel \/ OpenCreate
    BY <1>3, LoadInv, RefreshInv, CancelInv, OpenCreateInv
  <1>4. ASSUME NEW r \in Rows, Begin(r) \/ Save(r) \/ Pick(r) PROVE IInv'
    BY <1>4, BeginInv, SaveStep, PickInv
  <1>5. ASSUME NEW r \in Rows, NEW f \in Fields, Type(r, f) \/ Other(r, f) PROVE IInv'
    BY <1>5, TypeInv, OtherInv
  <1>6. ASSUME NEW s \in saves, Write(s) \/ Land(s) \/ LandLeft(s) \/ Fail(s) PROVE IInv'
    BY <1>6, WriteInv, RowLandInv, LeftInv, FailInv
  <1>7. ASSUME NEW s \in saves, Close(s) \/ Read(s) \/ Reload(s) \/ ReloadFails(s) PROVE IInv'
    BY <1>7, CloseInv, ReadInv, RowReloadInv, ReloadFailsInv
  <1> QED BY <1>1, <1>2, <1>3, <1>4, <1>5, <1>6, <1>7 DEF Next

\* In every reachable state the parts of the invariant hold: what a save sends, what
\* is in a draft, which saves can drop it, and how far a local table is from what the
\* server last said.
THEOREM Invariance == Spec => []IInv
  BY InitInv, NextInv, PTL DEF Spec

\* Panel, rows, drafts and saves keep their form (TypeOK).
THEOREM TypeCorrect == Spec => []TypeOK
  <1>1. IInv => TypeOK
    BY DEF IInv
  <1> QED BY <1>1, Invariance, PTL

-----------------------------------------------------------------------------
(* Typed values *)

\* A success ends a value only if it has sent it or was clicked before it was typed.
LEMMA SuccessDrops ==
  ASSUME IInv, NEW s \in Here, NEW e \in owed \ owed', Succeeded(s), ui'.panel = ui.panel,
         ui'.drafts = Closed(ui, s).drafts, ui'.editing = Closed(ui, s).editing
  PROVE  Saved(e, s) \/ Overtaken(e, s)
  <1> SUFFICES ASSUME ~Saved(e, s) PROVE Overtaken(e, s)
    OBVIOUS
  <1>1. Standing(ui, e) /\ ~Standing(ui', e) /\ e[1] \in Rows
    BY Entry DEF Succeeded, IInv, OwedInv
  <1>2. s \in SaveStates /\ s.row \in Rows /\ ui.drafts \in [Rows -> Draft]
    BY UiFields, SaveFields DEF IInv, TypeOK, Here
  <1>3. /\ ui'.editing = IF ui.panel \in WithEditor THEN Nobody ELSE ui.editing
        /\ ui'.drafts = CASE ui.panel \in {"daily", "people"} -> NoDrafts
                          [] ui.panel \in Lists    -> [ui.drafts EXCEPT ![s.row] = NoDraft]
                          [] OTHER                 -> ui.drafts
    BY <1>2, ClosedUi
  <1>4. ui.panel \in WithEditor /\ (ui.panel \in OneDraft \/ s.row = e[1])
    <2>1. CASE ui.panel \in OneDraft
      BY <2>1 DEF WithEditor
    <2>2. CASE ui.panel \in Lists
      <3>1. ui'.drafts = [ui.drafts EXCEPT ![s.row] = NoDraft] /\ ui.panel \notin OneDraft
        BY <1>3, <2>2 DEF OneDraft, OwnRows, Lists
      <3>2. s.row = e[1]
        BY <1>1, <1>2, <3>1 DEF Standing
      <3> QED BY <2>2, <3>2 DEF WithEditor
    <2>3. CASE ui.panel \notin OneDraft \cup Lists
      <3>1. ui'.drafts = ui.drafts
        BY <1>3, <2>3 DEF OneDraft, OwnRows
      <3> QED BY <1>1, <2>3, <3>1 DEF Standing
    <2> QED BY <2>1, <2>2, <2>3
  <1> QED BY <1>4 DEF IInv, SentInv, Overtaken

LEMMA DropStep == IInv /\ [Next]_vars => [Dropped]_vars
  <1> SUFFICES ASSUME IInv, Next, NEW e \in owed \ owed'
               PROVE  \/ GivesUp \/ TypedOver(e)
                      \/ \E s \in Here : (Land(s) \/ Close(s)) /\ (Saved(e, s) \/ Overtaken(e, s))
    BY DEF Dropped
  <1>1. owed' # owed
    OBVIOUS
  <1>2. ASSUME NEW p \in Panels, Enter(p) PROVE GivesUp
    BY <1>2 DEF GivesUp
  <1>3. CASE Load \/ Refresh \/ Cancel \/ OpenCreate
    BY <1>1, <1>3 DEF GivesUp, Load, Refresh
  <1>4. ASSUME NEW r \in Rows, Begin(r) \/ Save(r) \/ Pick(r) PROVE GivesUp
    BY <1>1, <1>4 DEF GivesUp, Save, Pick
  <1>5. ASSUME NEW r \in Rows, NEW f \in Fields, Type(r, f) \/ Other(r, f) PROVE TypedOver(e)
    <2>1. Type(r, f)
      BY <1>1, <1>5 DEF Other
    <2>2. owed' = {d \in owed : ~(d[1] = r /\ d[2] = f)} \cup {<<r, f, Fresh>>}
      BY <2>1 DEF Type
    <2>3. e[1] = r /\ e[2] = f /\ <<r, f, Fresh>> \in owed'
      BY <2>2
    <2> QED BY <2>3 DEF TypedOver
  <1>6. ASSUME NEW s \in saves, \/ Write(s) \/ LandLeft(s) \/ Fail(s)
                                \/ Read(s) \/ Reload(s) \/ ReloadFails(s)
        PROVE  FALSE
    BY <1>1, <1>6 DEF Write, LandLeft, Fail, Read, Reload, ReloadFails
  <1>7. ASSUME NEW s \in saves, Land(s) \/ Close(s)
        PROVE  s \in Here /\ (Saved(e, s) \/ Overtaken(e, s))
    <2>1. s \in Here /\ Succeeded(s) /\ s \in SaveStates
      BY <1>7 DEF Land, Close, Here, IInv, TypeOK
    <2> DEFINE u == Closed(ui, s)
    <2>2. u \in UiStates /\ u.panel = ui.panel
      BY <2>1, ClosedUi
    <2>3. ui'.panel = u.panel /\ ui'.drafts = u.drafts /\ ui'.editing = u.editing
      <3>1. CASE Close(s)
        BY <3>1 DEF Close
      <3>2. CASE Land(s)
        <4>1. ui' = [Answer(u, s) EXCEPT !.busy = Nobody]
          BY <3>2 DEF Land
        <4> HIDE DEF u
        <4>2. /\ Answer(u, s) \in [panel: {u.panel}, loaded: {u.loaded}, shown: {Answer(u, s).shown},
                                   editing: {u.editing}, drafts: {u.drafts}, busy: {u.busy}]
          BY <2>2 DEF Answer, UiStates
        <4> QED BY <4>1, <4>2
      <3> QED BY <1>7, <3>1, <3>2
    <2> QED BY <2>1, <2>2, <2>3, SuccessDrops
  <1> QED BY <1>2, <1>3, <1>4, <1>5, <1>6, <1>7 DEF Next

\* Whatever was typed stays in its draft, for any rows, edits and saves that overlap,
\* fail or answer late, until its user types over it or gives it up, or a save succeeds
\* that has sent it or that was clicked before it was typed.
THEOREM DraftsAreKept == Spec => EditsKept
  <1>1. IInv => Kept
    BY DEF IInv, OwedInv, Kept
  <1> QED BY <1>1, InitInv, NextInv, DropStep, PTL DEF Spec, EditsKept

\* No save carries a field that its user has not typed, but those of Resent.
THEOREM OthersAreKept == Spec => []OthersKept
  <1>1. IInv => OthersKept
    BY DEF IInv, SavesInv, Sound, OthersKept
  <1> QED BY <1>1, Invariance, PTL

\* With nothing on its way and no saves that crossed, a table that a panel keeps for
\* itself, optimistic rows and rollbacks included, is what the server last said.
THEOREM TablesAreTold == Spec => []TableIsTold
  <1>1. IInv => TableIsTold
    BY DEF IInv, OwnInv, TableIsTold
  <1> QED BY <1>1, Invariance, PTL

-----------------------------------------------------------------------------
(* WorkspaceSync: the inductive invariant *)

\* The one reply that is taken unseen, of a turn or a brief, is the current actor's:
\* while it is awaited the actor cannot be switched, and there is no second one.
TurnInv == /\ \A r \in requests : r.kind \in Sync!Composed => tab.sending /\ r.actor = tab.actor
           /\ \A r, q \in requests : r.kind \in Sync!Composed /\ q.kind \in Sync!Composed => r = q

CopyInv == tab.copy # None => tab.copy.actor = tab.actor

SyncInv == Sync!TypeOK /\ TurnInv /\ CopyInv

-----------------------------------------------------------------------------
\* The fields of the tab and of a request.
LEMMA TabFields ==
  ASSUME NEW t \in Sync!Tabs
  PROVE  /\ t.actor \in Actors /\ t.loading \in BOOLEAN /\ t.copy \in Sync!Copies \cup {None}
         /\ t.view \in Sync!Views /\ t.sending \in BOOLEAN
  BY DEF Sync!Tabs

LEMMA RequestFields ==
  ASSUME NEW kind \in Sync!Kinds, NEW actor \in Actors
  PROVE  LET r == Sync!Request(kind, actor) IN
         r \in Sync!Requests /\ r.kind = kind /\ r.actor = actor /\ r.reply = Sync!Waiting
  BY DEF Sync!Request, Sync!Requests, Sync!Replies, Sync!Waiting

\* Setting up the polls again disowns those that are out and leaves the rest.
LEMMA OrphanedTurns ==
  ASSUME NEW S \in SUBSET Sync!Requests
  PROVE  /\ Sync!Orphaned(S) \subseteq Sync!Requests
         /\ \A r \in Sync!Orphaned(S) : r.kind \in Sync!Composed => r \in S
  <1> SUFFICES ASSUME NEW r \in Sync!Orphaned(S)
               PROVE  r \in Sync!Requests /\ (r.kind \in Sync!Composed => r \in S)
    OBVIOUS
  <1>1. PICK q \in S : r = IF q.kind = "poll" THEN [q EXCEPT !.own = FALSE] ELSE q
    BY DEF Sync!Orphaned
  <1>2. CASE q.kind = "poll"
    <2>1. r = [q EXCEPT !.own = FALSE] /\ q \in Sync!Requests
      BY <1>1, <1>2
    <2>2. r \in Sync!Requests /\ r.kind = "poll"
      BY <1>2, <2>1 DEF Sync!Requests
    <2> QED BY <2>2 DEF Sync!Composed
  <1>3. CASE q.kind # "poll"
    BY <1>1, <1>3
  <1> QED BY <1>2, <1>3

LEMMA ActiveJobs ==
  ASSUME NEW copy
  PROVE  Sync!Active(copy) \subseteq Jobs
  BY DEF Sync!Active

\* A render puts the new tab on the screen; the turn that is awaited, if any, is
\* one of the requests that were out.
LEMMA RenderInv ==
  ASSUME NEW t \in Sync!Tabs, NEW out \in SUBSET Sync!Requests,
         NEW polling \in [key: SUBSET Jobs, running: BOOLEAN],
         Sync!Render(t, out, polling), jobs' \in Sync!JobStates, tabMoves' \in 0 .. MaxTabMoves,
         \A r \in out : r.kind \in Sync!Composed => t.sending /\ r.actor = t.actor,
         \A r, q \in out : r.kind \in Sync!Composed /\ q.kind \in Sync!Composed => r = q,
         t.copy # None => t.copy.actor = t.actor
  PROVE  SyncInv'
  <1>1. /\ tab' = t /\ (requests' = out \/ requests' = Sync!Orphaned(out))
        /\ poll' = [key |-> Sync!Active(t.copy), running |-> FALSE] \/ poll' = polling
    BY DEF Sync!Render
  <1>2. /\ requests' \subseteq Sync!Requests /\ \A r \in requests' : r.kind \in Sync!Composed => r \in out
    BY <1>1, OrphanedTurns
  <1>3. poll' \in [key: SUBSET Jobs, running: BOOLEAN]
    <2>1. [key |-> Sync!Active(t.copy), running |-> FALSE] \in [key: SUBSET Jobs, running: BOOLEAN]
      BY ActiveJobs
    <2> QED BY <1>1, <2>1
  <1>4. Sync!TypeOK'
    BY <1>1, <1>2, <1>3 DEF Sync!TypeOK
  <1>5. TurnInv'
    BY <1>1, <1>2 DEF TurnInv
  <1>6. CopyInv'
    BY <1>1 DEF CopyInv
  <1> QED BY <1>4, <1>5, <1>6 DEF SyncInv

\* A page load.
LEMMA FreshTab ==
  ASSUME Sync!SyncConstants
  PROVE  /\ Sync!Fresh \in Sync!Tabs /\ Sync!Fresh.copy = None /\ Sync!Fresh.actor = Pmo
         /\ Sync!Idle \in [key: SUBSET Jobs, running: BOOLEAN]
         /\ Sync!Request("boot", Pmo) \in Sync!Requests /\ Sync!Request("boot", Pmo).kind = "boot"
  BY RequestFields DEF Sync!SyncConstants, Sync!Fresh, Sync!Tabs, Sync!Views, Sync!Idle,
       Sync!Kinds, Sync!Composed

LEMMA SyncInitInv ==
  ASSUME Sync!SyncConstants, Sync!Init
  PROVE  SyncInv
  <1>1. /\ tab = Sync!Fresh /\ poll = Sync!Idle /\ requests = {Sync!Request("boot", Pmo)}
        /\ tabMoves = 0
        /\ jobs \in Sync!JobStates
    BY DEF Sync!Init, Sync!JobStates
  <1>2. Sync!TypeOK
    BY <1>1, FreshTab DEF Sync!TypeOK, Sync!SyncConstants
  <1>3. TurnInv /\ CopyInv
    BY <1>1, FreshTab DEF TurnInv, CopyInv, Sync!Composed
  <1> QED BY <1>2, <1>3 DEF SyncInv

-----------------------------------------------------------------------------
(* The steps *)

LEMMA EmptiedTab ==
  ASSUME NEW t \in Sync!Tabs
  PROVE  /\ Sync!Emptied(t) \in Sync!Tabs /\ Sync!Emptied(t).copy = None
         /\ Sync!Emptied(t).actor = t.actor
         /\ Sync!Emptied(t).sending = t.sending
  BY DEF Sync!Emptied, Sync!Tabs

LEMMA SwitchInv ==
  ASSUME Sync!SyncConstants, SyncInv, NEW a \in Actors, Sync!SwitchActor(a)
  PROVE  SyncInv'
  <1> DEFINE e == Sync!Emptied(tab)
             u == [e EXCEPT !.actor = a]
             t == [u EXCEPT !.view = "chat"]
             out == requests \cup {Sync!Request("boot", a)}
  <1>1. tab \in Sync!Tabs /\ requests \subseteq Sync!Requests /\ jobs \in Sync!JobStates
        /\ tabMoves \in 0 .. MaxTabMoves
        /\ poll \in [key: SUBSET Jobs, running: BOOLEAN]
    BY DEF SyncInv, Sync!TypeOK
  <1>2. /\ Sync!Render(t, out, poll) /\ tab.sending = FALSE
        /\ tabMoves < MaxTabMoves /\ tabMoves' = tabMoves + 1 /\ jobs' = jobs
    BY <1>1, TabFields DEF Sync!SwitchActor, Sync!SwitchAllowed
  <1>3. e \in Sync!Tabs /\ e.copy = None
    BY <1>1, EmptiedTab
  <1> HIDE DEF e
  <1>4. u \in Sync!Tabs /\ u.copy = None /\ u.actor = a
    BY <1>3 DEF Sync!Tabs
  <1> HIDE DEF u
  <1>5. t \in Sync!Tabs /\ t.copy = None
    BY <1>4 DEF Sync!Tabs, Sync!Views
  <1> HIDE DEF t
  <1>6. /\ out \in SUBSET Sync!Requests
        /\ \A r \in out : r.kind \notin Sync!Composed
    BY <1>1, <1>2, RequestFields DEF SyncInv, TurnInv, Sync!Kinds, Sync!Composed
  <1>7. tabMoves' \in 0 .. MaxTabMoves
    BY <1>1, <1>2 DEF Sync!SyncConstants
  <1> HIDE DEF out
  <1> QED BY <1>1, <1>2, <1>5, <1>6, <1>7, RenderInv

LEMMA RetryInv ==
  ASSUME SyncInv, Sync!Retry
  PROVE  SyncInv'
  <1> DEFINE t == Sync!Emptied(tab)
             out == requests \cup {Sync!Request("boot", tab.actor)}
  <1>1. tab \in Sync!Tabs /\ requests \subseteq Sync!Requests /\ jobs \in Sync!JobStates
        /\ tabMoves \in 0 .. MaxTabMoves
        /\ poll \in [key: SUBSET Jobs, running: BOOLEAN] /\ tab.actor \in Actors
    BY TabFields DEF SyncInv, Sync!TypeOK
  <1>2. Sync!Render(t, out, poll) /\ jobs' = jobs /\ tabMoves' = tabMoves
    BY DEF Sync!Retry
  <1>3. t \in Sync!Tabs /\ t.copy = None /\ t.actor = tab.actor /\ t.sending = tab.sending
    BY <1>1, EmptiedTab
  <1>4. /\ out \in SUBSET Sync!Requests
        /\ \A r \in out : r.kind \in Sync!Composed => r \in requests
    BY <1>1, RequestFields DEF Sync!Kinds, Sync!Composed
  <1>5. /\ \A r \in out : r.kind \in Sync!Composed => t.sending /\ r.actor = t.actor
        /\ \A r, q \in out : r.kind \in Sync!Composed /\ q.kind \in Sync!Composed => r = q
    BY <1>3, <1>4 DEF SyncInv, TurnInv
  <1> HIDE DEF t, out
  <1> QED BY <1>1, <1>2, <1>3, <1>4, <1>5, RenderInv

LEMMA ReloadInv ==
  ASSUME Sync!SyncConstants, SyncInv, Sync!Reload
  PROVE  SyncInv'
  <1>1. /\ tab' = Sync!Fresh /\ poll' = Sync!Idle /\ requests' = {Sync!Request("boot", Pmo)}
        /\ jobs' = jobs
        /\ tabMoves < MaxTabMoves /\ tabMoves' = tabMoves + 1
    BY DEF Sync!Reload
  <1>2. Sync!TypeOK'
    BY <1>1, FreshTab DEF SyncInv, Sync!TypeOK, Sync!SyncConstants
  <1>3. TurnInv' /\ CopyInv'
    BY <1>1, FreshTab DEF TurnInv, CopyInv, Sync!Composed
  <1> QED BY <1>2, <1>3 DEF SyncInv

LEMMA ChangeViewInv ==
  ASSUME SyncInv, NEW v \in Sync!Views, Sync!ChangeView(v)
  PROVE  SyncInv'
  <1>1. tab' = [tab EXCEPT !.view = v] /\ tab \in Sync!Tabs
        /\ UNCHANGED <<poll, requests, jobs, tabMoves>>
    BY DEF Sync!ChangeView, SyncInv, Sync!TypeOK
  <1>2. /\ tab' \in Sync!Tabs /\ tab'.copy = tab.copy /\ tab'.actor = tab.actor
        /\ tab'.sending = tab.sending
    BY <1>1 DEF Sync!Tabs
  <1> QED BY <1>1, <1>2 DEF SyncInv, Sync!TypeOK, TurnInv, CopyInv

LEMMA SendInv ==
  ASSUME SyncInv, NEW kind \in Sync!Kinds, Sync!Send(kind),
         kind \in Sync!Composed => ~tab.sending
  PROVE  SyncInv'
  <1> DEFINE new == Sync!Request(kind, tab.actor)
             sends == tab.sending \/ kind \in Sync!Composed
  <1>1. /\ tab \in Sync!Tabs /\ tab.actor \in Actors /\ tab.sending \in BOOLEAN
        /\ requests \subseteq Sync!Requests
    BY TabFields DEF SyncInv, Sync!TypeOK
  <1>2. new \in Sync!Requests /\ new.kind = kind /\ new.actor = tab.actor
    BY <1>1, RequestFields DEF Sync!Kinds, Sync!Composed
  <1>3. /\ requests' = requests \cup {new} /\ tab' = [tab EXCEPT !.sending = sends]
        /\ UNCHANGED <<poll, jobs, tabMoves>>
    BY DEF Sync!Send
  <1>4. sends \in BOOLEAN
    OBVIOUS
  <1>5. (tab.sending => sends) /\ (kind \in Sync!Composed => sends)
    OBVIOUS
  <1> HIDE DEF new, sends
  <1>6. /\ tab' \in Sync!Tabs /\ tab'.copy = tab.copy /\ tab'.actor = tab.actor
        /\ tab'.sending = sends
    BY <1>1, <1>3, <1>4 DEF Sync!Tabs
  <1>7. Sync!TypeOK' /\ CopyInv'
    BY <1>1, <1>2, <1>3, <1>6 DEF SyncInv, Sync!TypeOK, CopyInv
  <1>8. TurnInv'
    BY <1>2, <1>3, <1>5, <1>6 DEF SyncInv, TurnInv
  <1> QED BY <1>7, <1>8 DEF SyncInv

\* What the user and the panels ask for.
LEMMA AskInv ==
  ASSUME SyncInv, Sync!SavePanel \/ Sync!StartTurn \/ Sync!GenerateBrief \/ Sync!RefreshAfterSave
  PROVE  SyncInv'
  <1>1. {"panel", "refresh", "turn", "brief"} \subseteq Sync!Kinds
    BY DEF Sync!Kinds, Sync!Composed
  <1>2. CASE Sync!SavePanel
    BY <1>1, <1>2, SendInv DEF Sync!SavePanel, Sync!Composed
  <1>3. CASE Sync!StartTurn
    BY <1>1, <1>3, SendInv DEF Sync!StartTurn
  <1>4. CASE Sync!GenerateBrief
    BY <1>1, <1>4, SendInv DEF Sync!GenerateBrief
  <1>5. CASE Sync!RefreshAfterSave
    BY <1>1, <1>5, SendInv DEF Sync!RefreshAfterSave, Sync!Composed
  <1> QED BY <1>2, <1>3, <1>4, <1>5

LEMMA RetryJobInv ==
  ASSUME Sync!SyncConstants, SyncInv, NEW j \in Jobs, Sync!RetryJob(j)
  PROVE  SyncInv'
  <1>1. /\ jobs' = [jobs EXCEPT ![j] = "active"] /\ UNCHANGED <<tab, poll, requests>>
        /\ tabMoves < MaxTabMoves /\ tabMoves' = tabMoves + 1
    BY DEF Sync!RetryJob
  <1>2. jobs' \in Sync!JobStates /\ tabMoves' \in 0 .. MaxTabMoves
    BY <1>1 DEF SyncInv, Sync!TypeOK, Sync!JobStates, Sync!SyncConstants
  <1> QED BY <1>1, <1>2 DEF SyncInv, Sync!TypeOK, TurnInv, CopyInv

LEMMA TickInv ==
  ASSUME SyncInv, Sync!Tick
  PROVE  SyncInv'
  <1>1. tab.actor \in Actors /\ poll \in [key: SUBSET Jobs, running: BOOLEAN]
    BY TabFields DEF SyncInv, Sync!TypeOK
  <1>2. /\ Sync!Request("poll", tab.actor) \in Sync!Requests
        /\ Sync!Request("poll", tab.actor).kind = "poll"
    BY <1>1, RequestFields DEF Sync!Kinds, Sync!Composed
  <1>3. /\ requests' = requests \cup {Sync!Request("poll", tab.actor)}
        /\ poll' = [poll EXCEPT !.running = TRUE] /\ UNCHANGED <<tab, jobs, tabMoves>>
    BY DEF Sync!Tick
  <1>4. poll' \in [key: SUBSET Jobs, running: BOOLEAN]
    BY <1>1, <1>3
  <1> QED BY <1>2, <1>3, <1>4 DEF SyncInv, Sync!TypeOK, TurnInv, CopyInv, Sync!Composed

LEMMA AnswerInv ==
  ASSUME SyncInv, NEW r \in requests, NEW reply \in Sync!Replies, Sync!Answer(r, reply)
  PROVE  SyncInv'
  <1> DEFINE s == [r EXCEPT !.reply = reply]
  <1>1. /\ requests' = (requests \ {r}) \cup {s} /\ UNCHANGED <<tab, poll, jobs, tabMoves>>
        /\ r \in Sync!Requests
    BY DEF Sync!Answer, SyncInv, Sync!TypeOK
  <1>2. s \in Sync!Requests /\ s.kind = r.kind /\ s.actor = r.actor
    BY <1>1 DEF Sync!Requests
  <1> HIDE DEF s
  <1> QED BY <1>1, <1>2 DEF SyncInv, Sync!TypeOK, TurnInv, CopyInv

LEMMA ServeInv ==
  ASSUME SyncInv, NEW r \in requests, Sync!Serve(r) \/ Sync!ServeLacking(r)
  PROVE  SyncInv'
  <1>1. jobs \in Sync!Replies /\ Sync!Lacking \in Sync!Replies
    BY DEF SyncInv, Sync!TypeOK, Sync!Replies
  <1> QED BY <1>1, AnswerInv DEF Sync!Serve, Sync!ServeLacking

\* What is over after a reply: the tab stays the actor's.
LEMMA OverTab ==
  ASSUME NEW t \in Sync!Tabs, NEW r
  PROVE  /\ Sync!Over(t, r) \in Sync!Tabs /\ Sync!Over(t, r).copy = t.copy
         /\ Sync!Over(t, r).actor = t.actor
         /\ (r.kind \notin Sync!Composed => Sync!Over(t, r).sending = t.sending)
  <1> DEFINE loads == t.loading /\ r.kind # "boot"
             sends == t.sending /\ r.kind \notin Sync!Composed
             u == [t EXCEPT !.loading = loads]
  <1>1. loads \in BOOLEAN /\ sends \in BOOLEAN /\ t.sending \in BOOLEAN
    BY TabFields
  <1>2. r.kind \notin Sync!Composed => sends = t.sending
    BY <1>1
  <1> HIDE DEF loads
  <1>3. /\ u \in Sync!Tabs /\ u.copy = t.copy /\ u.actor = t.actor
    BY <1>1 DEF Sync!Tabs
  <1>4. Sync!Over(t, r) = [u EXCEPT !.sending = sends]
    BY DEF Sync!Over, loads
  <1> HIDE DEF u, sends
  <1>5. /\ Sync!Over(t, r) \in Sync!Tabs /\ Sync!Over(t, r).copy = u.copy
        /\ Sync!Over(t, r).actor = u.actor
        /\ Sync!Over(t, r).sending = sends
    BY <1>1, <1>3, <1>4 DEF Sync!Tabs
  <1> QED BY <1>2, <1>3, <1>5

LEMMA PolledType ==
  ASSUME Sync!TypeOK, NEW r
  PROVE  Sync!Polled(r) \in [key: SUBSET Jobs, running: BOOLEAN]
  BY DEF Sync!Polled, Sync!TypeOK

\* The turns that stay when a reply has been handled.
LEMMA TurnsLeft ==
  ASSUME SyncInv, NEW r \in requests, NEW t \in Sync!Tabs, t.actor = tab.actor,
         r.kind \notin Sync!Composed => t.sending = tab.sending
  PROVE  /\ \A q \in requests \ {r} : q.kind \in Sync!Composed => t.sending /\ q.actor = t.actor
         /\ \A p, q \in requests \ {r} : p.kind \in Sync!Composed /\ q.kind \in Sync!Composed => p = q
  BY DEF SyncInv, TurnInv

LEMMA LandInv ==
  ASSUME SyncInv, NEW r \in requests, Sync!Land(r)
  PROVE  SyncInv'
  <1> DEFINE copy == [actor |-> r.actor, jobs |-> r.reply]
             over == Sync!Over(tab, r)
             seen == [over EXCEPT !.copy = copy]
             view == IF r.kind = "brief" THEN "chat" ELSE over.view
             with == [seen EXCEPT !.view = view]
             t == IF Sync!Accepts(r) THEN with ELSE over
  <1>1. tab \in Sync!Tabs /\ requests \subseteq Sync!Requests /\ jobs \in Sync!JobStates
        /\ tabMoves \in 0 .. MaxTabMoves
        /\ r \in Sync!Requests /\ Sync!TypeOK
    BY DEF SyncInv, Sync!TypeOK
  <1>2. /\ r.reply \in Sync!JobStates /\ Sync!Render(t, requests \ {r}, Sync!Polled(r))
        /\ jobs' = jobs /\ tabMoves' = tabMoves
    <2>1. Sync!Shown(over, r) = [over EXCEPT !.copy = copy, !.view = view]
      BY DEF Sync!Shown
    <2> QED BY <2>1 DEF Sync!Land, Sync!Whole
  <1>3. /\ over \in Sync!Tabs /\ over.copy = tab.copy /\ over.actor = tab.actor
        /\ (r.kind \notin Sync!Composed => over.sending = tab.sending)
    BY <1>1, OverTab
  <1>4. copy \in Sync!Copies /\ copy.actor = r.actor
    BY <1>1, <1>2 DEF Sync!Requests, Sync!Copies
  <1> HIDE DEF over, copy
  <1>5. /\ with \in Sync!Tabs /\ with.copy = copy /\ with.actor = over.actor
        /\ with.sending = over.sending
    <2>1. view \in Sync!Views
      BY <1>3 DEF Sync!Tabs, Sync!Views
    <2> HIDE DEF view
    <2>2. /\ seen \in Sync!Tabs /\ seen.copy = copy /\ seen.actor = over.actor
          /\ seen.sending = over.sending
      BY <1>3, <1>4 DEF Sync!Tabs
    <2> HIDE DEF seen
    <2> QED BY <2>1, <2>2 DEF Sync!Tabs
  <1> HIDE DEF with
  <1>6. Sync!Accepts(r) => r.actor = tab.actor
    BY DEF Sync!Accepts, SyncInv, TurnInv
  <1>7. /\ t \in Sync!Tabs /\ t.actor = tab.actor /\ (r.kind \notin Sync!Composed => t.sending = tab.sending)
    BY <1>3, <1>5
  <1>8. t.copy # None => t.copy.actor = t.actor
    BY <1>3, <1>4, <1>5, <1>6 DEF SyncInv, CopyInv
  <1> HIDE DEF t
  <1>9. /\ \A q \in requests \ {r} : q.kind \in Sync!Composed => t.sending /\ q.actor = t.actor
        /\ \A p, q \in requests \ {r} : p.kind \in Sync!Composed /\ q.kind \in Sync!Composed => p = q
    BY <1>7, TurnsLeft
  <1>10. Sync!Polled(r) \in [key: SUBSET Jobs, running: BOOLEAN]
         /\ requests \ {r} \in SUBSET Sync!Requests
    BY <1>1, PolledType
  <1> QED BY <1>1, <1>2, <1>7, <1>8, <1>9, <1>10, RenderInv

LEMMA SyncFailInv ==
  ASSUME SyncInv, NEW r \in requests, Sync!Fail(r)
  PROVE  SyncInv'
  <1> DEFINE t == Sync!Over(tab, r)
  <1>1. tab \in Sync!Tabs /\ requests \subseteq Sync!Requests /\ jobs \in Sync!JobStates
        /\ tabMoves \in 0 .. MaxTabMoves
        /\ Sync!TypeOK
    BY DEF SyncInv, Sync!TypeOK
  <1>2. Sync!Render(t, requests \ {r}, Sync!Polled(r)) /\ jobs' = jobs /\ tabMoves' = tabMoves
    BY DEF Sync!Fail
  <1>3. /\ t \in Sync!Tabs /\ t.copy = tab.copy /\ t.actor = tab.actor
        /\ (r.kind \notin Sync!Composed => t.sending = tab.sending)
    BY <1>1, OverTab
  <1> HIDE DEF t
  <1>4. /\ \A q \in requests \ {r} : q.kind \in Sync!Composed => t.sending /\ q.actor = t.actor
        /\ \A p, q \in requests \ {r} : p.kind \in Sync!Composed /\ q.kind \in Sync!Composed => p = q
    BY <1>3, TurnsLeft
  <1>5. t.copy # None => t.copy.actor = t.actor
    BY <1>3 DEF SyncInv, CopyInv
  <1>6. Sync!Polled(r) \in [key: SUBSET Jobs, running: BOOLEAN]
        /\ requests \ {r} \in SUBSET Sync!Requests
    BY <1>1, PolledType
  <1> QED BY <1>1, <1>2, <1>3, <1>4, <1>5, <1>6, RenderInv

LEMMA JobStepInv ==
  ASSUME SyncInv, NEW j \in Jobs, Sync!JobStep(j)
  PROVE  SyncInv'
  <1>1. jobs' \in Sync!JobStates /\ UNCHANGED <<tab, poll, requests, tabMoves>>
    BY DEF Sync!JobStep, Sync!JobStates, SyncInv, Sync!TypeOK
  <1> QED BY <1>1 DEF SyncInv, Sync!TypeOK, TurnInv, CopyInv

LEMMA SyncNextInv ==
  ASSUME Sync!SyncConstants, SyncInv, [Sync!Next]_Sync!vars
  PROVE  SyncInv'
  <1>1. CASE Sync!Next
    BY <1>1, JobStepInv, SwitchInv, RetryInv, ReloadInv, TickInv, ChangeViewInv, AskInv, RetryJobInv,
       ServeInv, LandInv, SyncFailInv DEF Sync!Next
  <1>2. CASE UNCHANGED Sync!vars
    BY <1>2 DEF Sync!vars, SyncInv, Sync!TypeOK, TurnInv, CopyInv
  <1> QED BY <1>1, <1>2

-----------------------------------------------------------------------------
\* The inductive invariant holds, for any actors and any number of late replies.
THEOREM SyncInvariance == Sync!SyncConstants => (Sync!Spec => []SyncInv)
  <1> SUFFICES ASSUME Sync!SyncConstants PROVE Sync!Spec => []SyncInv
    OBVIOUS
  <1>1. Sync!Init => SyncInv
    BY SyncInitInv
  <1>2. SyncInv /\ [Sync!Next]_Sync!vars => SyncInv'
    BY SyncNextInv
  <1> QED BY <1>1, <1>2, PTL DEF Sync!Spec

\* Tab, polls and requests keep their form.
THEOREM SyncTypeCorrect == Sync!SyncConstants => (Sync!Spec => []Sync!TypeOK)
  <1> SUFFICES ASSUME Sync!SyncConstants PROVE Sync!Spec => []Sync!TypeOK
    OBVIOUS
  <1>1. SyncInv => Sync!TypeOK
    BY DEF SyncInv
  <1> QED BY <1>1, SyncInvariance, PTL

\* No late reply puts another actor's workspace on the screen, and no panel is shown
\* to an actor who has no capability for it.
THEOREM OwnWorkspaceShown == Sync!SyncConstants => (Sync!Spec => []OwnWorkspace)
  <1> SUFFICES ASSUME Sync!SyncConstants PROVE Sync!Spec => []OwnWorkspace
    OBVIOUS
  <1>1. SyncInv => OwnWorkspace
    <2> SUFFICES ASSUME SyncInv, tab.copy # None
                 PROVE  tab.copy.actor = tab.actor
                        /\ (EffectiveView = "review" => tab.actor \in Reviewers)
      BY DEF OwnWorkspace
    <2>1. tab.copy.actor = tab.actor
      BY DEF SyncInv, CopyInv
    <2>2. EffectiveView = "review" => tab.copy.actor \in Reviewers
      BY DEF EffectiveView, Granted
    <2> QED BY <2>1, <2>2
  <1> QED BY <1>1, SyncInvariance, PTL
=============================================================================
