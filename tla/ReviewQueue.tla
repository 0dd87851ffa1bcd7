---------------------------- MODULE ReviewQueue ----------------------------
(***************************************************************************)
(* The queue of candidates that wait for a human decision.                  *)
(*                                                                         *)
(*   panels/ReviewQueue.tsx, panels/useAsyncAction.ts    the cards          *)
(*   backend/main.py, store/sqlite_store.py              the decisions      *)
(*                                                                         *)
(* The panel renders the cards of the last workspace one below the other.   *)
(* The list gives its items no key, so React identifies a card's state by   *)
(* its place: what was typed stays in the place when the card in it goes.   *)
(* The cards of the last inspection's gaps come first, as often as it lists  *)
(* them, then those of its other lists, then the other candidates by their   *)
(* last update.  A text is named by the candidate it was written for and a   *)
(* number.                                                                   *)
(***************************************************************************)
EXTENDS Naturals, Sequences, FiniteSets

CONSTANTS Cards,
          TaskCards,           \* candidates of a task category
          Reports,             \* what an inspection may list
          None,                \* no note of the reviewer's own, no task
          MaxTyped,            \* bound: texts entered, here and elsewhere
          MaxClicks, MaxOthers \* bounds: decisions clicked, changes by others

ASSUME ReviewConstants == /\ TaskCards \subseteq Cards /\ IsFiniteSet(Cards)
                          /\ {MaxTyped, MaxClicks, MaxOthers} \subseteq Nat
                          /\ Reports \subseteq [gaps: Seq(Cards), lists: Seq(Cards)]

VARIABLES cand, order, \* the candidates of the store, and the oldest update first
          report,      \* the lists of the latest inspection
          task,        \* the text of the task published from a candidate
          queue,       \* the cards on the screen
          places,      \* the state of the ReviewItem in each place
          requests,    \* runs of the card's actions that have not ended
          typed, clicks, others, \* what the bounds count
          misled       \* history: cards that got words out of a place that moved

vars == <<cand, order, report, task, queue, places, requests, typed, clicks, others, misled>>
store == <<cand, order, report, task>>

Ops      == {"confirm", "reject", "publish", "archive", "edit"}
Texts    == Cards \X (0 .. MaxTyped)
Notes    == Texts \cup {None}
Statuses == {"unfiled", "candidate", "confirmed", "rejected", "archived"}
Candidates == [status: Statuses, text: Texts, note: Notes]
Shown    == [card: Cards, text: Texts]

\* loading: the actions whose button is loading.  moved: history, what has been
\* typed in this place for a card that is no longer in it.
PlaceStates == [editing: BOOLEAN, draft: Texts, note: Notes, loading: SUBSET Ops,
                moved: SUBSET {"draft", "note"}]

\* words: the draft or note of the click.  here: the place that sent it is mounted.
\* alone: history, nobody else has written the candidate since the click.
Requests == [op: Ops, card: Cards, words: Notes, place: Nat, here: BOOLEAN,
             at: {"sent", "checked", "written", "answered"},
             reply: Seq(Shown), alone: BOOLEAN]

\* The candidates by updated_at, then by id.
Ranks  == 1 .. Cardinality(Cards)
Orders == {o \in [Ranks -> Cards] : \A c \in Cards : \E i \in Ranks : o[i] = c}

Mounted(shown) == [editing |-> FALSE, draft |-> shown.text, note |-> None,
                   loading |-> {}, moved |-> {}]

\* _build_confirmation_cards: three lists, one read after the other.  The gaps are
\* shown though the store has not got them, the rest once and while pending.
Pending(candidates) == {c \in Cards : candidates[c].status = "candidate"}
Unfiled(candidates) == {c \in Cards : candidates[c].status = "unfiled"}
Gaps == 1 .. Len(report.gaps)
Reading(ranks) == report.gaps \o report.lists \o ranks
Seen(reading, i) == \E j \in 1 .. i - 1 : reading[j] = reading[i]
Entries(candidates, ranks) ==
    LET reading == Reading(ranks) IN
    {i \in 1 .. Len(reading) :
       \/ i \in Gaps /\ reading[i] \in Pending(candidates) \cup Unfiled(candidates)
       \/ i \notin Gaps /\ reading[i] \in Pending(candidates) /\ ~Seen(reading, i)}

Before(S, i) == {j \in S : j < i}
Nth(S, k) == CHOOSE i \in S : Cardinality(Before(S, i)) = k - 1
Listed(candidates, ranks) ==
    LET entries == Entries(candidates, ranks) IN
    [k \in 1 .. Cardinality(entries) |->
       LET c == Reading(ranks)[Nth(entries, k)] IN [card |-> c, text |-> candidates[c].text]]
List == Listed(cand, order)

Init == /\ cand \in [Cards -> {[status |-> s, text |-> t, note |-> None] :
                                 s \in {"unfiled", "candidate"}, t \in Cards \X {0}}]
        /\ \A c \in Cards : cand[c].text = <<c, 0>>
        /\ order \in Orders /\ report \in Reports
        /\ \A i, j \in Ranks : \* what is not filed has not been updated
             i < j /\ order[i] \in Unfiled(cand) => order[j] \in Unfiled(cand)
        /\ task = [c \in Cards |-> None]
        /\ queue = List
        /\ places = [i \in DOMAIN List |-> Mounted(List[i])]
        /\ requests = {}
        /\ typed = 0 /\ clicks = 0 /\ others = 0
        /\ misled = {}

-----------------------------------------------------------------------------
(* The store *)

\* updated_at of the candidate that is written.
Latest(c) == LET old == CHOOSE i \in Ranks : order[i] = c IN
             [i \in Ranks |-> IF i < old THEN order[i]
                             ELSE IF i < Cardinality(Cards) THEN order[i + 1] ELSE c]

\* Every write of candidate c, seen by the edits of it that are on their way.
Disturbed(S, c) == {IF q.card = c THEN [q EXCEPT !.alone = FALSE] ELSE q : q \in S}

\* No decision looks at the status the candidate has by then, except a deletion.
Decided(c, status, note) == [cand EXCEPT ![c].status = status, ![c].note = note]
Verdict == [confirm |-> "confirmed", reject |-> "rejected"]

\* An ingestion files another candidate.
File(c) == /\ cand[c].status = "unfiled"
           /\ others < MaxOthers /\ others' = others + 1
           /\ cand' = [cand EXCEPT ![c].status = "candidate"]
           /\ order' = Latest(c)
           /\ UNCHANGED <<report, task, queue, places, requests, typed, clicks, misled>>

\* Another inspection ends.  One that fails leaves a report that nobody has filed.
Inspected(lists) ==
    /\ others < MaxOthers /\ others' = others + 1
    /\ report # lists /\ report' = lists
    /\ UNCHANGED <<cand, order, task, queue, places, requests, typed, clicks, misled>>

\* Another reviewer decides or edits a candidate.
Other(c) ==
    /\ others < MaxOthers /\ others' = others + 1
    /\ cand[c].status = "candidate"
    /\ \/ \E s \in {"confirmed", "rejected", "archived"} :
            cand' = Decided(c, s, None) /\ UNCHANGED <<task, typed>>
       \/ /\ typed < MaxTyped /\ typed' = typed + 1
          /\ cand' = [cand EXCEPT ![c].text = <<c, typed + 1>>]
          /\ UNCHANGED task
       \/ /\ task' = [task EXCEPT ![c] = cand[c].text]
          /\ cand' = Decided(c, "confirmed", None)
          /\ UNCHANGED typed
    /\ order' = Latest(c)
    /\ requests' = Disturbed(requests, c)
    /\ UNCHANGED <<report, queue, places, clicks, misled>>

-----------------------------------------------------------------------------
(* What the reviewer does *)

\* React keeps the state of a place whose card changes.
Unsaved(p) == (IF p.editing THEN {"draft"} ELSE {}) \cup (IF p.note = None THEN {} ELSE {"note"})
Rendered(S, list) ==
    [i \in DOMAIN list |->
       IF i \notin DOMAIN queue THEN Mounted(list[i])
       ELSE IF list[i].card = queue[i].card THEN S[i]
       ELSE [S[i] EXCEPT !.moved = @ \cup Unsaved(S[i])]]
StillHere(S, list) == {[q EXCEPT !.here = @ /\ q.place \in DOMAIN list] : q \in S}

\* A poll or the result of a turn.
Refresh == /\ queue' = List /\ queue' # queue
           /\ places' = Rendered(places, queue')
           /\ requests' = StillHere(requests, queue')
           /\ UNCHANGED <<store, typed, clicks, others, misled>>

\* Another view and back.
Reopen == /\ places # [i \in DOMAIN queue |-> Mounted(queue[i])]
          /\ places' = [i \in DOMAIN queue |-> Mounted(queue[i])]
          /\ requests' = {[q EXCEPT !.here = FALSE] : q \in requests}
          /\ UNCHANGED <<store, queue, typed, clicks, others, misled>>

\* The editor is a modal dialog over the whole page.
Modal == \E i \in DOMAIN places : places[i].editing
Touchable(i) == Modal => places[i].editing
IsTask(i) == queue[i].card \in TaskCards

\* setDraft(taskDraftFromCard(card)); leaving it out shows the draft of the mount.
OpenedAsLeft(i) == [places[i] EXCEPT !.editing = TRUE, !.moved = @ \ {"draft"}]
Opened(i) == [places[i] EXCEPT !.editing = TRUE, !.draft = queue[i].text,
                               !.moved = @ \ {"draft"}]
OpenEditor(i) == /\ IsTask(i) /\ ~Modal
                 /\ places' = [places EXCEPT ![i] = Opened(i)]
                 /\ UNCHANGED <<store, queue, requests, typed, clicks, others, misled>>

CloseEditor(i) == /\ places[i].editing
                  /\ places' = [places EXCEPT ![i].editing = FALSE, ![i].moved = @ \ {"draft"}]
                  /\ UNCHANGED <<store, queue, requests, typed, clicks, others, misled>>

\* What is typed over a draft that moved is still the other card's in its other fields.
TypeDraft(i) == /\ places[i].editing /\ typed < MaxTyped /\ typed' = typed + 1
                /\ places' = [places EXCEPT ![i].draft = <<@[1], typed + 1>>]
                /\ UNCHANGED <<store, queue, requests, clicks, others, misled>>

TypeNote(i) == /\ ~IsTask(i) /\ ~Modal /\ typed < MaxTyped /\ typed' = typed + 1
               /\ places' = [places EXCEPT ![i].note = <<queue[i].card, typed + 1>>,
                                           ![i].moved = @ \ {"note"}]
               /\ UNCHANGED <<store, queue, requests, clicks, others, misled>>

\* The buttons: confirm and reject share one pending key.
Offered(i) == IF places[i].editing THEN {"edit"}
              ELSE IF IsTask(i) THEN {"publish", "archive"} ELSE {"confirm", "reject"}
Deciding(op) == IF op \in {"confirm", "reject"} THEN {"confirm", "reject"} ELSE {op}
WordsOf(op) == CASE op = "edit" -> "draft" [] op \in {"confirm", "reject"} -> "note" [] OTHER -> ""

Click(i, op) ==
    LET p == places[i] IN
    /\ Touchable(i) /\ op \in Offered(i) \ p.loading
    /\ clicks < MaxClicks /\ clicks' = clicks + 1
    /\ places' = [places EXCEPT ![i].loading = (@ \ Deciding(op)) \cup {op}]
    /\ requests' = requests \cup
         {[op |-> op, card |-> queue[i].card, place |-> i, here |-> TRUE, at |-> "sent",
           words |-> CASE op = "edit" -> p.draft [] op \in {"confirm", "reject"} -> p.note
                       [] OTHER -> None,
           reply |-> << >>, alone |-> TRUE]}
    /\ misled' = IF WordsOf(op) \in p.moved THEN misled \cup {queue[i].card} ELSE misled
    /\ UNCHANGED <<store, queue, typed, others>>

-----------------------------------------------------------------------------
(* What becomes of a click *)

Moved(r, at) == Disturbed(requests \ {r}, r.card) \cup {[r EXCEPT !.at = at]}
Answered(r, list) == Disturbed(requests \ {r}, r.card) \cup
                       {[r EXCEPT !.at = "answered", !.reply = list]}

\* get_item: a card of a report that was not filed cannot be decided.
Known(r) == r.card \notin Unfiled(cand)

\* confirm_item, reject_item, and the edit that precedes a publication.
Write(r) ==
    /\ r.at = "sent" /\ r.op \in {"confirm", "reject", "edit"} /\ Known(r)
    /\ cand' = IF r.op = "edit" THEN [cand EXCEPT ![r.card].text = r.words, ![r.card].note = None]
                                ELSE Decided(r.card, Verdict[r.op], r.words)
    /\ order' = Latest(r.card)
    /\ requests' = Moved(r, "written")
    /\ UNCHANGED <<report, task, queue, places, typed, clicks, others, misled>>

\* onRefresh after confirm or reject.
Load(r) == /\ r.at = "written" /\ r.op \in {"confirm", "reject"}
           /\ requests' = (requests \ {r}) \cup {[r EXCEPT !.at = "answered", !.reply = List]}
           /\ UNCHANGED <<store, queue, places, typed, clicks, others, misled>>

\* publish_item_as_work_item; an edit is awaited before its publication is asked for.
PublishableAtOnce(r) == r.op \in {"publish", "edit"} /\ r.at = "sent"
Publishable(r) == \/ r.op = "publish" /\ r.at = "sent"
                  \/ r.op = "edit" /\ r.at = "written"
Publish(r) ==
    LET decided == Decided(r.card, "confirmed", None) IN
    /\ Publishable(r) /\ Known(r)
    /\ task' = [task EXCEPT ![r.card] = cand[r.card].text]
    /\ cand' = decided /\ order' = Latest(r.card)
    /\ requests' = Answered(r, Listed(decided, Latest(r.card)))
    /\ UNCHANGED <<report, queue, places, typed, clicks, others, misled>>

\* archive_task_candidate asks for the status first and writes in another transaction.
Ask(r) == /\ r.op = "archive" /\ r.at = "sent" /\ cand[r.card].status = "candidate"
          /\ requests' = (requests \ {r}) \cup {[r EXCEPT !.at = "checked"]}
          /\ UNCHANGED <<store, queue, places, typed, clicks, others, misled>>

Archive(r) ==
    LET decided == Decided(r.card, "archived", None) IN
    /\ r.at = "checked"
    /\ cand' = decided /\ order' = Latest(r.card)
    /\ requests' = Answered(r, Listed(decided, Latest(r.card)))
    /\ UNCHANGED <<report, task, queue, places, typed, clicks, others, misled>>

\* The finally of useAsyncAction; an edit that succeeded closes its editor.
Ended(S, r, closes) ==
    IF ~r.here THEN S
    ELSE [S EXCEPT ![r.place].loading = @ \ Deciding(r.op),
                   ![r.place].editing = @ /\ ~closes,
                   ![r.place].moved = IF closes THEN @ \ {"draft"} ELSE @]

\* A reply that comes late brings an older queue.
Land(r) == LET ended == Ended(places, r, r.op = "edit") IN
           /\ r.at = "answered"
           /\ queue' = r.reply
           /\ places' = Rendered(ended, r.reply)
           /\ requests' = StillHere(requests \ {r}, r.reply)
           /\ UNCHANGED <<store, typed, clicks, others, misled>>

\* Refused or lost at any point: what was written stays written.
Fail(r) == /\ places' = Ended(places, r, FALSE)
           /\ requests' = requests \ {r}
           /\ UNCHANGED <<store, queue, typed, clicks, others, misled>>

-----------------------------------------------------------------------------
Next == \/ \E c \in Cards : File(c) \/ Other(c)
        \/ \E lists \in Reports : Inspected(lists)
        \/ Refresh \/ Reopen
        \/ \E i \in DOMAIN queue : \/ OpenEditor(i) \/ CloseEditor(i)
                                   \/ TypeDraft(i) \/ TypeNote(i)
                                   \/ \E op \in Ops : Click(i, op)
        \/ \E r \in requests : \/ Write(r) \/ Load(r) \/ Publish(r) \/ Ask(r)
                               \/ Archive(r) \/ Land(r) \/ Fail(r)

Spec == Init /\ [][Next]_vars

-----------------------------------------------------------------------------
\* Every variable keeps its form and stays within its bounds.
TypeOK == /\ cand \in [Cards -> Candidates] /\ task \in [Cards -> Notes]
          /\ order \in Orders /\ report \in Reports
          /\ queue \in Seq(Shown) /\ places \in [DOMAIN queue -> PlaceStates]
          /\ requests \subseteq Requests
          /\ typed \in 0 .. MaxTyped /\ clicks \in 0 .. MaxClicks /\ others \in 0 .. MaxOthers
          /\ misled \subseteq Cards

\* The text and the note of a candidate and of its task were written for that
\* candidate, unless the reviewer decided in a place whose card had been replaced
\* under the words typed there.
OwnWords == /\ TypeOK
            /\ \A c \in Cards \ misled :
                 /\ cand[c].text[1] = c
                 /\ cand[c].note = None \/ cand[c].note[1] = c
                 /\ task[c] = None \/ task[c][1] = c

\* A task that is reported as edited and published has the edited text, unless
\* somebody else wrote the candidate in between.
PublishedAsEdited == \A r \in requests : r.op = "edit" /\ r.at = "answered" /\ r.alone
                                           => task[r.card] = r.words
=============================================================================
