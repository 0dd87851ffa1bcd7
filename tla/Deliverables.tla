---------------------------- MODULE Deliverables ----------------------------
(***************************************************************************)
(* One deliverable: project management edits its row while members submit  *)
(* versions of it, each a row of its own and files in a directory of its   *)
(* own.  Deliverables share nothing, so one is enough.                     *)
(*                                                                         *)
(*   agent/deliverables.py    DeliverableService                           *)
(*   store/sqlite_store.py    deliverables, deliverable_versions, _files   *)
(*   backend/main.py          the endpoints, served by concurrent threads  *)
(*                                                                         *)
(* One SQLite transaction, one read outside of a transaction and one write *)
(* to the file system are one step each.  A scope stands for the tags of a *)
(* row (organization, project, topic, sensitivity).  Versions are numbered *)
(* by their position, since their rows are never deleted.                  *)
(***************************************************************************)
EXTENDS Integers, Sequences

CONSTANTS Submitters,  \* threads that serve a submission
          Editors,     \* threads that serve an edit of the row
          Scopes,      \* what the tags of a row can be
          Shared,      \* the scopes that members who submit can see
          Patched,     \* the statuses that edits ask for
          MaxFiles,    \* files of one version
          Sizes,       \* how many files a submission has
          MaxVersions, \* bound: versions ever reserved
          MaxEdits,    \* bound: edits begun
          MaxExits     \* bound: process exits

DELIVERABLE_STATUSES == {"expected", "draft", "submitted", "accepted", "rejected", "archived"}

ASSUME DeliverableConstants ==
    /\ Shared \subseteq Scopes
    /\ Shared # {}
    /\ Patched \subseteq DELIVERABLE_STATUSES
    /\ MaxFiles \in Nat \ {0} /\ Sizes \subseteq 1 .. MaxFiles
    /\ MaxVersions \in Nat
    /\ MaxEdits \in Nat
    /\ MaxExits \in Nat

VARIABLES deliverable, \* its row
          versions,    \* rows of deliverable_versions, with those of their files
          disk,        \* <<version, position, author of the bytes>> of every file
          cut,         \* <<version, position>> of files left by a write that broke off
          sub,         \* locals of each submit_version
          edit,        \* locals of each update_requirement
          edits,       \* edits begun
          announced,   \* events of kind deliverable_updated
          exits,
          stale,       \* history: an edit was written over a row it had not read
          torn,        \* history: an edit misjudged whether it changes the scope
          lost         \* history: versions whose handler never came to its end

files   == <<disk, cut>>
table   == <<deliverable, versions, files>>
editing == <<edit, edits, announced, stale, torn>>
vars    == <<table, sub, editing, exits, lost>>

Status  == {"staging", "submitted", "failed"}
Row     == [status : DELIVERABLE_STATUSES, current : 0 .. MaxVersions, scope : Scopes]
Version == [status : Status, by : Submitters, scope : Scopes, files : 0 .. MaxFiles]

Submission == [at : {"idle", "reserve", "write", "answer", "clean", "unlink"},
               version : 0 .. MaxVersions,
               files : 0 .. MaxFiles, new : 0 .. MaxFiles, gone : 0 .. MaxFiles]
Edit == [at : {"idle", "look", "save", "announce"}, seen : Row, row : Row, scope : Scopes]

\* create_requirement.
NewRow(scope) == [status |-> "expected", current |-> 0, scope |-> scope]

\* Of files, the first new are newly_written and the first gone of them unlinked.
Begun(n) == [at |-> "reserve", version |-> 0, files |-> n, new |-> 0, gone |-> 0]
NoSub  == [at |-> "idle", version |-> 0, files |-> 0, new |-> 0, gone |-> 0]
NoEdit == LET r == NewRow(CHOOSE s \in Scopes : TRUE)
          IN  [at |-> "idle", seen |-> r, row |-> r, scope |-> r.scope]

Init == /\ \E s \in Scopes : deliverable = NewRow(s)
        /\ versions = << >>
        /\ disk = {} /\ cut = {}
        /\ sub = [s \in Submitters |-> NoSub]
        /\ edit = [e \in Editors |-> NoEdit]
        /\ edits = 0 /\ announced = 0 /\ exits = 0
        /\ stale = FALSE /\ torn = FALSE
        /\ lost = {}

FilesOf(v) == {f \in disk : f[1] = v}
CutOf(v)   == {f \in cut : f[1] = v}

\* _require_deliverable_submission_access.
Accepts == deliverable.status # "archived" /\ deliverable.scope \in Shared

-----------------------------------------------------------------------------
\* submit_version.

Goto(s, from, to) == sub[s].at = from /\ sub' = [sub EXCEPT ![s].at = to]
Leave(s)          == sub' = [sub EXCEPT ![s] = NoSub]

\* The checks before a version is reserved; a submission that fails them ends here.
Submit(s) ==
    /\ sub[s].at = "idle"
    /\ Accepts
    /\ Len(versions) < MaxVersions
    /\ \E n \in Sizes : sub' = [sub EXCEPT ![s] = Begun(n)]
    /\ UNCHANGED <<table, editing, exits, lost>>

NewVersion(s) == [status |-> "staging", by |-> s, scope |-> deliverable.scope, files |-> 0]

\* reserve_deliverable_version_record: max(version) + 1 in the same transaction.
Reserve(s) ==
    /\ sub[s].at = "reserve"
    /\ Accepts
    /\ Len(versions) < MaxVersions
    /\ versions' = Append(versions, NewVersion(s))
    /\ sub' = [sub EXCEPT ![s].at = "write", ![s].version = Len(versions) + 1]
    /\ UNCHANGED <<deliverable, files, editing, exits, lost>>

\* The reserved row cannot be read back: the handler ends before its try.
ReserveLost(s) ==
    /\ sub[s].at = "reserve"
    /\ Accepts
    /\ Len(versions) < MaxVersions
    /\ versions' = Append(versions, NewVersion(s))
    /\ lost' = lost \cup {Len(versions) + 1}
    /\ Leave(s)
    /\ UNCHANGED <<deliverable, files, editing, exits>>

\* Refused, or the bound on versions is reached.
ReserveRefused(s) ==
    /\ sub[s].at = "reserve"
    /\ ~Accepts \/ Len(versions) = MaxVersions
    /\ Leave(s)
    /\ UNCHANGED <<table, editing, exits, lost>>

\* One file after the other.
WriteFile(s) ==
    /\ sub[s].at = "write" /\ sub[s].new < sub[s].files
    /\ disk' = disk \cup {<<sub[s].version, sub[s].new + 1, s>>}
    /\ sub' = [sub EXCEPT ![s].new = @ + 1]
    /\ UNCHANGED <<deliverable, versions, cut, editing, exits, lost>>

\* The file that is written next.
Target(s) == <<sub[s].version, sub[s].new + 1>>

\* A write raises: before it made the file, or after, and then the file stays, cut
\* at any length, for only a write that returned is added to newly_written.
WriteFails(s) ==
    /\ sub[s].new < sub[s].files
    /\ cut' \in {cut, cut \cup {Target(s)}}
    /\ Goto(s, "write", "clean")
    /\ UNCHANGED <<deliverable, versions, disk, editing, exits, lost>>

Written(s) == sub[s].at = "write" /\ sub[s].new = sub[s].files

Larger(m, n) == IF m > n THEN m ELSE n

Submitted(version, scope, n) ==
    [version EXCEPT !.status = "submitted", !.scope = scope, !.files = n]

\* The transaction of complete_deliverable_version_record.
Completed(s, current) ==
    LET v == sub[s].version
    IN  /\ versions' = [versions EXCEPT ![v] =
                            Submitted(@, deliverable.scope, sub[s].files)]
        /\ deliverable' = [deliverable EXCEPT !.status = "submitted", !.current = current]
        /\ sub' = [sub EXCEPT ![s].at = "answer"]
        /\ UNCHANGED <<files, editing, exits, lost>>

\* Mutant: the current version is the one that was completed last.
CompleteLatest(s) ==
    /\ Written(s) /\ versions[sub[s].version].status = "staging" /\ Accepts
    /\ Completed(s, sub[s].version)

\* Mutant: the access found when the version was reserved is trusted.
CompleteUnchecked(s) ==
    /\ Written(s) /\ versions[sub[s].version].status = "staging"
    /\ Completed(s, Larger(deliverable.current, sub[s].version))

\* complete_deliverable_version_record.
Complete(s) ==
    /\ Written(s) /\ versions[sub[s].version].status = "staging" /\ Accepts
    /\ Completed(s, Larger(deliverable.current, sub[s].version))

\* It raises and is rolled back: refused, or its event cannot be inserted.
CompleteFails(s) ==
    /\ Written(s)
    /\ Goto(s, "write", "clean")
    /\ UNCHANGED <<table, editing, exits, lost>>

Answer(s) == /\ sub[s].at = "answer"
             /\ Leave(s)
             /\ UNCHANGED <<table, editing, exits, lost>>

\* It raises after the commit: the completed row cannot be read back.
AnswerLost(s) == /\ Goto(s, "answer", "clean")
                 /\ UNCHANGED <<table, editing, exits, lost>>

\* Mutant: every exception means that nothing was committed.
CleanAnyway(s) == /\ Goto(s, "clean", "unlink")
                  /\ UNCHANGED <<table, editing, exits, lost>>

\* except: the status is read; a submitted version is left alone.
Clean(s) ==
    /\ \/ /\ Goto(s, "clean", "unlink")
          /\ versions[sub[s].version].status # "submitted"
       \/ /\ sub[s].at = "clean"
          /\ versions[sub[s].version].status = "submitted"
          /\ Leave(s)
    /\ UNCHANGED <<table, editing, exits, lost>>

\* The files of newly_written, one after the other.
Unlink(s) ==
    /\ sub[s].at = "unlink" /\ sub[s].gone < sub[s].new
    /\ disk' = disk \ {<<sub[s].version, sub[s].gone + 1, s>>}
    /\ sub' = [sub EXCEPT ![s].gone = @ + 1]
    /\ UNCHANGED <<deliverable, versions, cut, editing, exits, lost>>

\* Mutant: the handler raises without a word to the store.
FailUnrecorded(s) ==
    /\ sub[s].at = "unlink" /\ sub[s].gone = sub[s].new
    /\ Leave(s)
    /\ UNCHANGED <<table, editing, exits, lost>>

\* fail_deliverable_version_record.
Fail(s) ==
    /\ sub[s].at = "unlink" /\ sub[s].gone = sub[s].new
    /\ versions' = [versions EXCEPT ![sub[s].version].status =
                                        IF @ = "staging" THEN "failed" ELSE @]
    /\ Leave(s)
    /\ UNCHANGED <<deliverable, files, editing, exits, lost>>

\* The cleaning itself raises.
Abandon(s) ==
    /\ sub[s].at \in {"clean", "unlink"}
    /\ lost' = lost \cup {sub[s].version}
    /\ Leave(s)
    /\ UNCHANGED <<table, editing, exits>>

-----------------------------------------------------------------------------
\* update_requirement.

Patch(row, status, scope) == [row EXCEPT !.status = status, !.scope = scope]

\* The row is read and patched; every field of it will be written.
Read(e) ==
    /\ edit[e].at = "idle"
    /\ edits < MaxEdits
    /\ edits' = edits + 1
    /\ \E status \in Patched \cup {deliverable.status}, scope \in Scopes :
          edit' = [edit EXCEPT ![e] =
              [at    |-> "look",
               seen  |-> deliverable,
               row   |-> Patch(deliverable, status, scope),
               scope |-> deliverable.scope]]
    /\ UNCHANGED <<table, sub, announced, exits, stale, torn, lost>>

\* save_deliverable_record reads it again ...
Look(e) ==
    /\ edit[e].at = "look"
    /\ edit' = [edit EXCEPT ![e].at = "save", ![e].scope = deliverable.scope]
    /\ UNCHANGED <<table, sub, edits, announced, exits, stale, torn, lost>>

Saved(e) ==
    /\ edit[e].at = "save"
    /\ deliverable' = edit[e].row
    /\ stale' = (stale \/ deliverable # edit[e].seen)
    /\ torn' = (torn \/ deliverable.scope # edit[e].scope)
    /\ edit' = [edit EXCEPT ![e] = [NoEdit EXCEPT !.at = "announce"]]
    /\ UNCHANGED <<files, sub, edits, announced, exits, lost>>

\* Mutant: only what can be listed is given the new scope.
SaveSubmittedOnly(e) ==
    /\ Saved(e)
    /\ versions' = [v \in DOMAIN versions |->
                       IF versions[v].status = "submitted" /\ edit[e].scope # edit[e].row.scope
                       THEN [versions[v] EXCEPT !.scope = edit[e].row.scope]
                       ELSE versions[v]]

\* ... and writes it, with the scope of every version and file if that changes.
Save(e) ==
    /\ Saved(e)
    /\ versions' = [v \in DOMAIN versions |->
                       IF edit[e].scope # edit[e].row.scope
                       THEN [versions[v] EXCEPT !.scope = edit[e].row.scope]
                       ELSE versions[v]]

\* deliverable_updated, in a transaction of its own.
Announce(e) ==
    /\ edit[e].at = "announce"
    /\ announced' = announced + 1
    /\ edit' = [edit EXCEPT ![e] = NoEdit]
    /\ UNCHANGED <<table, sub, edits, exits, stale, torn, lost>>

-----------------------------------------------------------------------------

\* Those a handler may be in the middle of writing.
Underway == {Target(s) : s \in {t \in Submitters :
                 sub[t].at = "write" /\ sub[t].new < sub[t].files}}

\* The process exits: every handler is gone, rows and files are not.
Exit ==
    /\ exits < MaxExits
    /\ exits' = exits + 1
    /\ lost' = lost \cup {sub[s].version : s \in {t \in Submitters :
                                   sub[t].at \in {"write", "clean", "unlink"}}}
    /\ sub' = [s \in Submitters |-> NoSub]
    /\ edit' = [e \in Editors |-> NoEdit]
    /\ \E begun \in SUBSET Underway : cut' = cut \cup begun
    /\ UNCHANGED <<deliverable, versions, disk, edits, announced, stale, torn>>

SubmitterStep(s) ==
    \/ Reserve(s) \/ ReserveLost(s) \/ ReserveRefused(s)
    \/ WriteFile(s) \/ WriteFails(s)
    \/ Complete(s) \/ CompleteFails(s) \/ Answer(s) \/ AnswerLost(s)
    \/ Clean(s) \/ Unlink(s) \/ Fail(s) \/ Abandon(s)

Next == \/ \E s \in Submitters : Submit(s) \/ SubmitterStep(s)
        \/ \E e \in Editors : Read(e) \/ Look(e) \/ Save(e) \/ Announce(e)
        \/ Exit

Spec == Init /\ [][Next]_vars

\* A server thread runs its handler to the end.
FairSpec == Spec /\ \A s \in Submitters : WF_vars(SubmitterStep(s))

-----------------------------------------------------------------------------
\* Properties.

\* Every variable keeps its type, and the current version is one that exists.
TypeOK ==
    /\ deliverable \in Row
    /\ deliverable.current \in 0 .. Len(versions)
    /\ versions \in Seq(Version)
    /\ Len(versions) <= MaxVersions
    /\ disk \subseteq (1 .. MaxVersions) \X (1 .. MaxFiles) \X Submitters
    /\ cut \subseteq (1 .. MaxVersions) \X (1 .. MaxFiles)
    /\ sub \in [Submitters -> Submission]
    /\ edit \in [Editors -> Edit]
    /\ edits \in 0 .. MaxEdits /\ announced \in Nat /\ exits \in 0 .. MaxExits
    /\ stale \in BOOLEAN /\ torn \in BOOLEAN
    /\ lost \subseteq 1 .. MaxVersions

\* A submitted version has exactly the bytes it was submitted with, whoever submits
\* beside it, whatever raises and wherever the process exits.  A failed one leaves no
\* whole file behind, and nothing at all unless it failed in the middle of a write:
\* that one file was not yet known to the except clause of submit_version, which
\* leaves it, and so its directory, where they are.
BytesFollowVersions ==
    \A v \in DOMAIN versions :
        /\ versions[v].status = "submitted" =>
            /\ CutOf(v) = {}
            /\ FilesOf(v) = {<<v, i, versions[v].by>> : i \in 1 .. versions[v].files}
        /\ versions[v].status = "failed" =>
            /\ FilesOf(v) = {}
            /\ \E i \in 1 .. MaxFiles : CutOf(v) \subseteq {<<v, i>>}

\* The deliverable's current version is the newest one submitted (what the list of
\* deliverables shows beside the versions).
CurrentIsNewest ==
    /\ \A v \in DOMAIN versions : versions[v].status = "submitted" => v <= deliverable.current
    /\ deliverable.current # 0 => versions[deliverable.current].status = "submitted"

\* Submissions may complete in any order: only an edit written over a row that changed
\* after it was read can take the current version back (complete..., save...).
OnlyStaleEditsRegress == ~stale => CurrentIsNewest

\* Versions and files carry the scope of their deliverable, also those reserved under
\* another one, unless the scope changed between the read and the write of one save.
ScopeIsCommon ==
    ~torn => \A v \in DOMAIN versions : versions[v].scope = deliverable.scope

\* A deliverable that was archived, or moved out of sight, while files were uploaded
\* takes no version (the second access check, in complete...).
ClosedTakesNoVersion ==
    [][\A v \in DOMAIN versions :
          versions[v].status # "submitted" /\ versions'[v].status = "submitted" => Accepts]_vars

Staging(v) == v \in DOMAIN versions /\ versions[v].status = "staging"

\* A reserved version is submitted or failed in the end, unless its handler was lost
\* to an exit or to a store that no longer answers: nobody else ever settles it.
VersionsSettle ==
    \A v \in 1 .. MaxVersions : Staging(v) ~> (~Staging(v) \/ v \in lost)
=============================================================================
