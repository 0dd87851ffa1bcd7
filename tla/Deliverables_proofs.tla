------------------------ MODULE Deliverables_proofs -------------------------
(***************************************************************************)
(* Theorems of Deliverables, for any submitters, editors, scopes and bounds. *)
(***************************************************************************)
EXTENDS Deliverables, TLAPS

USE DEF files

\* An editor will write the current version it has read, which exists.
EditInv == \A e \in Editors : /\ edit[e].row.current = edit[e].seen.current
                              /\ edit[e].row.current <= Len(versions)

Bytes(v, s, from, to) == {<<v, i, s>> : i \in from .. to}

\* x, as the locals of s, knows whose version it has and which of its files exist.
Holds(s, x) ==
    /\ x.version \in DOMAIN versions
    /\ versions[x.version].by = s
    /\ versions[x.version].status # "failed"
    /\ FilesOf(x.version) = Bytes(x.version, s, x.gone + 1, x.new)
    /\ x.at = "write" => versions[x.version].status = "staging" /\ x.gone = 0
    /\ x.at = "unlink" => versions[x.version].status = "staging"
    /\ x.at = "answer" => versions[x.version].status = "submitted"
    /\ versions[x.version].status = "submitted" =>
           versions[x.version].files = x.new /\ x.gone = 0

Fits(s, x) == /\ x.at = "reserve" => x.new = 0 /\ x.gone = 0
              /\ x.at \notin {"idle", "reserve"} => Holds(s, x)

SubInv == \A s \in Submitters : Fits(s, sub[s])

\* A directory is made for a version that is reserved.
DiskInv == \A f \in disk : f[1] <= Len(versions)

\* The whole files of a version.
WholeInv ==
    \A v \in DOMAIN versions :
        /\ versions[v].status = "submitted" =>
               FilesOf(v) = {<<v, i, versions[v].by>> : i \in 1 .. versions[v].files}
        /\ versions[v].status = "failed" => FilesOf(v) = {}

IInv == TypeOK /\ EditInv /\ SubInv /\ DiskInv /\ WholeInv
        /\ OnlyStaleEditsRegress /\ ScopeIsCommon

-----------------------------------------------------------------------------
\* The tables of versions, as lemmas.

\* Replacing rows by rows keeps the table a table.
LEMMA SameRows ==
  ASSUME NEW vs \in Seq(Version), NEW ws, DOMAIN ws = DOMAIN vs,
         ws = [v \in DOMAIN vs |-> ws[v]],
         \A v \in DOMAIN vs : ws[v] \in Version
  PROVE  ws \in Seq(Version) /\ Len(ws) = Len(vs)
  <1>1. Len(vs) \in Nat /\ DOMAIN vs = 1 .. Len(vs)
    OBVIOUS
  <1>2. ws \in [1 .. Len(vs) -> Version]
    BY <1>1
  <1> QED BY <1>1, <1>2

LEMMA OneRow ==
  ASSUME NEW vs \in Seq(Version), NEW v \in DOMAIN vs, NEW row \in Version
  PROVE  /\ [vs EXCEPT ![v] = row] \in Seq(Version)
         /\ Len([vs EXCEPT ![v] = row]) = Len(vs)
         /\ DOMAIN [vs EXCEPT ![v] = row] = DOMAIN vs
         /\ [vs EXCEPT ![v] = row][v] = row
         /\ \A w \in DOMAIN vs : w # v => [vs EXCEPT ![v] = row][w] = vs[w]
  <1> DEFINE ws == [vs EXCEPT ![v] = row]
  <1>1. \A w \in DOMAIN vs : vs[w] \in Version
    OBVIOUS
  <1>2. /\ DOMAIN ws = DOMAIN vs
        /\ ws = [w \in DOMAIN vs |-> ws[w]]
        /\ ws[v] = row
        /\ \A w \in DOMAIN vs : w # v => ws[w] = vs[w]
    OBVIOUS
  <1>3. \A w \in DOMAIN vs : ws[w] \in Version
    BY <1>1, <1>2
  <1>4. ws \in Seq(Version) /\ Len(ws) = Len(vs)
    <2> HIDE DEF ws
    <2> QED BY <1>2, <1>3, SameRows
  <1> QED BY <1>2, <1>4

LEMMA NewRowOfTable ==
  ASSUME NEW vs \in Seq(Version), NEW row \in Version
  PROVE  /\ Append(vs, row) \in Seq(Version)
         /\ Len(Append(vs, row)) = Len(vs) + 1
         /\ DOMAIN vs = 1 .. Len(vs)
         /\ DOMAIN Append(vs, row) = 1 .. Len(vs) + 1
         /\ Append(vs, row)[Len(vs) + 1] = row
         /\ \A w \in DOMAIN vs : Append(vs, row)[w] = vs[w]
  OBVIOUS

LEMMA VersionTypes ==
  ASSUME TypeOK
  PROVE  /\ versions \in Seq(Version)
         /\ Len(versions) \in Nat
         /\ DOMAIN versions = 1 .. Len(versions)
         /\ MaxVersions \in Nat /\ Len(versions) <= MaxVersions
         /\ \A v \in DOMAIN versions : /\ versions[v] \in Version
                                       /\ v \in 1 .. MaxVersions
                                       /\ versions[v].status \in Status
  <1>1. versions \in Seq(Version) /\ Len(versions) <= MaxVersions /\ MaxVersions \in Nat
    BY DeliverableConstants DEF TypeOK
  <1>2. Len(versions) \in Nat /\ DOMAIN versions = 1 .. Len(versions)
    BY <1>1
  <1>3. \A v \in DOMAIN versions : versions[v] \in Version
    BY <1>1
  <1>4. \A v \in DOMAIN versions : versions[v].status \in Status
    BY <1>3 DEF Version
  <1>5. \A v \in DOMAIN versions : v \in 1 .. MaxVersions
    BY <1>1, <1>2
  <1> QED BY <1>1, <1>2, <1>3, <1>4, <1>5

\* A handler writes to a file of its version.
LEMMA TargetType ==
  ASSUME IInv, NEW s \in Submitters, sub[s].at = "write", sub[s].new < sub[s].files
  PROVE  Target(s) \in (1 .. MaxVersions) \X (1 .. MaxFiles)
  <1>1. sub[s] \in Submission /\ sub[s].version \in DOMAIN versions
    BY DEF IInv, TypeOK, SubInv, Fits, Holds
  <1>2. sub[s].version \in 1 .. MaxVersions
    BY <1>1, VersionTypes DEF IInv
  <1>3. sub[s].new + 1 \in 1 .. MaxFiles
    BY <1>1, DeliverableConstants DEF Submission
  <1> QED BY <1>2, <1>3 DEF Target

-----------------------------------------------------------------------------
\* Steps of a submission that leave the tables alone.

LEMMA LocalStep ==
  ASSUME IInv, NEW s \in Submitters, NEW x \in Submission, Fits(s, x),
         sub' = [sub EXCEPT ![s] = x],
         UNCHANGED <<deliverable, versions, disk, editing, exits>>,
         lost' \subseteq 1 .. MaxVersions,
         cut' \subseteq (1 .. MaxVersions) \X (1 .. MaxFiles)
  PROVE  IInv'
  <1>1. TypeOK'
    BY DEF IInv, TypeOK, table, editing
  <1>2. SubInv'
    <2>1. \A t \in Submitters : Fits(t, sub'[t])
      BY DEF IInv, TypeOK, SubInv
    <2> QED BY <2>1 DEF SubInv, Fits, Holds, FilesOf, table
  <1>3. EditInv' /\ DiskInv' /\ WholeInv'
    BY DEF IInv, EditInv, DiskInv, WholeInv, FilesOf, table, editing
  <1>4. OnlyStaleEditsRegress' /\ ScopeIsCommon'
    BY DEF IInv, OnlyStaleEditsRegress, CurrentIsNewest, ScopeIsCommon, table, editing
  <1> QED BY <1>1, <1>2, <1>3, <1>4 DEF IInv

LEMMA NoSubFits == \A s \in Submitters : NoSub \in Submission /\ Fits(s, NoSub)
  BY DeliverableConstants DEF NoSub, Submission, Fits

LEMMA SubmitStep ==
  ASSUME IInv, NEW s \in Submitters, Submit(s)
  PROVE  IInv'
  <1>1. PICK n \in 1 .. MaxFiles : sub' = [sub EXCEPT ![s] = Begun(n)]
    BY DeliverableConstants DEF Submit
  <1>2. Begun(n) \in Submission /\ Fits(s, Begun(n))
    BY DeliverableConstants DEF Begun, Submission, Fits
  <1>3. UNCHANGED <<deliverable, versions, disk, editing, exits>>
        /\ lost' \subseteq 1 .. MaxVersions /\ cut' \subseteq (1 .. MaxVersions) \X (1 .. MaxFiles)
    BY DEF Submit, IInv, TypeOK, table
  <1> QED BY <1>1, <1>2, <1>3, LocalStep

\* The exits of submit_version.
LEMMA LeaveStep ==
  ASSUME IInv, NEW s \in Submitters,
         \/ ReserveRefused(s) \/ Answer(s) \/ Abandon(s)
         \/ Clean(s) /\ Leave(s)
  PROVE  IInv'
  <1>1. /\ sub' = [sub EXCEPT ![s] = NoSub]
        /\ UNCHANGED <<deliverable, versions, disk, editing, exits>>
        /\ cut' \subseteq (1 .. MaxVersions) \X (1 .. MaxFiles)
    BY DEF ReserveRefused, Answer, Abandon, Clean, Leave, table, IInv, TypeOK
  <1>2. lost' \subseteq 1 .. MaxVersions
    <2>1. sub[s] \in Submission /\ lost \subseteq 1 .. MaxVersions
      BY DEF IInv, TypeOK
    <2>2. CASE UNCHANGED lost
      BY <2>1, <2>2
    <2>3. CASE Abandon(s)
      <3>1. sub[s].version \in DOMAIN versions
        BY <2>3 DEF Abandon, IInv, SubInv, Fits, Holds
      <3>2. sub[s].version \in 1 .. MaxVersions
        BY <3>1, <2>1 DEF IInv, TypeOK, Submission
      <3> QED BY <2>1, <2>3, <3>2 DEF Abandon
    <2> QED BY <2>2, <2>3 DEF ReserveRefused, Answer, Clean
  <1> QED BY <1>1, <1>2, NoSubFits, LocalStep

\* An exception on the way, and the way into the cleaning.
LEMMA RaiseStep ==
  ASSUME IInv, NEW s \in Submitters,
         \/ WriteFails(s) \/ CompleteFails(s) \/ AnswerLost(s)
         \/ /\ Clean(s) /\ Goto(s, "clean", "unlink")
            /\ versions[sub[s].version].status # "submitted"
  PROVE  IInv'
  <1>1. PICK from \in {"write", "answer", "clean"}, to \in {"clean", "unlink"} :
           /\ sub[s].at = from /\ sub' = [sub EXCEPT ![s].at = to]
           /\ to = "unlink" => versions[sub[s].version].status # "submitted"
    BY DEF WriteFails, CompleteFails, AnswerLost, Clean, Goto
  <1> DEFINE x == [sub[s] EXCEPT !.at = to]
  <1>2. sub[s] \in Submission /\ Holds(s, sub[s])
    BY <1>1 DEF IInv, TypeOK, SubInv, Fits
  <1>3. sub' = [sub EXCEPT ![s] = x]
    BY <1>1
  <1>4. /\ x \in Submission /\ x.at = to
        /\ x.version = sub[s].version /\ x.new = sub[s].new /\ x.gone = sub[s].gone
    BY <1>2 DEF Submission
  <1>5. versions[sub[s].version].status \in Status
    <2>1. versions \in Seq(Version) /\ sub[s].version \in DOMAIN versions
      BY <1>2 DEF IInv, TypeOK, Holds
    <2>2. versions[sub[s].version] \in Version
      BY <2>1
    <2> QED BY <2>2 DEF Version
  <1>6. Holds(s, x)
    BY <1>1, <1>2, <1>4, <1>5 DEF Holds, Status
  <1>7. UNCHANGED <<deliverable, versions, disk, editing, exits>>
        /\ lost' \subseteq 1 .. MaxVersions
    BY DEF WriteFails, CompleteFails, AnswerLost, Clean, IInv, TypeOK, table
  <1>8. cut' \subseteq (1 .. MaxVersions) \X (1 .. MaxFiles)
    <2>1. CASE WriteFails(s)
      <3>1. Target(s) \in (1 .. MaxVersions) \X (1 .. MaxFiles)
        BY <2>1, TargetType DEF WriteFails, Goto
      <3> QED BY <2>1, <3>1 DEF WriteFails, IInv, TypeOK
    <2>2. CASE UNCHANGED cut
      BY <2>2 DEF IInv, TypeOK
    <2> QED BY <2>1, <2>2 DEF CompleteFails, AnswerLost, Clean, table
  <1> HIDE DEF x
  <1> QED BY <1>1, <1>3, <1>4, <1>6, <1>7, <1>8, LocalStep DEF Fits

-----------------------------------------------------------------------------
\* Steps of a submission that write to the tables or the disk.

\* A submission is not disturbed by what happens to the versions of others.
LEMMA Undisturbed ==
  ASSUME NEW t \in Submitters, Fits(t, sub[t]), sub'[t] = sub[t],
         \A v \in DOMAIN versions : versions[v].by = t =>
             /\ v \in DOMAIN versions'
             /\ versions'[v].by = t
             /\ versions'[v].status = versions[v].status
             /\ versions'[v].files = versions[v].files
             /\ FilesOf(v)' = FilesOf(v)
  PROVE  Fits(t, sub[t])'
  <1>1. CASE sub[t].at \in {"idle", "reserve"}
    BY <1>1 DEF Fits
  <1>2. CASE sub[t].at \notin {"idle", "reserve"}
    <2>1. Holds(t, sub[t])
      BY <1>2 DEF Fits
    <2> DEFINE v == sub[t].version
    <2>2. /\ v \in DOMAIN versions'
          /\ versions'[v].by = t
          /\ versions'[v].status = versions[v].status
          /\ versions'[v].files = versions[v].files
          /\ FilesOf(v)' = FilesOf(v)
      BY <2>1 DEF Holds
    <2>3. Holds(t, sub[t])'
      BY <2>1, <2>2 DEF Holds, Bytes
    <2> QED BY <1>2, <2>3 DEF Fits
  <1> QED BY <1>1, <1>2

LEMMA AppendStep ==
  ASSUME IInv, NEW s \in Submitters, Len(versions) < MaxVersions,
         versions' = Append(versions, NewVersion(s)),
         UNCHANGED <<deliverable, files, editing, exits>>,
         NEW x \in Submission, sub' = [sub EXCEPT ![s] = x],
         x.at \notin {"idle", "reserve"} =>
             x.at = "write" /\ x.version = Len(versions) + 1 /\ x.new = 0 /\ x.gone = 0,
         x.at = "reserve" => x.new = 0 /\ x.gone = 0,
         lost' \subseteq 1 .. MaxVersions
  PROVE  IInv'
  <1>1. /\ versions \in Seq(Version) /\ Len(versions) \in Nat /\ MaxVersions \in Nat
        /\ DOMAIN versions = 1 .. Len(versions)
    BY VersionTypes DEF IInv
  <1>2. PICK n \in Nat : n = Len(versions) + 1
    BY <1>1
  <1>3. NewVersion(s) \in Version
    BY DeliverableConstants DEF NewVersion, Version, Status, IInv, TypeOK, Row
  <1>4. /\ versions' \in Seq(Version)
        /\ Len(versions') = n
        /\ DOMAIN versions' = 1 .. n
        /\ versions'[n] = NewVersion(s)
        /\ \A v \in DOMAIN versions : versions'[v] = versions[v]
    BY <1>2, <1>1, <1>3, NewRowOfTable
  <1>5. /\ versions'[n].status = "staging" /\ versions'[n].by = s
        /\ versions'[n].scope = deliverable.scope
    BY <1>4 DEF NewVersion
  <1>6. \A v \in DOMAIN versions' : v = n \/ v \in DOMAIN versions
    BY <1>2, <1>1, <1>4
  <1>7. \A v \in DOMAIN versions : v \in DOMAIN versions'
    BY <1>2, <1>1, <1>4
  <1>8. \A v : FilesOf(v)' = FilesOf(v)
    BY DEF FilesOf
  <1>9. FilesOf(n) = {}
    BY <1>2, <1>1 DEF FilesOf, IInv, DiskInv, TypeOK
  <1>10. TypeOK'
    <2>1. deliverable'.current \in 0 .. Len(versions')
      BY <1>2, <1>1, <1>4 DEF IInv, TypeOK
    <2>2. Len(versions') <= MaxVersions
      BY <1>2, <1>1, <1>4
    <2>3. sub' \in [Submitters -> Submission]
      BY DEF IInv, TypeOK
    <2> QED BY <1>4, <2>1, <2>2, <2>3 DEF IInv, TypeOK, editing
  <1>11. SubInv'
    <2>1. ASSUME NEW t \in Submitters, t # s PROVE Fits(t, sub[t])'
      <3>1. sub'[t] = sub[t] /\ Fits(t, sub[t])
        BY <2>1 DEF IInv, TypeOK, SubInv
      <3> QED BY <3>1, <1>4, <1>7, <1>8, Undisturbed
    <2>2. sub'[s] = x
      BY DEF IInv, TypeOK
    <2>3. Fits(s, sub[s])'
      <3>1. CASE x.at \in {"idle", "reserve"}
        BY <2>2, <3>1 DEF Fits
      <3>2. CASE x.at \notin {"idle", "reserve"}
        <4>1. FilesOf(n)' = Bytes(n, s, 1, 0)
          BY <1>8, <1>9 DEF Bytes
        <4>2. n \in DOMAIN versions'
          BY <1>2, <1>1, <1>4
        <4>3. x.version = n /\ x.new = 0 /\ x.gone = 0 /\ x.at = "write"
          BY <1>2, <3>2
        <4>4. Holds(s, sub[s])'
          BY <1>5, <2>2, <4>1, <4>2, <4>3 DEF Holds, Bytes
        <4> QED BY <2>2, <4>3, <4>4 DEF Fits
      <3> QED BY <3>1, <3>2
    <2> QED BY <2>1, <2>3 DEF SubInv
  <1>12. EditInv'
    <2>1. \A e \in Editors : edit[e].row.current \in Nat
      BY DEF IInv, TypeOK, Edit, Row
    <2> QED BY <1>2, <1>1, <1>4, <2>1 DEF IInv, EditInv, editing
  <1>13. DiskInv'
    BY <1>2, <1>1, <1>4 DEF IInv, DiskInv, TypeOK
  <1>14. WholeInv'
    BY <1>4, <1>5, <1>6, <1>8 DEF IInv, WholeInv
  <1>15. OnlyStaleEditsRegress'
    <2>1. deliverable.current # 0 => deliverable.current \in DOMAIN versions
      BY <1>1 DEF IInv, TypeOK
    <2> QED BY <1>4, <1>5, <1>6, <2>1
            DEF IInv, OnlyStaleEditsRegress, CurrentIsNewest, editing
  <1>16. ScopeIsCommon'
    BY <1>4, <1>5, <1>6 DEF IInv, ScopeIsCommon, editing
  <1> QED BY <1>10, <1>11, <1>12, <1>13, <1>14, <1>15, <1>16 DEF IInv

LEMMA ReserveStep ==
  ASSUME IInv, NEW s \in Submitters, Reserve(s) \/ ReserveLost(s)
  PROVE  IInv'
  <1>1. /\ versions' = Append(versions, NewVersion(s)) /\ Len(versions) < MaxVersions
        /\ UNCHANGED <<deliverable, files, editing, exits>>
    BY DEF Reserve, ReserveLost
  <1>2. /\ Len(versions) \in Nat /\ MaxVersions \in Nat
        /\ lost \subseteq 1 .. MaxVersions /\ sub[s] \in Submission
    BY VersionTypes DEF IInv, TypeOK
  <1>3. Len(versions) + 1 \in 1 .. MaxVersions
    BY <1>1, <1>2
  <1>4. CASE Reserve(s)
    <2> DEFINE x == [sub[s] EXCEPT !.at = "write", !.version = Len(versions) + 1]
    <2>1. sub' = [sub EXCEPT ![s] = x]
      BY <1>4 DEF Reserve
    <2> DEFINE y == [sub[s] EXCEPT !.at = "write"]
    <2>2. y \in Submission /\ y.at = "write" /\ y.new = sub[s].new /\ y.gone = sub[s].gone
      BY <1>2 DEF Submission
    <2>3. x = [y EXCEPT !.version = Len(versions) + 1]
      OBVIOUS
    <2>4. Len(versions) + 1 \in 0 .. MaxVersions
      BY <1>2, <1>3
    <2>5. /\ x \in Submission /\ x.at = "write" /\ x.version = Len(versions) + 1
          /\ x.new = sub[s].new /\ x.gone = sub[s].gone
      <3> HIDE DEF x, y
      <3> QED BY <2>2, <2>3, <2>4 DEF Submission
    <2>6. sub[s].new = 0 /\ sub[s].gone = 0
      BY <1>4 DEF IInv, SubInv, Fits, Reserve
    <2>7. lost' \subseteq 1 .. MaxVersions
      BY <1>2, <1>4 DEF Reserve
    <2> HIDE DEF x
    <2> QED BY <1>1, <2>1, <2>5, <2>6, <2>7, AppendStep
  <1>5. CASE ReserveLost(s)
    <2>1. sub' = [sub EXCEPT ![s] = NoSub] /\ NoSub \in Submission /\ NoSub.at = "idle"
      BY <1>5, NoSubFits DEF ReserveLost, Leave, NoSub
    <2>2. lost' \subseteq 1 .. MaxVersions
      BY <1>2, <1>3, <1>5 DEF ReserveLost
    <2> QED BY <1>1, <2>1, <2>2, AppendStep
  <1> QED BY <1>4, <1>5

LEMMA DiskStep ==
  ASSUME IInv, NEW s \in Submitters, NEW v \in DOMAIN versions, v = sub[s].version,
         versions[v].by = s, versions[v].status = "staging",
         UNCHANGED <<deliverable, versions, cut, editing, exits, lost>>,
         disk' \subseteq (1 .. MaxVersions) \X (1 .. MaxFiles) \X Submitters,
         \A f \in disk' : f[1] <= Len(versions),
         \A w : w # v => FilesOf(w)' = FilesOf(w),
         NEW x \in Submission, sub' = [sub EXCEPT ![s] = x],
         x.version = v, x.at \in {"write", "unlink"}, x.at = "write" => x.gone = 0,
         FilesOf(v)' = Bytes(v, s, x.gone + 1, x.new)
  PROVE  IInv'
  <1>1. TypeOK'
    BY DEF IInv, TypeOK, editing
  <1>2. ASSUME NEW t \in Submitters, t # s PROVE Fits(t, sub[t])'
    <2>1. sub'[t] = sub[t] /\ Fits(t, sub[t])
      BY <1>2 DEF IInv, TypeOK, SubInv
    <2>2. \A w \in DOMAIN versions : versions[w].by = t => w # v
      BY <1>2
    <2> QED BY <2>1, <2>2, Undisturbed
  <1>3. sub'[s] = x
    BY DEF IInv, TypeOK
  <1>4. Holds(s, sub[s])'
    BY <1>3 DEF Holds, Bytes
  <1>5. SubInv'
    BY <1>2, <1>3, <1>4 DEF SubInv, Fits
  <1>6. WholeInv'
    BY DEF IInv, WholeInv
  <1>7. EditInv' /\ DiskInv'
    BY DEF IInv, EditInv, DiskInv, editing
  <1>8. OnlyStaleEditsRegress' /\ ScopeIsCommon'
    BY DEF IInv, OnlyStaleEditsRegress, CurrentIsNewest, ScopeIsCommon, editing
  <1> QED BY <1>1, <1>5, <1>6, <1>7, <1>8 DEF IInv

LEMMA WriteStep ==
  ASSUME IInv, NEW s \in Submitters, WriteFile(s)
  PROVE  IInv'
  <1>1. sub[s] \in Submission /\ Holds(s, sub[s]) /\ sub[s].at = "write"
    BY DEF IInv, TypeOK, SubInv, Fits, WriteFile
  <1>2. PICK v \in DOMAIN versions : v = sub[s].version
    BY <1>1 DEF Holds
  <1>3. PICK i \in 1 .. MaxFiles : i = sub[s].new + 1
    BY <1>1, DeliverableConstants DEF Submission, WriteFile
  <1>4. /\ versions[v].by = s /\ versions[v].status = "staging"
        /\ FilesOf(v) = Bytes(v, s, 1, sub[s].new) /\ sub[s].gone = 0
    BY <1>1, <1>2 DEF Holds
  <1>5. v \in 1 .. MaxVersions /\ v <= Len(versions) /\ Len(versions) \in Nat
    BY <1>2, VersionTypes DEF IInv
  <1>6. disk' = disk \cup {<<v, i, s>>}
    BY <1>2, <1>3 DEF WriteFile
  <1>7. disk' \subseteq (1 .. MaxVersions) \X (1 .. MaxFiles) \X Submitters
    BY <1>5, <1>6 DEF IInv, TypeOK
  <1>8. \A f \in disk' : f[1] <= Len(versions)
    BY <1>5, <1>6 DEF IInv, DiskInv
  <1>9. \A w : w # v => FilesOf(w)' = FilesOf(w)
    BY <1>6 DEF FilesOf
  <1>10. FilesOf(v)' = FilesOf(v) \cup {<<v, i, s>>}
    BY <1>6 DEF FilesOf
  <1>11. FilesOf(v)' = Bytes(v, s, 1, i)
    <2>1. sub[s].new \in Nat
      BY <1>1, DeliverableConstants DEF Submission
    <2>2. \A j : j \in 1 .. i <=> (j \in 1 .. sub[s].new \/ j = i)
      BY <1>3, <2>1
    <2> QED BY <1>4, <1>10, <2>2 DEF Bytes
  <1> DEFINE x == [sub[s] EXCEPT !.new = i]
  <1>12. sub' = [sub EXCEPT ![s] = x]
    BY <1>3 DEF WriteFile
  <1>13. /\ x \in Submission /\ x.version = v /\ x.at = "write" /\ x.gone = 0 /\ x.new = i
    BY <1>1, <1>2, <1>3, <1>4, DeliverableConstants DEF Submission
  <1>14. FilesOf(v)' = Bytes(v, s, x.gone + 1, x.new)
    BY <1>11, <1>13
  <1>15. UNCHANGED <<deliverable, versions, cut, editing, exits, lost>>
    BY DEF WriteFile
  <1> HIDE DEF x
  <1> QED BY <1>2, <1>4, <1>7, <1>8, <1>9, <1>12, <1>13, <1>14, <1>15, DiskStep

LEMMA UnlinkStep ==
  ASSUME IInv, NEW s \in Submitters, Unlink(s)
  PROVE  IInv'
  <1>1. sub[s] \in Submission /\ Holds(s, sub[s]) /\ sub[s].at = "unlink"
    BY DEF IInv, TypeOK, SubInv, Fits, Unlink
  <1>2. PICK v \in DOMAIN versions : v = sub[s].version
    BY <1>1 DEF Holds
  <1>3. PICK i \in 1 .. MaxFiles : i = sub[s].gone + 1
    BY <1>1, DeliverableConstants DEF Submission, Unlink
  <1>4. /\ versions[v].by = s /\ versions[v].status = "staging"
        /\ FilesOf(v) = Bytes(v, s, i, sub[s].new)
    BY <1>1, <1>2, <1>3 DEF Holds
  <1>5. disk' = disk \ {<<v, i, s>>}
    BY <1>2, <1>3 DEF Unlink
  <1>6. disk' \subseteq (1 .. MaxVersions) \X (1 .. MaxFiles) \X Submitters
    BY <1>5 DEF IInv, TypeOK
  <1>7. \A f \in disk' : f[1] <= Len(versions)
    BY <1>5 DEF IInv, DiskInv
  <1>8. \A w : w # v => FilesOf(w)' = FilesOf(w)
    BY <1>5 DEF FilesOf
  <1>9. FilesOf(v)' = FilesOf(v) \ {<<v, i, s>>}
    BY <1>5 DEF FilesOf
  <1>10. FilesOf(v)' = Bytes(v, s, i + 1, sub[s].new)
    <2>1. sub[s].new \in Nat
      BY <1>1, DeliverableConstants DEF Submission
    <2>2. \A j : j \in i + 1 .. sub[s].new <=> (j \in i .. sub[s].new /\ j # i)
      BY <1>3, <2>1
    <2> QED BY <1>4, <1>9, <2>2 DEF Bytes
  <1> DEFINE x == [sub[s] EXCEPT !.gone = i]
  <1>11. sub' = [sub EXCEPT ![s] = x]
    BY <1>3 DEF Unlink
  <1>12. /\ x \in Submission /\ x.version = v /\ x.at = "unlink" /\ x.gone = i
         /\ x.new = sub[s].new
    BY <1>1, <1>2, <1>3, DeliverableConstants DEF Submission
  <1>13. FilesOf(v)' = Bytes(v, s, x.gone + 1, x.new)
    BY <1>10, <1>12
  <1>14. UNCHANGED <<deliverable, versions, cut, editing, exits, lost>>
    BY DEF Unlink
  <1> HIDE DEF x
  <1> QED BY <1>2, <1>4, <1>6, <1>7, <1>8, <1>11, <1>12, <1>13, <1>14, DiskStep

\* A version becomes submitted or failed.
LEMMA SettleStep ==
  ASSUME IInv, NEW s \in Submitters, NEW v \in DOMAIN versions, v = sub[s].version,
         Holds(s, sub[s]), NEW row \in Version,
         row.by = s, row.status \in {"submitted", "failed"},
         versions' = [versions EXCEPT ![v] = row],
         row.status = "submitted" => row.files = sub[s].new /\ sub[s].gone = 0,
         row.status = "failed" => sub[s].gone = sub[s].new,
         UNCHANGED <<files, editing, exits, lost>>,
         NEW x \in Submission, sub' = [sub EXCEPT ![s] = x],
         \/ x = NoSub
         \/ /\ row.status = "submitted" /\ x.at = "answer" /\ x.version = v
            /\ x.new = sub[s].new /\ x.gone = 0,
         deliverable' \in Row, deliverable'.current \in 0 .. Len(versions)
  PROVE  TypeOK' /\ EditInv' /\ SubInv' /\ DiskInv' /\ WholeInv'
  <1>1. /\ versions' \in Seq(Version) /\ Len(versions') = Len(versions)
        /\ DOMAIN versions' = DOMAIN versions
        /\ versions'[v] = row
        /\ \A w \in DOMAIN versions : w # v => versions'[w] = versions[w]
    BY OneRow, VersionTypes DEF IInv
  <1>2. \A w : FilesOf(w)' = FilesOf(w)
    BY DEF FilesOf
  <1>3. /\ versions[v].by = s
        /\ FilesOf(v) = Bytes(v, s, sub[s].gone + 1, sub[s].new)
    BY DEF Holds
  <1>4. TypeOK'
    BY <1>1 DEF IInv, TypeOK, editing
  <1>5. ASSUME NEW t \in Submitters, t # s PROVE Fits(t, sub[t])'
    <2>1. sub'[t] = sub[t] /\ Fits(t, sub[t])
      BY <1>5 DEF IInv, TypeOK, SubInv
    <2>2. \A w \in DOMAIN versions : versions[w].by = t => w # v
      BY <1>3, <1>5
    <2> QED BY <1>1, <1>2, <2>1, <2>2, Undisturbed
  <1>6. sub'[s] = x
    BY DEF IInv, TypeOK
  <1>7. Fits(s, sub[s])'
    <2>1. CASE x = NoSub
      BY <1>6, <2>1 DEF Fits, NoSub
    <2>2. CASE /\ row.status = "submitted" /\ x.at = "answer" /\ x.version = v
               /\ x.new = sub[s].new /\ x.gone = 0
      <3>1. FilesOf(v)' = Bytes(v, s, x.gone + 1, x.new)
        BY <1>2, <1>3, <2>2
      <3>2. Holds(s, sub[s])'
        BY <1>1, <1>6, <2>2, <3>1 DEF Holds, Bytes
      <3> QED BY <1>6, <2>2, <3>2 DEF Fits
    <2> QED BY <2>1, <2>2
  <1>8. SubInv'
    BY <1>5, <1>7 DEF SubInv
  <1>9. WholeInv'
    <2>1. row.status = "submitted" => FilesOf(v)' = {<<v, i, row.by>> : i \in 1 .. row.files}
      BY <1>2, <1>3 DEF Bytes
    <2>2. row.status = "failed" => FilesOf(v)' = {}
      <3>1. sub[s].gone \in Nat /\ sub[s].new \in Nat
        BY DeliverableConstants DEF IInv, TypeOK, Submission
      <3>2. row.status = "failed" => sub[s].gone + 1 .. sub[s].new = {}
        BY <3>1
      <3> QED BY <1>2, <1>3, <3>2 DEF Bytes
    <2>3. ASSUME NEW w \in DOMAIN versions'
          PROVE  /\ versions'[w].status = "submitted" =>
                      FilesOf(w)' = {<<w, i, versions'[w].by>> : i \in 1 .. versions'[w].files}
                 /\ versions'[w].status = "failed" => FilesOf(w)' = {}
      <3>1. CASE w = v
        BY <1>1, <2>1, <2>2, <3>1
      <3>2. CASE w # v
        BY <1>1, <1>2, <3>2 DEF IInv, WholeInv
      <3> QED BY <3>1, <3>2
    <2> QED BY <2>3 DEF WholeInv
  <1>10. EditInv' /\ DiskInv'
    BY <1>1 DEF IInv, EditInv, DiskInv, editing
  <1> QED BY <1>4, <1>8, <1>9, <1>10

LEMMA SubmittedRow ==
  ASSUME NEW old \in Version, NEW scope \in Scopes, NEW n \in 0 .. MaxFiles
  PROVE  /\ Submitted(old, scope, n) \in Version
         /\ Submitted(old, scope, n).status = "submitted"
         /\ Submitted(old, scope, n).by = old.by
         /\ Submitted(old, scope, n).scope = scope
         /\ Submitted(old, scope, n).files = n
  <1> DEFINE r1 == [old EXCEPT !.status = "submitted"]
             r2 == [r1 EXCEPT !.scope = scope]
             r3 == [r2 EXCEPT !.files = n]
  <1>1. r1 \in Version /\ r1.status = "submitted" /\ r1.by = old.by
    BY DEF Version, Status
  <1>2. r2 \in Version /\ r2.status = "submitted" /\ r2.by = old.by /\ r2.scope = scope
    <2> HIDE DEF r1
    <2> QED BY <1>1 DEF Version
  <1>3. r3 \in Version /\ r3.status = "submitted" /\ r3.by = old.by /\ r3.scope = scope
        /\ r3.files = n
    <2> HIDE DEF r2
    <2> QED BY <1>2 DEF Version
  <1>4. Submitted(old, scope, n) = r3
    BY DEF Submitted
  <1> HIDE DEF r3
  <1> QED BY <1>3, <1>4

LEMMA SubmittedDeliverable ==
  ASSUME NEW d \in Row, NEW current \in 0 .. MaxVersions
  PROVE  LET row == [d EXCEPT !.status = "submitted", !.current = current]
         IN  row \in Row /\ row.current = current /\ row.scope = d.scope
  <1> DEFINE r1 == [d EXCEPT !.status = "submitted"]
             r2 == [r1 EXCEPT !.current = current]
  <1>1. r1 \in Row /\ r1.scope = d.scope
    BY DEF Row, DELIVERABLE_STATUSES
  <1>2. r2 \in Row /\ r2.current = current /\ r2.scope = d.scope
    <2> HIDE DEF r1
    <2> QED BY <1>1 DEF Row
  <1>3. r2 = [d EXCEPT !.status = "submitted", !.current = current]
    OBVIOUS
  <1> QED BY <1>2, <1>3

LEMMA CompleteStep ==
  ASSUME IInv, NEW s \in Submitters, Complete(s)
  PROVE  IInv'
  <1>1. /\ sub[s] \in Submission /\ sub[s].at = "write" /\ sub[s].new = sub[s].files
        /\ Holds(s, sub[s])
    BY DEF IInv, TypeOK, SubInv, Fits, Complete, Written
  <1>2. PICK v \in DOMAIN versions : v = sub[s].version
    BY <1>1 DEF Holds
  <1>3. /\ versions[v] \in Version /\ v \in 1 .. MaxVersions
        /\ v \in 1 .. Len(versions) /\ Len(versions) \in Nat /\ MaxVersions \in Nat
    BY <1>2, VersionTypes DEF IInv
  <1>4. deliverable \in Row /\ deliverable.scope \in Scopes
        /\ deliverable.current \in 0 .. Len(versions) /\ deliverable.current \in 0 .. MaxVersions
    BY DEF IInv, TypeOK, Row
  <1> DEFINE row == Submitted(versions[v], deliverable.scope, sub[s].files)
             c   == Larger(deliverable.current, v)
             d   == [deliverable EXCEPT !.status = "submitted", !.current = c]
             x   == [sub[s] EXCEPT !.at = "answer"]
  <1>5. /\ row \in Version
        /\ row.status = "submitted" /\ row.by = versions[v].by
        /\ row.scope = deliverable.scope /\ row.files = sub[s].files
    <2>1. /\ versions[v] \in Version /\ deliverable.scope \in Scopes
          /\ sub[s].files \in 0 .. MaxFiles
      BY <1>1, <1>3, <1>4 DEF Submission
    <2> QED BY <2>1, SubmittedRow
  <1>6. /\ c \in 0 .. Len(versions) /\ c \in 0 .. MaxVersions
        /\ v <= c /\ deliverable.current <= c /\ (c = v \/ c = deliverable.current)
    BY <1>3, <1>4 DEF Larger
  <1>7. d \in Row /\ d.current = c /\ d.scope = deliverable.scope
    <2> HIDE DEF c
    <2> QED BY <1>4, <1>6, SubmittedDeliverable
  <1>8. /\ x \in Submission /\ x.at = "answer" /\ x.version = v
        /\ x.new = sub[s].new /\ x.gone = sub[s].gone
    BY <1>1, <1>2 DEF Submission
  <1>9. /\ versions' = [versions EXCEPT ![v] = row]
        /\ deliverable' = d
        /\ sub' = [sub EXCEPT ![s] = x]
        /\ UNCHANGED <<files, editing, exits, lost>>
    BY <1>2 DEF Complete, Completed
  <1>10. versions[v].by = s /\ sub[s].gone = 0
    BY <1>1, <1>2 DEF Holds
  <1> HIDE DEF row, c, d, x
  <1>11. TypeOK' /\ EditInv' /\ SubInv' /\ DiskInv' /\ WholeInv'
    <2>1. /\ row.by = s /\ row.status = "submitted" /\ row.files = sub[s].new
      BY <1>1, <1>5, <1>10
    <2>2. x.at = "answer" /\ x.version = v /\ x.new = sub[s].new /\ x.gone = 0
      BY <1>8, <1>10
    <2>3. deliverable' \in Row /\ deliverable'.current \in 0 .. Len(versions)
      BY <1>6, <1>7, <1>9
    <2>4. row \in Version /\ x \in Submission /\ Holds(s, sub[s])
      BY <1>1, <1>5, <1>8
    <2> QED BY <1>2, <1>9, <1>10, <2>1, <2>2, <2>3, <2>4, SettleStep
  <1>12. /\ DOMAIN versions' = DOMAIN versions /\ versions'[v] = row
         /\ \A w \in DOMAIN versions : w # v => versions'[w] = versions[w]
    BY <1>2, <1>9
  <1>13. OnlyStaleEditsRegress'
    <2>1. ASSUME ~stale PROVE CurrentIsNewest'
      <3>1. /\ \A w \in DOMAIN versions : versions[w].status = "submitted" => w <= deliverable.current
            /\ deliverable.current # 0 => versions[deliverable.current].status = "submitted"
        BY <2>1 DEF IInv, OnlyStaleEditsRegress, CurrentIsNewest
      <3>2. \A w \in DOMAIN versions : w \in Nat
        BY <1>3
      <3>3. \A w \in DOMAIN versions' : versions'[w].status = "submitted" => w <= c
        BY <1>3, <1>4, <1>6, <1>12, <3>1, <3>2
      <3>4. c # 0 => versions'[c].status = "submitted"
        <4>1. CASE c = v
          BY <1>5, <1>12, <4>1
        <4>2. CASE c # v
          <5>1. c = deliverable.current /\ (c # 0 => c \in DOMAIN versions)
            BY <1>3, <1>6, <4>2, VersionTypes DEF IInv
          <5> QED BY <1>12, <3>1, <4>2, <5>1
        <4> QED BY <4>1, <4>2
      <3> QED BY <1>7, <1>9, <3>3, <3>4 DEF CurrentIsNewest
    <2> QED BY <1>9, <2>1 DEF OnlyStaleEditsRegress, editing
  <1>14. ScopeIsCommon'
    BY <1>5, <1>7, <1>9, <1>12 DEF IInv, ScopeIsCommon, editing
  <1> QED BY <1>11, <1>13, <1>14 DEF IInv

LEMMA FailStep ==
  ASSUME IInv, NEW s \in Submitters, Fail(s)
  PROVE  IInv'
  <1>1. /\ sub[s] \in Submission /\ sub[s].at = "unlink" /\ sub[s].gone = sub[s].new
        /\ Holds(s, sub[s])
    BY DEF IInv, TypeOK, SubInv, Fits, Fail
  <1>2. PICK v \in DOMAIN versions : v = sub[s].version
    BY <1>1 DEF Holds
  <1>3. /\ versions[v] \in Version /\ versions[v].status = "staging" /\ versions[v].by = s
    BY <1>1, <1>2, VersionTypes DEF IInv, Holds
  <1> DEFINE row == [versions[v] EXCEPT !.status = "failed"]
  <1>4. /\ row \in Version /\ row.status = "failed"
        /\ row.by = versions[v].by /\ row.scope = versions[v].scope
    BY <1>3 DEF Version, Status
  <1>5. /\ versions' = [versions EXCEPT ![v] = row]
        /\ sub' = [sub EXCEPT ![s] = NoSub]
        /\ UNCHANGED <<deliverable, files, editing, exits, lost>>
    BY <1>2, <1>3 DEF Fail, Leave
  <1>6. deliverable' \in Row /\ deliverable'.current \in 0 .. Len(versions)
    BY <1>5 DEF IInv, TypeOK
  <1> HIDE DEF row
  <1>7. TypeOK' /\ EditInv' /\ SubInv' /\ DiskInv' /\ WholeInv'
    BY <1>1, <1>2, <1>3, <1>4, <1>5, <1>6, NoSubFits, SettleStep
  <1>8. /\ DOMAIN versions' = DOMAIN versions /\ versions'[v] = row
        /\ \A w \in DOMAIN versions : w # v => versions'[w] = versions[w]
    BY <1>2, <1>5
  <1>9. OnlyStaleEditsRegress'
    BY <1>3, <1>4, <1>5, <1>8 DEF IInv, OnlyStaleEditsRegress, CurrentIsNewest, editing
  <1>10. ScopeIsCommon'
    BY <1>4, <1>5, <1>8 DEF IInv, ScopeIsCommon, editing
  <1> QED BY <1>7, <1>9, <1>10 DEF IInv

-----------------------------------------------------------------------------
\* Steps of an edit, and exits.

LEMMA NoEditType ==
  /\ NoEdit \in Edit
  /\ [NoEdit EXCEPT !.at = "announce"] \in Edit
  /\ NoEdit.row = NoEdit.seen /\ NoEdit.row.current = 0
  /\ [NoEdit EXCEPT !.at = "announce"].row = NoEdit.row
  /\ [NoEdit EXCEPT !.at = "announce"].seen = NoEdit.seen
  <1> DEFINE c == CHOOSE s \in Scopes : TRUE
  <1>1. c \in Scopes
    BY DeliverableConstants
  <1> HIDE DEF c
  <1>2. NewRow(c) \in Row /\ NewRow(c).current = 0 /\ NewRow(c).scope = c
    BY <1>1, DeliverableConstants DEF NewRow, Row, DELIVERABLE_STATUSES
  <1>3. NoEdit = [at |-> "idle", seen |-> NewRow(c), row |-> NewRow(c), scope |-> NewRow(c).scope]
    BY DEF NoEdit, c
  <1> QED BY <1>1, <1>2, <1>3 DEF Edit

LEMMA PatchedRow ==
  ASSUME NEW row \in Row, NEW status \in DELIVERABLE_STATUSES, NEW scope \in Scopes
  PROVE  Patch(row, status, scope) \in Row /\ Patch(row, status, scope).current = row.current
  <1> DEFINE r1 == [row EXCEPT !.status = status]
             r2 == [r1 EXCEPT !.scope = scope]
  <1>1. r1 \in Row /\ r1.current = row.current
    BY DEF Row
  <1>2. r2 \in Row /\ r2.current = row.current
    <2> HIDE DEF r1
    <2> QED BY <1>1 DEF Row
  <1>3. Patch(row, status, scope) = r2
    BY DEF Patch
  <1> HIDE DEF r2
  <1> QED BY <1>2, <1>3

\* The locals of an editor say nothing about anybody else.
LEMMA EditorStep ==
  ASSUME IInv, NEW e \in Editors, NEW x \in Edit, edit' = [edit EXCEPT ![e] = x],
         x.row.current = x.seen.current, x.row.current <= Len(versions),
         UNCHANGED <<table, sub, exits, stale, torn, lost>>,
         edits' \in 0 .. MaxEdits, announced' \in Nat
  PROVE  IInv'
  <1>1. TypeOK'
    BY DEF IInv, TypeOK, table
  <1>2. EditInv'
    BY DEF IInv, EditInv, TypeOK, table
  <1>3. SubInv' /\ DiskInv' /\ WholeInv'
    BY DEF IInv, SubInv, Fits, Holds, DiskInv, WholeInv, FilesOf, table
  <1>4. OnlyStaleEditsRegress' /\ ScopeIsCommon'
    BY DEF IInv, OnlyStaleEditsRegress, CurrentIsNewest, ScopeIsCommon, table
  <1> QED BY <1>1, <1>2, <1>3, <1>4 DEF IInv

LEMMA EditSteps ==
  ASSUME IInv, NEW e \in Editors, Read(e) \/ Look(e) \/ Announce(e)
  PROVE  IInv'
  <1>1. /\ edit[e] \in Edit /\ deliverable \in Row /\ deliverable.scope \in Scopes
        /\ deliverable.status \in DELIVERABLE_STATUSES
        /\ deliverable.current <= Len(versions)
        /\ edits \in 0 .. MaxEdits /\ announced \in Nat /\ MaxEdits \in Nat
    BY VersionTypes, DeliverableConstants DEF IInv, TypeOK, Row
  <1>2. CASE Read(e)
    <2>1. PICK status \in Patched \cup {deliverable.status}, scope \in Scopes :
             edit' = [edit EXCEPT ![e] = [at    |-> "look",
                                          seen  |-> deliverable,
                                          row   |-> Patch(deliverable, status, scope),
                                          scope |-> deliverable.scope]]
      BY <1>2 DEF Read
    <2>2. status \in DELIVERABLE_STATUSES
      BY <1>1, DeliverableConstants
    <2>3. /\ Patch(deliverable, status, scope) \in Row
          /\ Patch(deliverable, status, scope).current = deliverable.current
      BY <1>1, <2>2, PatchedRow
    <2> DEFINE x == [at |-> "look", seen |-> deliverable,
                     row |-> Patch(deliverable, status, scope), scope |-> deliverable.scope]
    <2>4. x \in Edit /\ x.row.current = x.seen.current /\ x.row.current <= Len(versions)
      BY <1>1, <2>3 DEF Edit
    <2>5. edits' \in 0 .. MaxEdits /\ announced' \in Nat
      BY <1>1, <1>2 DEF Read
    <2>6. UNCHANGED <<table, sub, exits, stale, torn, lost>>
      BY <1>2 DEF Read
    <2> HIDE DEF x
    <2> QED BY <2>1, <2>4, <2>5, <2>6, EditorStep DEF x
  <1>3. CASE Look(e)
    <2> DEFINE y == [edit[e] EXCEPT !.at = "save"]
               x == [y EXCEPT !.scope = deliverable.scope]
    <2>1. y \in Edit /\ y.row = edit[e].row /\ y.seen = edit[e].seen
      BY <1>1 DEF Edit
    <2>2. x \in Edit /\ x.row = edit[e].row /\ x.seen = edit[e].seen
      <3> HIDE DEF y
      <3> QED BY <1>1, <2>1 DEF Edit
    <2>3. edit' = [edit EXCEPT ![e] = x]
      BY <1>3 DEF Look
    <2>4. x.row.current = x.seen.current /\ x.row.current <= Len(versions)
      BY <2>2 DEF IInv, EditInv
    <2>5. /\ UNCHANGED <<table, sub, exits, stale, torn, lost>>
          /\ edits' \in 0 .. MaxEdits /\ announced' \in Nat
      BY <1>1, <1>3 DEF Look
    <2> HIDE DEF x
    <2> QED BY <2>2, <2>3, <2>4, <2>5, EditorStep
  <1>4. CASE Announce(e)
    <2>1. edit' = [edit EXCEPT ![e] = NoEdit] /\ announced' = announced + 1 /\ edits' = edits
          /\ UNCHANGED <<table, sub, exits, stale, torn, lost>>
      BY <1>4 DEF Announce
    <2>2. announced' \in Nat /\ edits' \in 0 .. MaxEdits
      BY <1>1, <2>1
    <2>3. NoEdit.row.current = NoEdit.seen.current /\ NoEdit.row.current <= Len(versions)
      BY NoEditType, VersionTypes DEF IInv
    <2> QED BY <2>1, <2>2, <2>3, NoEditType, EditorStep
  <1> QED BY <1>2, <1>3, <1>4

LEMMA SaveStep ==
  ASSUME IInv, NEW e \in Editors, Save(e)
  PROVE  IInv'
  <1>1. /\ edit[e].row \in Row /\ edit[e].row.scope \in Scopes /\ edit[e].row.current \in Nat
        /\ edit[e].row.current <= Len(versions)
        /\ edit[e].row.current = edit[e].seen.current
    BY DEF IInv, TypeOK, EditInv, Edit, Row
  <1>2. /\ versions \in Seq(Version) /\ Len(versions) \in Nat
        /\ \A v \in DOMAIN versions : versions[v] \in Version
    BY VersionTypes DEF IInv
  <1>3. /\ deliverable' = edit[e].row
        /\ stale' = (stale \/ deliverable # edit[e].seen)
        /\ torn' = (torn \/ deliverable.scope # edit[e].scope)
        /\ edit' = [edit EXCEPT ![e] = [NoEdit EXCEPT !.at = "announce"]]
        /\ UNCHANGED <<files, sub, edits, announced, exits, lost>>
        /\ versions' = [v \in DOMAIN versions |->
                           IF edit[e].scope # edit[e].row.scope
                           THEN [versions[v] EXCEPT !.scope = edit[e].row.scope]
                           ELSE versions[v]]
    BY DEF Save, Saved
  <1>4. /\ DOMAIN versions' = DOMAIN versions
        /\ versions' = [v \in DOMAIN versions |-> versions'[v]]
    BY <1>3
  <1>5. ASSUME NEW v \in DOMAIN versions
        PROVE  /\ versions'[v] \in Version
               /\ versions'[v].status = versions[v].status
               /\ versions'[v].by = versions[v].by
               /\ versions'[v].files = versions[v].files
               /\ versions'[v].scope = IF edit[e].scope # edit[e].row.scope
                                       THEN edit[e].row.scope ELSE versions[v].scope
    <2>1. CASE edit[e].scope = edit[e].row.scope
      BY <1>2, <1>3, <2>1
    <2>2. CASE edit[e].scope # edit[e].row.scope
      <3>1. versions'[v] = [versions[v] EXCEPT !.scope = edit[e].row.scope]
        BY <1>3, <2>2
      <3>2. versions[v] \in Version
        BY <1>2
      <3> QED BY <1>1, <2>2, <3>1, <3>2 DEF Version
    <2> QED BY <2>1, <2>2
  <1>6. versions' \in Seq(Version) /\ Len(versions') = Len(versions)
    BY <1>2, <1>4, <1>5, SameRows
  <1>7. TypeOK'
    <2>1. edit' \in [Editors -> Edit]
      BY <1>3, NoEditType DEF IInv, TypeOK
    <2>2. stale' \in BOOLEAN /\ torn' \in BOOLEAN
      BY <1>3
    <2>3. deliverable' \in Row /\ deliverable'.current \in 0 .. Len(versions')
      BY <1>1, <1>2, <1>3, <1>6
    <2> QED BY <1>3, <1>6, <2>1, <2>2, <2>3 DEF IInv, TypeOK
  <1>8. EditInv'
    <2>1. \A d \in Editors : d # e => edit'[d] = edit[d]
      BY <1>3 DEF IInv, TypeOK
    <2>2. edit'[e] = [NoEdit EXCEPT !.at = "announce"]
      BY <1>3 DEF IInv, TypeOK
    <2>3. edit'[e].row.current = edit'[e].seen.current /\ edit'[e].row.current <= Len(versions')
      BY <1>2, <1>6, <2>2, NoEditType
    <2> QED BY <1>6, <2>1, <2>3 DEF IInv, EditInv
  <1>9. \A w : FilesOf(w)' = FilesOf(w)
    BY <1>3 DEF FilesOf
  <1>10. SubInv'
    <2>1. ASSUME NEW t \in Submitters PROVE Fits(t, sub[t])'
      <3>1. sub'[t] = sub[t] /\ Fits(t, sub[t])
        BY <1>3 DEF IInv, SubInv
      <3> QED BY <1>4, <1>5, <1>9, <3>1, Undisturbed
    <2> QED BY <2>1 DEF SubInv
  <1>11. DiskInv' /\ WholeInv'
    BY <1>3, <1>4, <1>5, <1>6, <1>9 DEF IInv, DiskInv, WholeInv
  <1>12. OnlyStaleEditsRegress'
    <2>1. ASSUME ~stale' PROVE CurrentIsNewest'
      <3>1. ~stale /\ deliverable'.current = deliverable.current
        BY <1>1, <1>3, <2>1
      <3>2. CurrentIsNewest
        BY <3>1 DEF IInv, OnlyStaleEditsRegress
      <3>3. deliverable.current # 0 => deliverable.current \in DOMAIN versions
        BY VersionTypes DEF IInv, TypeOK
      <3> QED BY <1>4, <1>5, <3>1, <3>2, <3>3 DEF CurrentIsNewest
    <2> QED BY <2>1 DEF OnlyStaleEditsRegress
  <1>13. ScopeIsCommon'
    <2>1. ASSUME ~torn', NEW v \in DOMAIN versions'
          PROVE  versions'[v].scope = deliverable'.scope
      <3>1. ~torn /\ deliverable.scope = edit[e].scope
        BY <1>3, <2>1
      <3>2. versions[v].scope = deliverable.scope
        BY <1>4, <2>1, <3>1 DEF IInv, ScopeIsCommon
      <3> QED BY <1>3, <1>4, <1>5, <2>1, <3>1, <3>2
    <2> QED BY <2>1 DEF ScopeIsCommon
  <1> QED BY <1>7, <1>8, <1>10, <1>11, <1>12, <1>13 DEF IInv

LEMMA ExitStep ==
  ASSUME IInv, Exit
  PROVE  IInv'
  <1>1. /\ exits' = exits + 1 /\ exits < MaxExits
        /\ sub' = [s \in Submitters |-> NoSub]
        /\ edit' = [e \in Editors |-> NoEdit]
        /\ UNCHANGED <<deliverable, versions, disk, edits, announced, stale, torn>>
    BY DEF Exit
  <1>2. lost' \subseteq 1 .. MaxVersions
    <2>1. ASSUME NEW s \in Submitters, sub[s].at \in {"write", "clean", "unlink"}
          PROVE  sub[s].version \in 1 .. MaxVersions
      BY <2>1, VersionTypes DEF IInv, SubInv, Fits, Holds
    <2> QED BY <2>1 DEF Exit, IInv, TypeOK
  <1>3. exits' \in 0 .. MaxExits
    BY <1>1, DeliverableConstants DEF IInv, TypeOK
  <1>4. TypeOK'
    <2>1. sub' \in [Submitters -> Submission] /\ edit' \in [Editors -> Edit]
      BY <1>1, NoSubFits, NoEditType
    <2>2. Underway \subseteq (1 .. MaxVersions) \X (1 .. MaxFiles)
      BY TargetType DEF Underway
    <2>3. cut' \subseteq (1 .. MaxVersions) \X (1 .. MaxFiles)
      BY <2>2 DEF Exit, IInv, TypeOK
    <2> QED BY <1>1, <1>2, <1>3, <2>1, <2>3 DEF IInv, TypeOK
  <1>5. EditInv'
    BY <1>1, NoEditType, VersionTypes DEF IInv, EditInv, table
  <1>6. SubInv'
    BY <1>1 DEF SubInv, Fits, NoSub
  <1>7. DiskInv' /\ WholeInv'
    BY <1>1 DEF IInv, DiskInv, WholeInv, FilesOf, table
  <1>8. OnlyStaleEditsRegress' /\ ScopeIsCommon'
    BY <1>1 DEF IInv, OnlyStaleEditsRegress, CurrentIsNewest, ScopeIsCommon, table
  <1> QED BY <1>4, <1>5, <1>6, <1>7, <1>8 DEF IInv

-----------------------------------------------------------------------------
\* The theorems.

LEMMA InitInv ==
  ASSUME Init
  PROVE  IInv
  <1>1. PICK scope \in Scopes : deliverable = NewRow(scope)
    BY DEF Init
  <1>2. /\ deliverable \in Row /\ deliverable.current = 0
    BY <1>1, DeliverableConstants DEF NewRow, Row, DELIVERABLE_STATUSES
  <1>3. versions = << >> /\ Len(versions) = 0 /\ DOMAIN versions = {}
    BY DEF Init
  <1>4. sub \in [Submitters -> Submission] /\ edit \in [Editors -> Edit]
    BY NoSubFits, NoEditType DEF Init
  <1>5. TypeOK
    <2>1. versions \in Seq(Version) /\ Len(versions) <= MaxVersions
      BY <1>3, DeliverableConstants
    <2>2. deliverable.current \in 0 .. Len(versions)
      BY <1>2, <1>3
    <2>3. edits \in 0 .. MaxEdits /\ announced \in Nat /\ exits \in 0 .. MaxExits
      BY DeliverableConstants DEF Init
    <2>4. disk = {} /\ cut = {} /\ lost = {} /\ stale \in BOOLEAN /\ torn \in BOOLEAN
      BY DEF Init
    <2> QED BY <1>2, <1>4, <2>1, <2>2, <2>3, <2>4 DEF TypeOK
  <1>6. EditInv
    BY <1>3, NoEditType DEF Init, EditInv
  <1>7. SubInv
    BY DEF Init, SubInv, Fits, NoSub
  <1>8. DiskInv /\ WholeInv /\ ScopeIsCommon
    BY <1>3 DEF Init, DiskInv, WholeInv, ScopeIsCommon
  <1>9. OnlyStaleEditsRegress
    BY <1>2, <1>3 DEF OnlyStaleEditsRegress, CurrentIsNewest
  <1> QED BY <1>5, <1>6, <1>7, <1>8, <1>9 DEF IInv

LEMMA StutterStep ==
  ASSUME IInv, UNCHANGED vars
  PROVE  IInv'
  BY DEF vars, table, editing, IInv, TypeOK, EditInv, SubInv, Fits, Holds, DiskInv, FilesOf,
         WholeInv, OnlyStaleEditsRegress, CurrentIsNewest, ScopeIsCommon

LEMMA NextInv ==
  ASSUME IInv, [Next]_vars
  PROVE  IInv'
  <1>1. ASSUME NEW s \in Submitters, Submit(s) PROVE IInv'
    BY <1>1, SubmitStep
  <1>2. ASSUME NEW s \in Submitters, SubmitterStep(s) PROVE IInv'
    <2>1. CASE Reserve(s) \/ ReserveLost(s)
      BY <2>1, ReserveStep
    <2>2. CASE ReserveRefused(s) \/ Answer(s) \/ Abandon(s)
      BY <2>2, LeaveStep
    <2>3. CASE WriteFails(s) \/ CompleteFails(s) \/ AnswerLost(s)
      BY <2>3, RaiseStep
    <2>4. CASE Clean(s)
      <3>1. \/ Leave(s)
            \/ Goto(s, "clean", "unlink") /\ versions[sub[s].version].status # "submitted"
        BY <2>4 DEF Clean
      <3>2. CASE Leave(s)
        BY <2>4, <3>2, LeaveStep
      <3>3. CASE Goto(s, "clean", "unlink") /\ versions[sub[s].version].status # "submitted"
        BY <2>4, <3>3, RaiseStep
      <3> QED BY <3>1, <3>2, <3>3
    <2>5. CASE WriteFile(s)
      BY <2>5, WriteStep
    <2>6. CASE Complete(s)
      BY <2>6, CompleteStep
    <2>7. CASE Unlink(s)
      BY <2>7, UnlinkStep
    <2>8. CASE Fail(s)
      BY <2>8, FailStep
    <2> QED BY <1>2, <2>1, <2>2, <2>3, <2>4, <2>5, <2>6, <2>7, <2>8 DEF SubmitterStep
  <1>3. ASSUME NEW e \in Editors, Read(e) \/ Look(e) \/ Save(e) \/ Announce(e) PROVE IInv'
    BY <1>3, EditSteps, SaveStep
  <1> QED BY <1>1, <1>2, <1>3, ExitStep, StutterStep DEF Next

-----------------------------------------------------------------------------
\* The files of writes that broke off.

\* Such a file lies with a version that is not submitted, one for each, and the
\* handler of that version writes no more.
CutInv ==
    /\ \A c \in cut : c[1] <= Len(versions) /\ versions[c[1]].status # "submitted"
    /\ \A c, d \in cut : c[1] = d[1] => c = d
    /\ \A s \in Submitters : sub[s].at = "write" => CutOf(sub[s].version) = {}

\* A step that breaks off no write, and after which no version is submitted whose
\* handler was not writing it.
LEMMA CutStays ==
  ASSUME IInv, CutInv, UNCHANGED cut,
         DOMAIN versions \subseteq DOMAIN versions', Len(versions) <= Len(versions'),
         \A v \in DOMAIN versions : versions'[v].status = "submitted" =>
             \/ versions[v].status = "submitted"
             \/ \E s \in Submitters : sub[s].at = "write" /\ sub[s].version = v,
         Len(versions') \in Nat,
         \A s \in Submitters : sub'[s].at = "write" =>
             \/ sub[s].at = "write" /\ sub'[s].version = sub[s].version
             \/ sub'[s].version = Len(versions) + 1
  PROVE  CutInv'
  <1>1. Len(versions) \in Nat /\ DOMAIN versions = 1 .. Len(versions)
    BY VersionTypes DEF IInv
  <1>2. \A c \in cut : c[1] \in DOMAIN versions
    <2>1. \A c \in cut : c[1] \in 1 .. MaxVersions /\ c[1] <= Len(versions)
      BY DEF CutInv, IInv, TypeOK
    <2> QED BY <1>1, <2>1, VersionTypes DEF IInv
  <1>3. \A c \in cut : c[1] <= Len(versions') /\ versions'[c[1]].status # "submitted"
    BY <1>1, <1>2 DEF CutInv, CutOf
  <1>4. \A s \in Submitters : sub'[s].at = "write" => CutOf(sub'[s].version) = {}
    BY <1>1, <1>2 DEF CutInv, CutOf
  <1> QED BY <1>3, <1>4 DEF CutInv, CutOf

\* A write that breaks off: by a thread that will not write again, or by all of them.
LEMMA CutGrows ==
  ASSUME IInv, CutInv, UNCHANGED versions,
         NEW begun \in SUBSET Underway, cut' = cut \cup begun,
         \A s \in Submitters : sub'[s].at = "write" =>
             sub'[s] = sub[s] /\ (sub[s].new < sub[s].files => Target(s) \notin begun)
  PROVE  CutInv'
  <1>1. ASSUME NEW f \in begun
        PROVE  \E s \in Submitters :
                  /\ f = Target(s) /\ sub[s].at = "write" /\ f[1] = sub[s].version
                  /\ f[1] \in DOMAIN versions /\ f[1] <= Len(versions)
                  /\ versions[f[1]].status = "staging" /\ versions[f[1]].by = s
                  /\ sub[s].new < sub[s].files
    <2>1. PICK s \in Submitters : f = Target(s) /\ sub[s].at = "write"
                                  /\ sub[s].new < sub[s].files
      BY <1>1 DEF Underway
    <2>2. Holds(s, sub[s])
      BY <2>1 DEF IInv, SubInv, Fits
    <2> QED BY <2>1, <2>2, VersionTypes DEF Holds, Target, IInv
  <1>2. \A c \in cut' : c[1] <= Len(versions) /\ versions[c[1]].status # "submitted"
    BY <1>1 DEF CutInv
  <1>3. ASSUME NEW c \in cut', NEW d \in cut', c[1] = d[1] PROVE c = d
    <2>1. CASE c \in begun /\ d \in begun
      BY <1>1, <1>3, <2>1
    <2>2. ASSUME NEW e \in cut, NEW f \in begun, e[1] = f[1] PROVE FALSE
      BY <1>1, <2>2 DEF CutInv, CutOf
    <2> QED BY <1>3, <2>1, <2>2 DEF CutInv
  <1>4. ASSUME NEW s \in Submitters, sub'[s].at = "write", NEW c \in cut',
               c[1] = sub'[s].version
        PROVE  FALSE
    <2>1. sub'[s] = sub[s] /\ sub[s].at = "write"
      BY <1>4
    <2>2. c \in begun
      BY <1>4, <2>1 DEF CutInv, CutOf
    <2>3. PICK t \in Submitters : c = Target(t) /\ versions[c[1]].by = t
                                  /\ sub[t].new < sub[t].files
      BY <1>1, <2>2
    <2>4. versions[sub[s].version].by = s
      BY <2>1 DEF IInv, SubInv, Fits, Holds
    <2> QED BY <1>4, <2>1, <2>2, <2>3, <2>4
  <1> QED BY <1>2, <1>3, <1>4 DEF CutInv, CutOf

LEMMA CutNext ==
  ASSUME IInv, CutInv, [Next]_vars
  PROVE  CutInv'
  <1> USE DEF table
  <1>1. /\ Len(versions) \in Nat /\ MaxVersions \in Nat /\ DOMAIN versions = 1 .. Len(versions)
        /\ sub \in [Submitters -> Submission]
    BY VersionTypes DEF IInv, TypeOK
  <1>2. ASSUME NEW s \in Submitters, Reserve(s) \/ ReserveLost(s) PROVE CutInv'
    <2>1. /\ versions' = Append(versions, NewVersion(s)) /\ UNCHANGED cut
          /\ Len(versions) < MaxVersions
      BY <1>2 DEF Reserve, ReserveLost
    <2>2. /\ Len(versions') = Len(versions) + 1
          /\ \A v \in DOMAIN versions : v \in DOMAIN versions' /\ versions'[v] = versions[v]
      <3>1. versions \in Seq(Version)
        BY VersionTypes DEF IInv
      <3> QED BY <2>1, <3>1
    <2>3. \A t \in Submitters : t # s => sub'[t] = sub[t]
      BY <1>1, <1>2 DEF Reserve, ReserveLost, Leave
    <2>4. sub'[s].at = "write" => sub'[s].version = Len(versions) + 1
      <3>1. CASE Reserve(s)
        <4>1. sub' = [sub EXCEPT ![s] = [sub[s] EXCEPT !.at = "write",
                                                       !.version = Len(versions) + 1]]
          BY <3>1 DEF Reserve
        <4>2. sub[s] \in Submission
          BY <1>1
        <4> QED BY <1>1, <4>1, <4>2 DEF Submission
      <3>2. CASE ReserveLost(s)
        BY <1>1, <3>2 DEF ReserveLost, Leave, NoSub
      <3> QED BY <1>2, <3>1, <3>2
    <2> QED BY <1>1, <2>1, <2>2, <2>3, <2>4, CutStays
  <1>3. ASSUME NEW s \in Submitters,
               \/ Submit(s) \/ ReserveRefused(s) \/ WriteFile(s) \/ CompleteFails(s)
               \/ Answer(s) \/ AnswerLost(s) \/ Clean(s) \/ Unlink(s) \/ Abandon(s)
        PROVE  CutInv'
    <2>1. UNCHANGED <<versions, cut>>
      BY <1>3 DEF Submit, ReserveRefused, WriteFile, CompleteFails, Answer, AnswerLost,
                  Clean, Unlink, Abandon
    <2>2. \A t \in Submitters : t # s => sub'[t] = sub[t]
      BY <1>1, <1>3 DEF Submit, ReserveRefused, WriteFile, CompleteFails, Answer, AnswerLost,
                  Clean, Unlink, Abandon, Leave, Goto
    <2>3. sub'[s].at = "write" => sub[s].at = "write" /\ sub'[s].version = sub[s].version
      <3>1. sub[s] \in Submission
        BY <1>1
      <3>2. CASE WriteFile(s)
        <4>1. sub' = [sub EXCEPT ![s] = [sub[s] EXCEPT !.new = sub[s].new + 1]]
          BY <1>1, <3>1, <3>2 DEF WriteFile, Submission
        <4> QED BY <1>1, <3>1, <3>2, <4>1 DEF WriteFile, Submission
      <3>3. CASE Unlink(s)
        <4>1. sub' = [sub EXCEPT ![s] = [sub[s] EXCEPT !.gone = sub[s].gone + 1]]
          BY <1>1, <3>1, <3>3 DEF Unlink, Submission
        <4>2. sub'[s].at = "unlink"
          BY <1>1, <3>1, <3>3, <4>1 DEF Unlink, Submission
        <4> QED BY <4>2
      <3>4. CASE Submit(s)
        BY <1>1, <3>4 DEF Submit, Begun
      <3>5. CASE ReserveRefused(s) \/ Answer(s) \/ Abandon(s) \/ (Clean(s) /\ Leave(s))
        <4>1. sub' = [sub EXCEPT ![s] = NoSub]
          BY <3>5 DEF ReserveRefused, Answer, Abandon, Leave
        <4> QED BY <1>1, <4>1 DEF NoSub
      <3>6. CASE CompleteFails(s) \/ AnswerLost(s)
                 \/ (Clean(s) /\ Goto(s, "clean", "unlink"))
        <4>1. PICK to \in {"clean", "unlink"} : sub' = [sub EXCEPT ![s].at = to]
          BY <3>6 DEF CompleteFails, AnswerLost, Goto
        <4> QED BY <1>1, <3>1, <4>1 DEF Submission
      <3>7. Clean(s) => Leave(s) \/ Goto(s, "clean", "unlink")
        BY DEF Clean
      <3> QED BY <1>3, <3>2, <3>3, <3>4, <3>5, <3>6, <3>7
    <2> QED BY <1>1, <2>1, <2>2, <2>3, CutStays
  <1>4. ASSUME NEW s \in Submitters, WriteFails(s) PROVE CutInv'
    <2>1. /\ sub[s].at = "write" /\ sub[s].new < sub[s].files /\ UNCHANGED versions
          /\ sub' = [sub EXCEPT ![s].at = "clean"]
          /\ cut' = cut \/ cut' = cut \cup {Target(s)}
      BY <1>4 DEF WriteFails, Goto
    <2>2. sub'[s].at = "clean" /\ \A t \in Submitters : t # s => sub'[t] = sub[t]
      <3>1. sub[s] \in Submission
        BY <1>1
      <3> QED BY <1>1, <2>1, <3>1 DEF Submission
    <2>3. CASE cut' = cut
      BY <1>1, <2>1, <2>2, <2>3, CutStays
    <2>4. CASE cut' = cut \cup {Target(s)}
      <3>1. {Target(s)} \in SUBSET Underway
        BY <2>1 DEF Underway
      <3>2. ASSUME NEW t \in Submitters, sub'[t].at = "write" PROVE Target(t) \notin {Target(s)}
        <4>1. t # s /\ sub[t].at = "write"
          BY <2>2, <3>2
        <4>2. versions[sub[t].version].by = t /\ versions[sub[s].version].by = s
          BY <2>1, <4>1 DEF IInv, SubInv, Fits, Holds
        <4>3. sub[t].version # sub[s].version
          BY <4>1, <4>2
        <4> QED BY <4>3 DEF Target
      <3> QED BY <2>1, <2>2, <2>4, <3>1, <3>2, CutGrows
    <2> QED BY <2>1, <2>3, <2>4
  <1>5. ASSUME NEW s \in Submitters, Complete(s) \/ Fail(s) PROVE CutInv'
    <2> DEFINE v == sub[s].version
    <2>1. v \in DOMAIN versions /\ versions[v] \in Version /\ sub[s] \in Submission
      BY <1>1, <1>5, VersionTypes DEF Complete, Written, Fail, IInv, SubInv, Fits, Holds
    <2>2. PICK row : /\ versions' = [versions EXCEPT ![v] = row] /\ UNCHANGED cut
                     /\ Fail(s) => row.status # "submitted"
      <3>1. CASE Complete(s)
        <4>1. versions' = [versions EXCEPT ![v] =
                              Submitted(versions[v], deliverable.scope, sub[s].files)]
              /\ UNCHANGED cut
          BY <3>1 DEF Complete, Completed
        <4>2. sub[s].at = "write"
          BY <3>1 DEF Complete, Written
        <4>3. ~Fail(s)
          BY <4>2 DEF Fail
        <4> QED BY <4>1, <4>3
      <3>2. CASE Fail(s)
        <4> DEFINE row == [versions[v] EXCEPT !.status =
                              IF versions[v].status = "staging" THEN "failed"
                              ELSE versions[v].status]
        <4>1. versions' = [versions EXCEPT ![v] = row] /\ UNCHANGED cut
          BY <2>1, <3>2 DEF Fail, Version
        <4>2. versions[v].status = "staging"
          BY <3>2 DEF Fail, IInv, SubInv, Fits, Holds
        <4>3. row.status # "submitted"
          BY <2>1, <4>2 DEF Version
        <4> QED BY <4>1, <4>3
      <3> QED BY <1>5, <3>1, <3>2
    <2>3. /\ DOMAIN versions' = DOMAIN versions /\ Len(versions') = Len(versions)
          /\ versions'[v] = row /\ \A w \in DOMAIN versions : w # v => versions'[w] = versions[w]
      <3>1. versions \in Seq(Version)
        BY VersionTypes DEF IInv
      <3> QED BY <2>1, <2>2, <3>1
    <2>4. versions'[v].status = "submitted" => sub[s].at = "write"
      BY <1>5, <2>2, <2>3 DEF Complete, Written
    <2>5. sub'[s].at # "write" /\ \A t \in Submitters : t # s => sub'[t] = sub[t]
      <3>1. CASE Complete(s)
        BY <1>1, <2>1, <3>1 DEF Complete, Completed, Submission
      <3>2. CASE Fail(s)
        BY <1>1, <3>2 DEF Fail, Leave, NoSub
      <3> QED BY <1>5, <3>1, <3>2
    <2> QED BY <1>1, <2>2, <2>3, <2>4, <2>5, CutStays
  <1>6. ASSUME NEW e \in Editors, Read(e) \/ Look(e) \/ Announce(e) PROVE CutInv'
    <2>1. UNCHANGED <<versions, cut, sub>>
      BY <1>6 DEF Read, Look, Announce
    <2> QED BY <1>1, <2>1, CutStays
  <1>7. ASSUME NEW e \in Editors, Save(e) PROVE CutInv'
    <2>1. /\ UNCHANGED <<cut, sub>>
          /\ versions' = [v \in DOMAIN versions |->
                             IF edit[e].scope # edit[e].row.scope
                             THEN [versions[v] EXCEPT !.scope = edit[e].row.scope]
                             ELSE versions[v]]
      BY <1>7 DEF Save, Saved
    <2>2. \A v \in DOMAIN versions : versions[v] \in Version
      BY VersionTypes DEF IInv
    <2>3. \A v \in DOMAIN versions : versions'[v].status = versions[v].status
      BY <2>1, <2>2 DEF Version
    <2>4. Len(versions') = Len(versions) /\ DOMAIN versions' = DOMAIN versions
      <3>1. DOMAIN versions' = 1 .. Len(versions)
        BY <1>1, <2>1
      <3> QED BY <1>1, <3>1
    <2> QED BY <1>1, <2>1, <2>3, <2>4, CutStays
  <1>8. CASE Exit
    <2>1. PICK begun \in SUBSET Underway : cut' = cut \cup begun
      BY <1>8 DEF Exit
    <2>2. UNCHANGED versions /\ \A s \in Submitters : sub'[s].at # "write"
      BY <1>8 DEF Exit, NoSub
    <2> QED BY <2>1, <2>2, CutGrows
  <1>9. CASE UNCHANGED vars
    BY <1>1, <1>9, CutStays DEF vars
  <1> QED BY <1>2, <1>3, <1>4, <1>5, <1>6, <1>7, <1>8, <1>9 DEF Next, SubmitterStep

\* The inductive invariant holds in every reachable state.
THEOREM Invariance == Spec => []IInv
  <1>1. Init => IInv
    BY InitInv
  <1>2. IInv /\ [Next]_vars => IInv'
    BY NextInv
  <1> QED BY <1>1, <1>2, PTL DEF Spec

\* Every variable keeps its type.
THEOREM TypeCorrect == Spec => []TypeOK
  <1>1. IInv => TypeOK
    BY DEF IInv
  <1> QED BY <1>1, Invariance, PTL

\* However many threads submit, fail, clean up and exit: a submitted version has its
\* bytes and nothing else, a failed one has no whole file and at most the one file
\* whose write broke off (submit_version, write_bytes before newly_written.append).
THEOREM BytesAreKept == Spec => []BytesFollowVersions
  <1>1. Init => IInv /\ CutInv
    BY InitInv DEF Init, CutInv, CutOf, NoSub
  <1>2. IInv /\ CutInv /\ [Next]_vars => IInv' /\ CutInv'
    BY NextInv, CutNext
  <1>3. IInv /\ CutInv => BytesFollowVersions
    <2> SUFFICES ASSUME IInv, CutInv, NEW v \in DOMAIN versions
                 PROVE  /\ versions[v].status = "submitted" => CutOf(v) = {}
                        /\ \E i \in 1 .. MaxFiles : CutOf(v) \subseteq {<<v, i>>}
      BY DEF IInv, WholeInv, BytesFollowVersions
    <2>1. versions[v].status = "submitted" => CutOf(v) = {}
      BY DEF CutInv, CutOf
    <2>2. CASE CutOf(v) = {}
      BY <2>1, <2>2, DeliverableConstants
    <2>3. ASSUME NEW c \in CutOf(v) PROVE \E i \in 1 .. MaxFiles : CutOf(v) \subseteq {<<v, i>>}
      <3>1. c \in cut /\ c[1] = v /\ c \in (1 .. MaxVersions) \X (1 .. MaxFiles)
        BY <2>3 DEF CutOf, IInv, TypeOK
      <3>2. CutOf(v) \subseteq {c}
        BY <3>1 DEF CutOf, CutInv
      <3>3. c = <<v, c[2]>> /\ c[2] \in 1 .. MaxFiles
        BY <3>1
      <3> QED BY <3>2, <3>3
    <2> QED BY <2>1, <2>2, <2>3
  <1> QED BY <1>1, <1>2, <1>3, PTL DEF Spec

\* Only a stale edit takes the current version back.
THEOREM CurrentIsKept == Spec => []OnlyStaleEditsRegress
  <1>1. IInv => OnlyStaleEditsRegress
    BY DEF IInv
  <1> QED BY <1>1, Invariance, PTL

\* Versions follow the scope of their deliverable.
THEOREM ScopeIsKept == Spec => []ScopeIsCommon
  <1>1. IInv => ScopeIsCommon
    BY DEF IInv
  <1> QED BY <1>1, Invariance, PTL

\* What a step may submit, without the box.
Opens == \A v \in DOMAIN versions :
            versions[v].status # "submitted" /\ versions'[v].status = "submitted" => Accepts

LEMMA StepOpens ==
  ASSUME IInv, [Next]_vars
  PROVE  Opens
  <1>1. ASSUME UNCHANGED versions PROVE Opens
    BY <1>1 DEF Opens
  <1>2. ASSUME NEW s \in Submitters, Reserve(s) \/ ReserveLost(s) PROVE Opens
    BY <1>2 DEF Reserve, ReserveLost, Opens
  <1>3. ASSUME NEW s \in Submitters, Complete(s) PROVE Opens
    BY <1>3 DEF Complete, Opens
  <1>4. ASSUME NEW s \in Submitters, Fail(s) PROVE Opens
    <2>1. sub[s].version \in DOMAIN versions
      BY <1>4 DEF Fail, IInv, SubInv, Fits, Holds
    <2>2. versions[sub[s].version] \in Version
      BY <2>1, VersionTypes DEF IInv
    <2>3. versions' = [versions EXCEPT ![sub[s].version].status =
                                           IF @ = "staging" THEN "failed" ELSE @]
      BY <1>4 DEF Fail
    <2>4. \A v \in DOMAIN versions : versions'[v].status \in {versions[v].status, "failed"}
      BY <2>1, <2>2, <2>3 DEF Version
    <2> QED BY <2>4 DEF Opens
  <1>5. ASSUME NEW e \in Editors, Save(e) PROVE Opens
    <2>1. versions' = [v \in DOMAIN versions |->
                          IF edit[e].scope # edit[e].row.scope
                          THEN [versions[v] EXCEPT !.scope = edit[e].row.scope]
                          ELSE versions[v]]
      BY <1>5 DEF Save
    <2>2. \A v \in DOMAIN versions : versions[v] \in Version
      BY VersionTypes DEF IInv
    <2>3. \A v \in DOMAIN versions : versions'[v].status = versions[v].status
      BY <2>1, <2>2 DEF Version
    <2> QED BY <2>3 DEF Opens
  <1>6. ASSUME NEW s \in Submitters,
               \/ Submit(s) \/ ReserveRefused(s) \/ WriteFile(s) \/ WriteFails(s)
               \/ CompleteFails(s) \/ Answer(s) \/ AnswerLost(s)
               \/ Clean(s) \/ Unlink(s) \/ Abandon(s)
        PROVE  Opens
    BY <1>1, <1>6 DEF Submit, ReserveRefused, WriteFile, WriteFails, CompleteFails, Answer,
                      AnswerLost, Clean, Unlink, Abandon, table
  <1>7. ASSUME NEW e \in Editors, Read(e) \/ Look(e) \/ Announce(e) PROVE Opens
    BY <1>1, <1>7 DEF Read, Look, Announce, table
  <1>8. CASE Exit \/ UNCHANGED vars
    BY <1>1, <1>8 DEF Exit, vars, table
  <1> QED BY <1>2, <1>3, <1>4, <1>5, <1>6, <1>7, <1>8 DEF Next, SubmitterStep

\* No version is submitted to a deliverable that is archived or out of sight by then.
THEOREM ClosedIsKept == Spec => ClosedTakesNoVersion
  <1>1. IInv /\ [Next]_vars => [Opens]_vars
    BY StepOpens
  <1>2. ClosedTakesNoVersion <=> [][Opens]_vars
    BY DEF ClosedTakesNoVersion, Opens
  <1> QED BY <1>1, <1>2, Invariance, PTL DEF Spec
=============================================================================
