---------------------------- MODULE WorkspaceSync ----------------------------
(***************************************************************************)
(* The browser tab's copy of the workspace: who it was loaded for, which    *)
(* replies may replace it, and the polling that follows ingestion jobs.     *)
(*                                                                         *)
(*   frontend/src/App.tsx                      boot effect, refreshes,      *)
(*                                             handleActorChange            *)
(*   frontend/src/hooks/useIngestionPolling.ts the two-second interval      *)
(*   frontend/src/layout/MainPane.tsx, IconRail.tsx  the mounted panel      *)
(*   frontend/src/api/client.ts, workspaceValidation.ts  the replies        *)
(*                                                                         *)
(* A reply is a whole workspace, computed by the server some time between   *)
(* the request and its arrival.  Of its data the model keeps the actor it   *)
(* was computed for and the ingestion jobs.  A reply for another actor is   *)
(* thrown away, and one that lacks a section is refused before the tab's    *)
(* own guards see it.                                                       *)
(***************************************************************************)
EXTENDS WorkspaceTab, Naturals, FiniteSets

CONSTANTS Pmo,                  \* the actor a page load starts as
          MaxRequests, MaxMoves \* bounds: requests out; switches, reloads, retries

ASSUME SyncConstants == /\ Pmo \in Actors /\ Reviewers \subseteq Actors /\ None \notin Actors
                        /\ MaxRequests \in Nat /\ MaxMoves \in Nat

VARIABLES poll,     \* the effect of useIngestionPolling
          requests, \* requests whose reply has not been handled
          jobs,     \* the ingestion jobs of the server
          moves     \* switches of actor, reloads and retried jobs so far

vars == <<tab, poll, requests, jobs, moves>>

\* own: the effect that sent the request has not been cleaned up.
Composed == {"turn", "brief"} \* one at a time: they keep the composer busy
Kinds    == {"boot", "poll", "refresh", "panel"} \cup Composed
Waiting  == << >>
Lacking  == [j \in Jobs |-> "missing"]  \* for any section of the workspace
Replies  == JobStates \cup {Waiting, Lacking}
Requests == [kind: Kinds, actor: Actors, own: BOOLEAN, reply: Replies]

Request(kind, actor) == [kind |-> kind, actor |-> actor, own |-> TRUE, reply |-> Waiting]

Fresh == [actor |-> Pmo, loading |-> TRUE, copy |-> None, view |-> "chat",
          sending |-> FALSE]
Idle  == [key |-> {}, running |-> FALSE]

Init == /\ tab = Fresh
        /\ poll = Idle
        /\ requests = {Request("boot", Pmo)}
        /\ jobs \in [Jobs -> {"unknown", "active"}]
        /\ moves = 0

-----------------------------------------------------------------------------
(* The server *)

\* Somebody uploads a source; the ingestion worker settles its job.
JobStep(j) == /\ jobs[j] # "done"
              /\ jobs' = [jobs EXCEPT ![j] = IF @ = "unknown" THEN "active" ELSE "done"]
              /\ UNCHANGED <<tab, poll, requests, moves>>

Answer(r, reply) == /\ r.reply = Waiting
                    /\ requests' = (requests \ {r}) \cup {[r EXCEPT !.reply = reply]}
                    /\ UNCHANGED <<tab, poll, jobs, moves>>
Serve(r) == Answer(r, jobs)

\* A server of another version than the page: its workspace lacks a section.
ServeLacking(r) == Answer(r, Lacking)

-----------------------------------------------------------------------------
(* The tab *)

Screen == ~tab.loading /\ tab.copy # None

\* A render with new tab state: the polling effect is cleaned up and set up again
\* when the set of active jobs or the actor has changed.
Rearmed(newTab) == Active(newTab.copy) # poll.key \/ newTab.actor # tab.actor
Orphaned(S) == {IF r.kind = "poll" THEN [r EXCEPT !.own = FALSE] ELSE r : r \in S}
Render(newTab, out, polling) ==
    /\ tab' = newTab
    /\ poll' = IF Rearmed(newTab) THEN [key |-> Active(newTab.copy), running |-> FALSE]
                                  ELSE polling
    /\ requests' = IF Rearmed(newTab) THEN Orphaned(out) ELSE out

\* handleActorChange and the first half of the boot effect.
Emptied(t) == [t EXCEPT !.loading = TRUE, !.copy = None]
SwitchAllowedAlways == Screen
SwitchAllowed == Screen /\ ~tab.sending
SwitchActor(a) ==
    /\ SwitchAllowed /\ a # tab.actor /\ moves < MaxMoves
    /\ Render([Emptied(tab) EXCEPT !.actor = a, !.view = "chat"],
              requests \cup {Request("boot", a)}, poll)
    /\ moves' = moves + 1
    /\ UNCHANGED jobs

\* The retry button of BootFailure.
Retry == /\ ~tab.loading /\ tab.copy = None
         /\ Render(Emptied(tab), requests \cup {Request("boot", tab.actor)}, poll)
         /\ UNCHANGED <<jobs, moves>>

\* window.location.reload(), at the end of handleProjectArchiveAndClear or by hand.
Reload == /\ moves < MaxMoves /\ moves' = moves + 1
          /\ tab' = Fresh /\ poll' = Idle
          /\ requests' = {Request("boot", Pmo)}
          /\ UNCHANGED jobs

\* IconRail and QuickStartCards offer the granted views.
ChangeView(v) == /\ Screen /\ v \in Granted(tab.copy) /\ v # tab.view
                 /\ tab' = [tab EXCEPT !.view = v]
                 /\ UNCHANGED <<poll, requests, jobs, moves>>

Send(kind) == /\ Cardinality(requests) < MaxRequests
              /\ requests' = requests \cup {Request(kind, tab.actor)}
              /\ tab' = [tab EXCEPT !.sending = @ \/ kind \in Composed]
              /\ UNCHANGED <<poll, jobs, moves>>

\* A panel's save, which returns a workspace.
SavePanel == Screen /\ EffectiveView # "chat" /\ Send("panel")

\* A turn or a brief, from any view.
StartTurn     == Screen /\ ~tab.sending /\ Send("turn")
GenerateBrief == Screen /\ ~tab.sending /\ Send("brief")

\* onRefresh, awaited by a panel after a save that returns no workspace: the panel may
\* be gone by then, and the actor be another.
RefreshAfterSave == Send("refresh")

\* The review panel sends a job that it shows as failed to the queue again; the refresh
\* that follows is RefreshAfterSave.
RetryJob(j) == /\ Screen /\ EffectiveView = "review" /\ moves < MaxMoves
               /\ tab.copy.jobs[j] = "done" /\ jobs[j] = "done"
               /\ jobs' = [jobs EXCEPT ![j] = "active"]
               /\ moves' = moves + 1
               /\ UNCHANGED <<tab, poll, requests>>

\* The interval of the polling effect.
Tick == /\ poll.key # {} /\ ~poll.running
        /\ Request("poll", tab.actor) \notin requests
        /\ requests' = requests \cup {Request("poll", tab.actor)}
        /\ poll' = [poll EXCEPT !.running = TRUE]
        /\ UNCHANGED <<tab, jobs, moves>>

\* What is over when a reply has been handled, whatever it was: the finally
\* blocks.
Over(t, r) == [t EXCEPT !.loading = @ /\ r.kind # "boot", !.sending = @ /\ r.kind \notin Composed]
\* The poll's own finally; doing it only for replies that arrive is the slip.
PolledOnReply(r) == IF r.kind = "poll" /\ r.own /\ r.reply # Waiting
                      THEN [poll EXCEPT !.running = FALSE] ELSE poll
Polled(r) == IF r.kind = "poll" /\ r.own THEN [poll EXCEPT !.running = FALSE] ELSE poll

\* Only a workspace with every section gets as far as the tab.
Whole(reply) == reply \in JobStates

\* setWorkspace: what a turn or a brief returns is not compared with the current actor.
Accepts(r) == r.kind \in Composed \/ r.actor = tab.actor

\* A brief is shown in the chat.
Shown(t, r) == [t EXCEPT !.copy = [actor |-> r.actor, jobs |-> r.reply],
                         !.view = IF r.kind = "brief" THEN "chat" ELSE @]

Land(r) ==
    /\ Whole(r.reply)
    /\ Render(IF Accepts(r) THEN Shown(Over(tab, r), r) ELSE Over(tab, r),
              requests \ {r}, Polled(r))
    /\ UNCHANGED <<jobs, moves>>

\* No answer, an error status, or a workspace that is not whole.
Fail(r) == /\ Render(Over(tab, r), requests \ {r}, Polled(r))
           /\ UNCHANGED <<jobs, moves>>

-----------------------------------------------------------------------------
Next == \/ \E j \in Jobs : JobStep(j)
        \/ \E a \in Actors : SwitchActor(a)
        \/ Retry \/ Reload \/ Tick
        \/ \E v \in Views : ChangeView(v)
        \/ SavePanel \/ StartTurn \/ GenerateBrief \/ RefreshAfterSave
        \/ \E j \in Jobs : RetryJob(j)
        \/ \E r \in requests : Serve(r) \/ ServeLacking(r) \/ Land(r) \/ Fail(r)

Spec == Init /\ [][Next]_vars

OwnPolls == {r \in requests : r.kind = "poll" /\ r.own}
BootEnds == \E r \in requests : r.kind = "boot" /\ (Land(r) \/ Fail(r))

\* The interval fires, a fetch settles, and a poll that is repeated without end is
\* answered with a whole workspace at some time.
FairSpec == /\ Spec
            /\ WF_vars(Tick) /\ WF_vars(BootEnds)
            /\ WF_vars(\E r \in OwnPolls : Land(r) \/ Fail(r))
            /\ SF_vars(\E r \in OwnPolls : Serve(r))
            /\ SF_vars(\E r \in OwnPolls : Land(r))

-----------------------------------------------------------------------------
\* Every variable keeps its form and stays within its bounds.
TypeOK == /\ tab \in Tabs
          /\ poll \in [key: SUBSET Jobs, running: BOOLEAN]
          /\ requests \subseteq Requests
          /\ jobs \in JobStates
          /\ moves \in 0 .. MaxMoves

\* A job shown as unfinished that has settled on the server is shown as settled
\* at some time, however many polls fail or are overtaken, unless it is retried first.
JobsFollowed == \A j \in Jobs :
    (j \in Active(tab.copy) /\ jobs[j] = "done")
       ~> (j \notin Active(tab.copy) \/ jobs[j] # "done")

\* The skeleton of a load gives way to the workspace or to the retry button.
LoadingEnds == tab.loading ~> ~tab.loading

\* The tab does not stay behind the server, nor without it.
CatchesUp == JobsFollowed /\ LoadingEnds
=============================================================================
