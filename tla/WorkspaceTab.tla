----------------------------- MODULE WorkspaceTab -----------------------------
(***************************************************************************)
(* What a browser tab keeps of the workspace and shows of it.               *)
(*                                                                         *)
(*   frontend/src/App.tsx              the state of App                     *)
(*   frontend/src/layout/MainPane.tsx  the mounted panel                    *)
(*                                                                         *)
(* WorkspaceSync has the requests that bring a workspace into the tab.      *)
(***************************************************************************)
CONSTANTS Actors, Jobs,
          Reviewers, \* actors whose capabilities include the review queue
          None       \* no workspace

VARIABLE tab \* the state of App

\* "open" stands for the panels that everybody may open, "review" for those that
\* a capability of the loaded workspace grants.
Views     == {"chat", "open", "review"}
JobStates == [Jobs -> {"unknown", "active", "done"}]
Copies    == [actor: Actors, jobs: JobStates]
Active(copy) == IF copy = None THEN {} ELSE {j \in Jobs : copy.jobs[j] = "active"}

\* loading: booting or switchingActor.
Tabs == [actor: Actors, loading: BOOLEAN, copy: Copies \cup {None}, view: Views,
         sending: BOOLEAN]

\* resolveView: a view that the workspace on the screen does not grant is the chat.
Granted(copy)  == IF copy.actor \in Reviewers THEN Views ELSE Views \ {"review"}
EffectiveView  == IF tab.view \in Granted(tab.copy) THEN tab.view ELSE "chat"

\* Whatever reply comes late, the workspace in the tab is the current actor's, so
\* a gated panel is only ever shown to an actor who may open it.
OwnWorkspace == tab.copy # None => /\ tab.copy.actor = tab.actor
                                   /\ EffectiveView = "review" => tab.actor \in Reviewers
=============================================================================
