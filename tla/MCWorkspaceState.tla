-------------------------- MODULE MCWorkspaceState --------------------------
(* Small instances of WorkspaceState for TLC.  A behaviour is either quiet,  *)
(* and then its edits must settle, or one in which forms hold unsaved input, *)
(* calls fail, pages are reloaded and the file is removed.                   *)
EXTENDS Naturals, FiniteSets

CONSTANTS
  Windows, Edits, Forms, BlockedReloads, MaxTroubles,
  First     \* the edits are interchangeable: some edit is the first

VARIABLES store, made, window, troubles, quiet

S == INSTANCE WorkspaceState

ASSUME WorkspaceAssumptions == S!ConstantsAssumption

everything == <<store, made, window, troubles, quiet>>

MCInit == S!Init /\ quiet \in BOOLEAN

MCNext ==
  /\ S!Next
  /\ UNCHANGED quiet
  /\ made'.edits = {} \/ First \in made'.edits
  /\ quiet => troubles' = 0 /\ \A w \in Windows : ~window'[w].dirty

\* The fairness of FairSpec, of quiet behaviours only.
Quietly(A) == quiet /\ A /\ UNCHANGED quiet

MCFairness ==
  \A w \in Windows :
    /\ WF_everything(Quietly(S!TimerFires(w)))
    /\ WF_everything(Quietly(S!Update(w)))
    /\ WF_everything(Quietly(S!Accepted(w)))
    /\ WF_everything(Quietly(S!Conflict(w)))
    /\ WF_everything(Quietly(S!Error(w)))
    /\ WF_everything(Quietly(S!SendRefresh(w)))
    /\ WF_everything(Quietly(S!Read(w)))
    /\ WF_everything(Quietly(S!Refresh(w)))
    /\ SF_everything(Quietly(S!Refreshed(w)))

MCSpec == MCInit /\ [][MCNext]_everything /\ MCFairness

\* WorkspaceState's NothingOverwritten: no update that is accepted removes an edit its
\* window never had (workspace_state.py update; workspace.js saveRemoteState,
\* refreshWorkspaceContext).
NothingOverwritten == S!NothingOverwritten

\* EditsSettle, of quiet behaviours: an edit of a window reaches the store or gives
\* way to a newer state, and is not left behind (workspace.js saveRemoteState,
\* refreshWorkspaceContext).
QuietEditsSettle == quiet => S!EditsSettle

=============================================================================
