--------------------------- MODULE WorkspaceState ---------------------------
(***************************************************************************)
(* The user's workspace preferences: a store that accepts an update only   *)
(* for the authority and revision it holds (src/vcstudio/gui_web/          *)
(* workspace_state.py), and the windows that edit a copy of it, save it a  *)
(* little later and adopt what others saved (src/vcstudio/gui_web/assets/  *)
(* workspace.js).  A window runs one callback at a time; between a call to *)
(* the store and its answer, the user and its timers go on.                *)
(*                                                                         *)
(* A state of the preferences is the set of the edits it contains.  The    *)
(* store's process lock and file lock make each of its calls one step, and *)
(* its file is replaced atomically.                                        *)
(***************************************************************************)
EXTENDS Naturals, FiniteSets

CONSTANTS
  Windows,       \* pages over one store, of one process or of several
  Edits,         \* what the users change, each once
  Forms,         \* the windows in which a form may hold unsaved input
  BlockedReloads, \* whether a page may be reloaded while its saves are blocked
  MaxTroubles    \* bound: calls without an answer, reloads, removals of the file

VARIABLES
  store,      \* the file: authority_id, revision, preferences
  made,       \* the authority ids handed out, and the edits made
  window,     \* per window, its copy and the state of its saves and refreshes
  troubles    \* bound

vars == <<store, made, window, troubles>>

\* What the constants may be.
ConstantsAssumption ==
  Forms \subseteq Windows /\ MaxTroubles \in Nat /\ BlockedReloads \in BOOLEAN

\* absent: no file.  legacy: a file of three fields, without an authority.
File == [kind : {"absent", "legacy", "current"}, authority : Nat, revision : Nat,
         content : SUBSET Edits]

NoFile == [kind |-> "absent", authority |-> 0, revision |-> 0, content |-> {}]

\* A version of the preferences; authority 0 is none.
Version == [authority : Nat, revision : Nat, content : SUBSET Edits]
NoVersion == [authority |-> 0, revision |-> 0, content |-> {}]

\* sent: the call is on its way.  accepted, conflict, error: its answer is.
SaveStages == {"none", "sent", "accepted", "conflict", "error"}
\* waiting: for the save in flight.
RefreshStages == {"none", "waiting", "sent", "answered"}

\* content: state, as localStorage has it too.  authority, revision: of the version
\* it goes with.  changed: edited since the save in flight was composed.  timer: a
\* timeout will start a save.  dirty: some form has
\* unsaved input.  hold: remoteDirtyHold.  given up: history, a save failed or the
\* page was reloaded since the last edit, and nothing will try again.
Window ==
  [content : SUBSET Edits, authority : Nat, revision : Nat,
   changed : BOOLEAN, timer : BOOLEAN, requested : BOOLEAN, blocked : BOOLEAN,
   save : [stage : SaveStages, version : Version],
   refresh : [stage : RefreshStages, version : Version],
   dirty : BOOLEAN, hold : BOOLEAN, givenUp : BOOLEAN]

NoSave == [stage |-> "none", version |-> NoVersion]
NoRefresh == [stage |-> "none", version |-> NoVersion]

\* A page that was just loaded.
Loaded(content, authority, revision) ==
  [content |-> content, authority |-> authority, revision |-> revision,
   changed |-> FALSE, timer |-> FALSE, requested |-> FALSE, blocked |-> FALSE,
   save |-> NoSave, refresh |-> NoRefresh,
   dirty |-> FALSE, hold |-> FALSE, givenUp |-> FALSE]

TypeOK ==
  /\ store \in File
  /\ made \in [authorities : Nat, edits : SUBSET Edits]
  /\ window \in [Windows -> Window]
  /\ troubles \in Nat

Init ==
  /\ store \in {NoFile, [NoFile EXCEPT !.kind = "legacy", !.revision = 1]}
  /\ made = [authorities |-> 0, edits |-> {}]
  /\ window = [w \in Windows |-> Loaded({}, 0, 0)]
  /\ troubles = 0

-----------------------------------------------------------------------------
(* The store. *)

\* _read_unlocked: what has no authority is given one, a missing file the defaults.
Current ==
  IF store.kind = "current" THEN store
  ELSE IF store.kind = "legacy"
  THEN [store EXCEPT !.kind = "current", !.authority = made.authorities + 1]
  ELSE [NoFile EXCEPT !.kind = "current", !.authority = made.authorities + 1]

\* A new authority is persisted by the call that made it.
Persist(file) ==
  /\ store' = file
  /\ made' = [made EXCEPT !.authorities =
                IF store.kind = "current" THEN @ ELSE made.authorities + 1]

\* Fault: revisions alone are compared.
Matches(version) ==
  /\ version.revision = Current.revision

\* update: authority and revision are those of the file.
Expected(version) ==
  /\ version.authority = Current.authority
  /\ version.revision = Current.revision

\* Somebody removes the file; the store will be rebuilt from the defaults.
Remove ==
  /\ store.kind # "absent"
  /\ troubles < MaxTroubles /\ troubles' = troubles + 1
  /\ store' = NoFile
  /\ UNCHANGED <<made, window>>

-----------------------------------------------------------------------------
(* A window: edits and saves. *)

Set(w, new) == window' = [window EXCEPT ![w] = new]

\* persistLocal: the copy is stored locally, and a save is due in a moment.
Edit(w, e) ==
  /\ e \notin made.edits
  /\ made' = [made EXCEPT !.edits = @ \union {e}]
  /\ Set(w, [window[w] EXCEPT !.content = @ \union {e}, !.changed = TRUE,
                              !.timer = TRUE, !.givenUp = FALSE])
  /\ UNCHANGED <<store, troubles>>

\* The loop of saveRemoteState: the next save is sent while one is requested.
Continue(me) ==
  IF me.requested /\ ~me.blocked
  THEN [me EXCEPT !.requested = FALSE, !.changed = FALSE,
          !.save = [stage |-> "sent", version |->
            [authority |-> me.authority, revision |-> me.revision,
             content |-> me.content]]]
  ELSE [me EXCEPT !.save = NoSave]

\* saveRemoteState.  A save in flight sees the request when it is answered.
TimerFires(w) ==
  LET me == [window[w] EXCEPT !.timer = FALSE, !.requested = TRUE]
  IN /\ window[w].timer
     /\ Set(w, IF me.blocked THEN me
               ELSE IF me.authority = 0 THEN [me EXCEPT !.blocked = TRUE]
               ELSE IF me.save.stage = "none" THEN Continue(me)
               ELSE me)
     /\ UNCHANGED <<store, made, troubles>>

\* The store takes the whole state of the window, or reports a conflict.
Update(w) ==
  LET save == window[w].save
  IN /\ save.stage = "sent"
     /\ IF Expected(save.version)
        THEN /\ Persist([Current EXCEPT !.revision = @ + 1,
                                        !.content = save.version.content])
             /\ Set(w, [window[w] EXCEPT !.save =
                  [stage |-> "accepted", version |->
                     [save.version EXCEPT !.revision = @ + 1, !.content = {}]]])
        ELSE /\ Persist(Current)
             /\ Set(w, [window[w] EXCEPT !.save = [NoSave EXCEPT !.stage = "conflict"]])
     /\ UNCHANGED troubles

\* The lock is busy, the disk is full or the answer is lost, whether or not the
\* update was made.
UpdateFails(w) ==
  /\ window[w].save.stage \in {"sent", "accepted", "conflict"}
  /\ troubles < MaxTroubles /\ troubles' = troubles + 1
  /\ Set(w, [window[w] EXCEPT !.save = [NoSave EXCEPT !.stage = "error"]])
  /\ UNCHANGED <<store, made>>

\* Fault: what was edited while the save was in flight is taken to be saved with it.
AcceptedAll(w) ==
  LET me == window[w]
  IN /\ me.save.stage = "accepted"
     /\ Set(w, IF me.save.version.authority # me.authority
               THEN [me EXCEPT !.blocked = TRUE, !.save = NoSave]
               ELSE [me EXCEPT !.revision = me.save.version.revision, !.blocked = FALSE,
                               !.requested = FALSE, !.save = NoSave])
     /\ UNCHANGED <<store, made, troubles>>

Accepted(w) ==
  LET me == window[w]
  IN /\ me.save.stage = "accepted"
     /\ Set(w, IF me.save.version.authority # me.authority
               THEN [me EXCEPT !.blocked = TRUE, !.save = NoSave]
               ELSE Continue([me EXCEPT !.revision = me.save.version.revision,
                                        !.blocked = FALSE,
                                        !.requested = @ \/ me.changed]))
     /\ UNCHANGED <<store, made, troubles>>

\* The window waits for the newer state.
Conflict(w) ==
  /\ window[w].save.stage = "conflict"
  /\ Set(w, [window[w] EXCEPT !.blocked = TRUE, !.save = NoSave])
  /\ UNCHANGED <<store, made, troubles>>

\* An exception ends the loop, an error answer goes round it: only an edit whose timer
\* has fired since is tried again.
Error(w) ==
  /\ window[w].save.stage = "error"
  /\ \/ Set(w, [window[w] EXCEPT !.save = NoSave, !.givenUp = TRUE])
     \/ Set(w, [Continue(window[w]) EXCEPT !.givenUp = ~window[w].requested])
  /\ UNCHANGED <<store, made, troubles>>

-----------------------------------------------------------------------------
(* A window: refreshes, of which the last one asked for counts. *)

\* refreshWorkspaceContext: after a conflict, when the user comes back, and again and
\* again with the runtime the page polls for (scheduleContextRefresh).  A call that
\* fails is one the next refresh overtakes.
Refresh(w) ==
  /\ Set(w, [window[w] EXCEPT !.refresh =
       [NoRefresh EXCEPT !.stage =
          IF window[w].save.stage = "none" THEN "sent" ELSE "waiting"]])
  /\ UNCHANGED <<store, made, troubles>>

SendRefresh(w) ==
  /\ window[w].refresh.stage = "waiting" /\ window[w].save.stage = "none"
  /\ Set(w, [window[w] EXCEPT !.refresh.stage = "sent"])
  /\ UNCHANGED <<store, made, troubles>>

\* workspace_context.
Read(w) ==
  /\ window[w].refresh.stage = "sent"
  /\ Persist(Current)
  /\ Set(w, [window[w] EXCEPT !.refresh =
       [stage |-> "answered",
        version |-> [authority |-> Current.authority, revision |-> Current.revision,
                     content |-> Current.content]]])
  /\ UNCHANGED troubles

Outdated(me, version) == me.authority = version.authority /\ version.revision < me.revision

\* The newer state replaces the copy.  Unsaved input keeps it, and holds back the
\* saves until it is settled.
Adopt(me, version) ==
  [me EXCEPT !.content = IF me.dirty THEN me.content ELSE version.content,
             !.authority = version.authority, !.revision = version.revision,
             !.requested = FALSE, !.hold = me.dirty, !.blocked = me.dirty]

Refreshed(w) ==
  LET me == [window[w] EXCEPT !.refresh = NoRefresh]
      version == window[w].refresh.version
      newer == me.authority # version.authority \/ me.revision # version.revision
  IN /\ window[w].refresh.stage = "answered"
     /\ Set(w, IF Outdated(me, version) THEN me
               ELSE IF newer \/ me.blocked THEN Adopt(me, version)
               ELSE [me EXCEPT !.blocked = me.hold])
     /\ UNCHANGED <<store, made, troubles>>

-----------------------------------------------------------------------------
(* A window: unsaved input in its forms, and reloads. *)

MarkUnsaved(w) ==
  /\ w \in Forms /\ ~window[w].dirty
  /\ Set(w, [window[w] EXCEPT !.dirty = TRUE])
  /\ UNCHANGED <<store, made, troubles>>

\* resolveRemoteDirtyHold: the saves stay blocked until the refresh.
ClearUnsaved(w) ==
  /\ window[w].dirty
  /\ Set(w, [window[w] EXCEPT !.dirty = FALSE, !.hold = FALSE])
  /\ UNCHANGED <<store, made, troubles>>

\* The page comes back with what persistLocal stored; a call that was on its way has
\* run or never will.
Reload(w) ==
  /\ troubles < MaxTroubles /\ troubles' = troubles + 1
  /\ window[w].blocked => BlockedReloads
  /\ Set(w, [Loaded(window[w].content, window[w].authority, window[w].revision)
               EXCEPT !.givenUp = TRUE])
  /\ UNCHANGED <<store, made>>

-----------------------------------------------------------------------------
\* What a window does without the user.
Proceed(w) ==
  \/ TimerFires(w) \/ Update(w) \/ Accepted(w) \/ Conflict(w) \/ Error(w)
  \/ Refresh(w) \/ SendRefresh(w) \/ Read(w) \/ Refreshed(w)

Next ==
  \/ Remove
  \/ \E w \in Windows :
       \/ \E e \in Edits : Edit(w, e)
       \/ Proceed(w)
       \/ UpdateFails(w)
       \/ MarkUnsaved(w) \/ ClearUnsaved(w) \/ Reload(w)

Spec == Init /\ [][Next]_vars

\* Timeouts fire and calls are answered.  A refresh is not for ever overtaken by the
\* next one: scheduleContextRefresh keeps them apart.  Of the user nothing is assumed.
Fairness ==
  \A w \in Windows :
    /\ WF_vars(TimerFires(w)) /\ WF_vars(Update(w)) /\ WF_vars(Accepted(w))
    /\ WF_vars(Conflict(w)) /\ WF_vars(Error(w)) /\ WF_vars(SendRefresh(w))
    /\ WF_vars(Read(w)) /\ SF_vars(Refreshed(w)) /\ WF_vars(Refresh(w))
FairSpec == Spec /\ Fairness

-----------------------------------------------------------------------------
(* Properties. *)

\* No update that is accepted removes an edit its window never had, however saves,
\* refreshes, reloads and rebuilds of the store interleave (update's CAS on revision
\* and authority; workspace.js: "CAS never pairs a fresh revision with stale UI
\* state").
NothingOverwritten ==
  [][store'.authority = store.authority => store.content \subseteq store'.content]_vars

\* An edit reaches the store, or gives way to a newer state; it is not left behind in
\* a window that has stopped to save (saveRemoteState, refreshWorkspaceContext).
EditsSettle ==
  \A w \in Windows, e \in Edits :
    e \in window[w].content
      ~> \/ e \in store.content \/ e \notin window[w].content
         \/ window[w].givenUp \/ window[w].dirty

=============================================================================
