---------------------------- MODULE ReportPublish ----------------------------
(***************************************************************************)
(* Publication of report revisions (src/vcstudio/project/report_service.py,*)
(* ReportService).  A preview is bound to the revision it builds on and to *)
(* the scientific inputs it shows.  Publishing it renders a bundle of      *)
(* files into a destination directory, which projects may share, and then  *)
(* makes four durable writes in the project: the revision in history.json, *)
(* its journal, the report marker in project.yaml, the revision's status.  *)
(* Any of them may fail, the process may die between them, and whoever     *)
(* reads the status or the history next completes what can be completed.   *)
(*                                                                         *)
(* The history lock of a project is held from the check of the preview to  *)
(* the end, the lock of a destination while its files are written.  Both   *)
(* are the operating system's.  project.yaml is written by others too, who *)
(* take neither.  A project has one lineage of revisions, and revisions of *)
(* one number share a file stem.                                           *)
(***************************************************************************)
EXTENDS Naturals, Sequences

CONSTANTS
  Callers,       \* previews and publications that may be under way together
  Projects, Dests, Contents,
  NoProject, NoFile, NoClaim, NoEntry, NoMarker, NoCopy, Foreign,
  MaxSeq,        \* bound: revisions of a project
  MaxFaults,     \* bound: crashes and failing writes
  MaxStrangers   \* bound: edits of projects, changes of inputs or files by others

Seqs == 1 .. MaxSeq

ASSUME BoundsAssumption ==
  /\ MaxSeq \in Nat \ {0} /\ MaxFaults \in Nat /\ MaxStrangers \in Nat
ASSUME NamesAssumption ==
  /\ NoProject \notin Projects /\ Foreign \notin Projects
  /\ NoMarker \notin [seq : Seqs, content : Contents, dest : Dests]
  /\ NoCopy \notin [marker : [seq : Seqs, content : Contents, dest : Dests] \union {NoMarker},
                    edits : Nat]

VARIABLES
  inputs,       \* the scientific inputs of each project, by what they amount to
  project,      \* each project.yaml: the report marker and the edits of others
  history,      \* each history.json: the revisions
  journal,      \* each project's revision journals
  dest,         \* each destination: files and reservations by revision number, and
                \* how much else lies there (temporary and asset files)
  call,         \* each caller: its preview and its publication
  copy,         \* what another writer of project.yaml has loaded
  recorded,     \* the bundles a marker has named, for the properties
  faults, strangers

vars == <<inputs, project, history, journal, dest, call, copy, recorded, faults,
          strangers>>

Bundle == [seq : Seqs, content : Contents, dest : Dests]
Project == [marker : Bundle \union {NoMarker}, edits : Nat]
Entry == [content : Contents, dest : Dests, status : {"unrecorded", "ready"}]
Stages == {"prepared", "failed", "marked", "complete"}

\* The files of one stem in a destination: whose they are, and whether the manifest
\* and every file it names are there.
File == [owner : Projects \union {Foreign}, content : Contents, intact : BOOLEAN]

\* A reservation remembers what else there was when it was made.
Claim == [state : {"reserved", "clean", "partial", "committed"},
          owner : Projects, content : Contents,
          baseline : [files : [Seqs -> File \union {NoFile}], other : Nat]]
Dest == [files : [Seqs -> File \union {NoFile}], other : Nat,
         claims : [Seqs -> Claim \union {NoClaim}]]

ASSUME NothingAssumption ==
  NoFile \notin File /\ NoClaim \notin Claim /\ NoEntry \notin Stages

Places == {"idle", "preview", "reserve", "stage", "commit", "entry", "journal", "load",
           "save", "marked", "ready", "complete"}
NoCall == [pc |-> "idle", project |-> NoProject, base |-> 0, content |-> NoEntry,
           dest |-> NoEntry, loaded |-> NoCopy]

TypeOK ==
  /\ inputs \in [Projects -> Contents]
  /\ project \in [Projects -> Project]
  /\ history \in [Projects -> Seq(Entry)] /\ \A p \in Projects : Len(history[p]) <= MaxSeq
  /\ journal \in [Projects -> [Seqs -> Stages \union {NoEntry}]]
  /\ dest \in [Dests -> Dest]
  /\ call \in [Callers ->
       [pc : Places, project : Projects \union {NoProject}, base : 0 .. MaxSeq,
        content : Contents \union {NoEntry}, dest : Dests \union {NoEntry},
        loaded : Project \union {NoCopy}]]
  /\ copy \in [Projects -> Project \union {NoCopy}]
  /\ recorded \in [Projects -> SUBSET Bundle]
  /\ faults \in Nat /\ strangers \in Nat

\* A destination may hold a report that somebody else put there.
Init ==
  /\ inputs \in [Projects -> Contents]
  /\ project = [p \in Projects |-> [marker |-> NoMarker, edits |-> 0]]
  /\ history = [p \in Projects |-> <<>>]
  /\ journal = [p \in Projects |-> [n \in Seqs |-> NoEntry]]
  /\ \E f \in [Seqs -> {NoFile} \union
                [owner : {Foreign}, content : Contents, intact : {TRUE}]] :
       dest = [d \in Dests |->
                 [files |-> f, other |-> 0, claims |-> [n \in Seqs |-> NoClaim]]]
  /\ call = [c \in Callers |-> NoCall]
  /\ copy = [p \in Projects |-> NoCopy]
  /\ recorded = [p \in Projects |-> {}]
  /\ faults = 0 /\ strangers = 0

At(c, place) == call[c].pc = place
Goto(c, place) == call' = [call EXCEPT ![c].pc = place]
End(c) == call' = [call EXCEPT ![c] = NoCall]

\* Back to the preview, which a failed publication keeps.
Keep(c) ==
  call' = [call EXCEPT ![c] = [@ EXCEPT !.pc = "preview", !.dest = NoEntry,
                                        !.loaded = NoCopy]]

Fault == faults < MaxFaults /\ faults' = faults + 1

InHistory == {"reserve", "stage", "commit", "entry", "journal", "load", "save", "marked",
              "ready", "complete"}
InDest == {"stage", "commit"}

HistoryFree(p) == \A c \in Callers : call[c].project = p => call[c].pc \notin InHistory
DestFree(d) == \A c \in Callers : call[c].dest = d => call[c].pc \notin InDest

Number(c) == call[c].base + 1
BundleOf(c) == [seq |-> Number(c), content |-> call[c].content, dest |-> call[c].dest]
BundleAt(p, n) ==
  [seq |-> n, content |-> history[p][n].content, dest |-> history[p][n].dest]

-----------------------------------------------------------------------------
(* What a reader completes: _reconcile_history_locked. *)

Intact(p, b) ==
  dest[b.dest].files[b.seq] = [owner |-> p, content |-> b.content, intact |-> TRUE]

\* The marker is current: its files are as they were and the inputs are the same.
Current(p) ==
  /\ project[p].marker # NoMarker
  /\ Intact(p, project[p].marker)
  /\ project[p].marker.content = inputs[p]

\* Fault: the journal alone is believed.
CompletableByJournal(p, n) ==
  /\ journal[p][n] \in {"prepared", "marked", "complete"}
  /\ Intact(p, BundleAt(p, n))

\* The journal tells what was intended, the marker that it was done.
Completable(p, n) ==
  /\ journal[p][n] \in {"prepared", "marked", "complete"}
  /\ Current(p) /\ project[p].marker = BundleAt(p, n)

ReconciledHistory(p) ==
  [n \in 1 .. Len(history[p]) |->
    [history[p][n] EXCEPT !.status = IF Completable(p, n) THEN "ready" ELSE @]]

\* The journal is completed after the history; its write may fail.
ReconciledJournal(p) ==
  [n \in Seqs |->
    IF n \in 1 .. Len(history[p]) /\ Completable(p, n) THEN "complete" ELSE journal[p][n]]

\* Fault: the journal is completed, the history is not.
ReconcileJournalOnly(p) ==
  /\ journal' = [journal EXCEPT ![p] = ReconciledJournal(p)]
  /\ UNCHANGED <<history, faults>>

Reconcile(p) ==
  /\ history' = [history EXCEPT ![p] = ReconciledHistory(p)]
  /\ \/ /\ journal' = [journal EXCEPT ![p] = ReconciledJournal(p)]
        /\ UNCHANGED faults
     \/ Fault /\ UNCHANGED journal

\* status, history, bootstrap.
Read(p) ==
  /\ HistoryFree(p) /\ history[p] # <<>>
  /\ Reconcile(p)
  /\ UNCHANGED <<inputs, project, dest, call, copy, recorded, strangers>>

-----------------------------------------------------------------------------
(* Preview and publication. *)

\* Without a history the lock is not taken.
Preview(c, p) ==
  /\ call[c].pc \in {"idle", "preview"}
  /\ IF history[p] = <<>> THEN UNCHANGED <<history, journal, faults>>
     ELSE HistoryFree(p) /\ Reconcile(p)
  /\ call' = [call EXCEPT ![c] =
       [NoCall EXCEPT !.pc = "preview", !.project = p, !.base = Len(history[p]),
                      !.content = inputs[p]]]
  /\ UNCHANGED <<inputs, project, dest, copy, recorded, strangers>>

\* The preview expires, is evicted or is given up.
Drop(c) ==
  /\ At(c, "preview") /\ End(c)
  /\ UNCHANGED <<inputs, project, history, journal, dest, copy, recorded, faults, strangers>>

\* The inputs are compared before the lock is taken and again under it, the revision
\* only under it.
Publish(c, d) ==
  LET p == call[c].project
  IN /\ At(c, "preview")
     /\ HistoryFree(p)
     /\ call[c].content = inputs[p] /\ call[c].base = Len(history[p])
     /\ call[c].base < MaxSeq
     /\ Reconcile(p)
     /\ call' = [call EXCEPT ![c].pc = "reserve", ![c].dest = d]
     /\ UNCHANGED <<inputs, project, dest, copy, recorded, strangers>>

\* A refused publication: the preview is stale, or another revision came first.
Refuse(c) ==
  LET p == call[c].project
  IN /\ At(c, "preview")
     /\ HistoryFree(p)
     /\ call[c].content # inputs[p] \/ call[c].base # Len(history[p])
     /\ Reconcile(p)
     /\ End(c)
     /\ UNCHANGED <<inputs, project, dest, copy, recorded, strangers>>

\* What is hashed of a destination: everything but locks and reservations.
Snapshot(d) == [files |-> dest[d].files, other |-> dest[d].other]

Collides(d, n) == dest[d].files[n] # NoFile

\* A reservation of the same revision that left nothing behind.
Reclaimable(c) ==
  LET claim == dest[call[c].dest].claims[Number(c)]
  IN /\ claim.state \in {"reserved", "clean"}
     /\ claim.owner = call[c].project /\ claim.content = call[c].content
     /\ claim.baseline = Snapshot(call[c].dest)

Reserved(c) ==
  LET d == call[c].dest
      claim == [state |-> "reserved", owner |-> call[c].project,
                content |-> call[c].content, baseline |-> Snapshot(d)]
  IN dest' = [dest EXCEPT ![d].claims[Number(c)] = claim]

\* Fault: only reservations are looked at.
ReserveUnclaimed(c) ==
  LET d == call[c].dest
      n == Number(c)
  IN /\ At(c, "reserve") /\ DestFree(d)
     /\ IF dest[d].claims[n] = NoClaim \/ Reclaimable(c)
        THEN Reserved(c) /\ Goto(c, "stage")
        ELSE Keep(c) /\ UNCHANGED dest
     /\ UNCHANGED <<inputs, project, history, journal, copy, recorded, faults, strangers>>

Reserve(c) ==
  LET d == call[c].dest
      n == Number(c)
  IN /\ At(c, "reserve") /\ DestFree(d)
     /\ IF /\ ~Collides(d, n)
           /\ dest[d].claims[n] = NoClaim \/ Reclaimable(c)
        THEN Reserved(c) /\ Goto(c, "stage")
        ELSE Keep(c) /\ UNCHANGED dest
     /\ UNCHANGED <<inputs, project, history, journal, copy, recorded, faults, strangers>>

\* render_report_bundle: everything is built in a temporary directory of the destination.
Stage(c) ==
  /\ At(c, "stage")
  /\ dest' = [dest EXCEPT ![call[c].dest].other = @ + 1]
  /\ Goto(c, "commit")
  /\ UNCHANGED <<inputs, project, history, journal, copy, recorded, faults, strangers>>

\* The files are put in place, manifest last; the temporary directory goes.  The mark on
\* the reservation may fail.
Commit(c) ==
  LET d == call[c].dest
      n == Number(c)
      file == [owner |-> call[c].project, content |-> call[c].content, intact |-> TRUE]
      placed(state) == [dest EXCEPT ![d] =
        [files |-> [@.files EXCEPT ![n] = file], other |-> @.other - 1,
         claims |-> [@.claims EXCEPT ![n].state = state]]]
  IN /\ At(c, "commit")
     /\ \/ dest' = placed("committed") /\ UNCHANGED faults
        \/ dest' = placed("reserved") /\ Fault
     /\ Goto(c, "entry")
     /\ UNCHANGED <<inputs, project, history, journal, copy, recorded, strangers>>

\* A rendering that fails is rolled back, but for asset files it may have added.
RenderFails(c) ==
  LET d == call[c].dest
      n == Number(c)
  IN /\ At(c, "commit")
     /\ Fault
     /\ \/ dest' = [dest EXCEPT ![d].other = @ - 1, ![d].claims[n].state = "clean"]
        \/ dest' = [dest EXCEPT ![d].claims[n].state = "partial"]
     /\ Keep(c)
     /\ UNCHANGED <<inputs, project, history, journal, copy, recorded, strangers>>

\* The revision enters the history before anything claims it.
WriteEntry(c) ==
  LET p == call[c].project
  IN /\ At(c, "entry")
     /\ history' = [history EXCEPT ![p] = Append(@,
          [content |-> call[c].content, dest |-> call[c].dest, status |-> "unrecorded"])]
     /\ Goto(c, "journal")
     /\ UNCHANGED <<inputs, project, journal, dest, copy, recorded, faults, strangers>>

WriteJournal(c) ==
  /\ At(c, "journal")
  /\ journal' = [journal EXCEPT ![call[c].project][Number(c)] = "prepared"]
  /\ Goto(c, "load")
  /\ UNCHANGED <<inputs, project, history, dest, copy, recorded, faults, strangers>>

\* _persist_report_marker: the project is loaded again and compared with the preview.
LoadProject(c) ==
  LET p == call[c].project
  IN /\ At(c, "load")
     /\ inputs[p] = call[c].content /\ Intact(p, BundleOf(c))
     /\ call' = [call EXCEPT ![c].pc = "save", ![c].loaded = project[p]]
     /\ UNCHANGED <<inputs, project, history, journal, dest, copy, recorded, faults,
                    strangers>>

\* The whole project is written, as it was loaded but for the marker.
SaveMarker(c) ==
  LET p == call[c].project
  IN /\ At(c, "save")
     /\ project' = [project EXCEPT ![p] = [call[c].loaded EXCEPT !.marker = BundleOf(c)]]
     /\ recorded' = [recorded EXCEPT ![p] = @ \union {BundleOf(c)}]
     /\ call' = [call EXCEPT ![c].pc = "marked", ![c].loaded = NoCopy]
     /\ UNCHANGED <<inputs, history, journal, dest, copy, faults, strangers>>

\* The marker is refused, or cannot be written; the journal says so, if it can be written.
MarkerFails(c) ==
  LET p == call[c].project
      failed == [journal EXCEPT ![p][Number(c)] = "failed"]
  IN /\ \/ /\ At(c, "load") /\ ~(inputs[p] = call[c].content /\ Intact(p, BundleOf(c)))
           /\ UNCHANGED faults
        \/ call[c].pc \in {"load", "save"} /\ Fault
     /\ journal' \in {journal, failed}
     /\ Keep(c)
     /\ UNCHANGED <<inputs, project, history, dest, copy, recorded, strangers>>

\* A failure to write this is ignored.
MarkJournal(c) ==
  /\ At(c, "marked")
  /\ \/ /\ journal' = [journal EXCEPT ![call[c].project][Number(c)] = "marked"]
        /\ UNCHANGED faults
     \/ Fault /\ UNCHANGED journal
  /\ Goto(c, "ready")
  /\ UNCHANGED <<inputs, project, history, dest, copy, recorded, strangers>>

WriteReady(c) ==
  LET p == call[c].project
  IN /\ At(c, "ready")
     /\ history' = [history EXCEPT ![p][Number(c)].status = "ready"]
     /\ Goto(c, "complete")
     /\ UNCHANGED <<inputs, project, journal, dest, copy, recorded, faults, strangers>>

\* The preview has served its purpose.
Complete(c) ==
  /\ At(c, "complete")
  /\ \/ /\ journal' = [journal EXCEPT ![call[c].project][Number(c)] = "complete"]
        /\ UNCHANGED faults
     \/ Fault /\ UNCHANGED journal
  /\ End(c)
  /\ UNCHANGED <<inputs, project, history, dest, copy, recorded, strangers>>

\* A write of the history or of the first journal fails: what is there stays there, and
\* the caller is told that it is not recorded.  After the marker the journal is tried again.
WriteFails(c) ==
  /\ call[c].pc \in {"entry", "journal", "ready"}
  /\ Fault
  /\ IF At(c, "ready")
     THEN journal' \in {journal, [journal EXCEPT ![call[c].project][Number(c)] = "marked"]}
     ELSE UNCHANGED journal
  /\ Keep(c)
  /\ UNCHANGED <<inputs, project, history, dest, copy, recorded, strangers>>

\* The process dies, perhaps in the middle of putting files in place.
Crash(c) ==
  LET d == call[c].dest
      file == [owner |-> call[c].project, content |-> call[c].content, intact |-> FALSE]
  IN /\ call[c].pc \in InHistory
     /\ Fault
     /\ \/ UNCHANGED dest
        \/ At(c, "commit") /\ dest' = [dest EXCEPT ![d].files[Number(c)] = file]
     /\ End(c)
     /\ UNCHANGED <<inputs, project, history, journal, copy, recorded, strangers>>

-----------------------------------------------------------------------------
(* Everybody else. *)

Stranger == strangers < MaxStrangers /\ strangers' = strangers + 1

ChangeInputs(p) ==
  /\ Stranger
  /\ \E content \in Contents \ {inputs[p]} : inputs' = [inputs EXCEPT ![p] = content]
  /\ UNCHANGED <<project, history, journal, dest, call, copy, recorded, faults>>

\* A file of a bundle is changed or removed, or something is added to the directory.
TouchDest(d) ==
  /\ Stranger
  /\ \/ \E n \in Seqs :
          /\ dest[d].files[n] # NoFile /\ dest[d].files[n].intact
          /\ dest' = [dest EXCEPT ![d].files[n].intact = FALSE]
     \/ dest' = [dest EXCEPT ![d].other = @ + 1]
  /\ UNCHANGED <<inputs, project, history, journal, call, copy, recorded, faults>>

\* proj_submit_all and others load a project, work, and save it as a whole.
LoadEdit(p) ==
  /\ Stranger
  /\ copy[p] = NoCopy
  /\ copy' = [copy EXCEPT ![p] = project[p]]
  /\ UNCHANGED <<inputs, project, history, journal, dest, call, recorded, faults>>

SaveEdit(p) ==
  /\ copy[p] # NoCopy
  /\ project' = [project EXCEPT ![p] = [copy[p] EXCEPT !.edits = @ + 1]]
  /\ copy' = [copy EXCEPT ![p] = NoCopy]
  /\ UNCHANGED <<inputs, history, journal, dest, call, recorded, faults, strangers>>

-----------------------------------------------------------------------------
Proceed(c) ==
  \/ Reserve(c) \/ Stage(c) \/ Commit(c) \/ WriteEntry(c) \/ WriteJournal(c)
  \/ LoadProject(c) \/ SaveMarker(c) \/ MarkerFails(c) \/ MarkJournal(c)
  \/ WriteReady(c) \/ Complete(c)

Trouble(c) == RenderFails(c) \/ WriteFails(c) \/ Crash(c)

Interfere ==
  \/ \E p \in Projects : ChangeInputs(p) \/ LoadEdit(p) \/ SaveEdit(p)
  \/ \E d \in Dests : TouchDest(d)

Next ==
  \/ \E c \in Callers, p \in Projects : Preview(c, p)
  \/ \E c \in Callers, d \in Dests : Publish(c, d)
  \/ \E c \in Callers : Refuse(c) \/ Drop(c) \/ Proceed(c) \/ Trouble(c)
  \/ \E p \in Projects : Read(p)
  \/ Interfere

Spec == Init /\ [][Next]_vars

\* A publication under way goes on, and the status is read again and again.
Fairness ==
  /\ \A c \in Callers : WF_vars(Proceed(c))
  /\ \A p \in Projects : WF_vars(Read(p))
FairSpec == Spec /\ Fairness

-----------------------------------------------------------------------------
(* Properties. *)

Revisions(p) == 1 .. Len(history[p])

\* A revision is presented as ready only if project.yaml has named exactly its bundle at
\* some time, whoever completed the history and after whatever crash.
ReadyWasRecorded ==
  \A p \in Projects : \A n \in Revisions(p) :
    history[p][n].status = "ready" => BundleAt(p, n) \in recorded[p]

\* A publication never writes over files of its stem that are already in a destination,
\* of another project, of an earlier attempt or of somebody else.
BundlesAreKept ==
  [][\A d \in Dests, n \in Seqs : dest[d].files[n] # NoFile =>
       /\ dest'[d].files[n] # NoFile
       /\ dest'[d].files[n].owner = dest[d].files[n].owner
       /\ dest'[d].files[n].content = dest[d].files[n].content]_vars

\* A publication that was interrupted after its marker becomes ready, unless the
\* marker stops being current first.
MarkedBecomesReady ==
  \A p \in Projects, n \in Seqs :
    (Current(p) /\ project[p].marker.seq = n)
      ~> (~(Current(p) /\ project[p].marker.seq = n) \/ history[p][n].status = "ready")

-----------------------------------------------------------------------------
(* The inductive invariant. *)

HasEntry == {"journal", "load", "save", "marked", "ready", "complete"}

\* The locks exclude.
OneAtATime ==
  \A c, k \in Callers : c # k =>
    /\ call[c].pc \in InHistory /\ call[k].pc \in InHistory =>
         call[c].project # call[k].project
    /\ call[c].pc \in InDest /\ call[k].pc \in InDest => call[c].dest # call[k].dest

Named(p, n) == \E b \in recorded[p] : b.seq = n

\* How far a publication has got; it owns the stem it writes.
Progress(c) ==
  LET p == call[c].project
      n == Number(c)
  IN /\ call[c].pc # "idle" => p \in Projects /\ call[c].content \in Contents
     /\ call[c].pc \in InHistory => call[c].dest \in Dests /\ call[c].base < MaxSeq
     /\ call[c].pc \in InHistory \ HasEntry => call[c].base = Len(history[p])
     /\ call[c].pc \in HasEntry => Len(history[p]) = n /\ BundleAt(p, n) = BundleOf(c)
     /\ call[c].pc \in InDest =>
          dest[call[c].dest].files[n] = NoFile /\ dest[call[c].dest].claims[n] # NoClaim
     /\ call[c].pc = "commit" => dest[call[c].dest].other > 0
     /\ call[c].pc = "journal" => journal[p][n] = NoEntry
     /\ call[c].pc \in {"load", "save"} => journal[p][n] = "prepared" /\ ~Named(p, n)
     /\ call[c].pc = "save" =>
          call[c].loaded # NoCopy /\ call[c].loaded.marker \in recorded[p] \union {NoMarker}
     /\ call[c].pc \in {"marked", "ready", "complete"} => BundleOf(c) \in recorded[p]
     /\ call[c].pc = "complete" => history[p][n].status = "ready"

\* What the marker has named is in the history, and its journal can complete it; the
\* journal does not claim more than there is; no copy of project.yaml names another bundle.
ProjectInv(p) ==
  /\ \A b \in recorded[p] :
       /\ b.seq \in Revisions(p) /\ b = BundleAt(p, b.seq)
       /\ journal[p][b.seq] \in {"prepared", "marked", "complete"}
  /\ \A n \in Seqs :
       /\ journal[p][n] # NoEntry => n \in Revisions(p)
       /\ journal[p][n] = "marked" => BundleAt(p, n) \in recorded[p]
       /\ journal[p][n] = "complete" => history[p][n].status = "ready"
  /\ \A n \in Revisions(p) : history[p][n].status = "ready" => BundleAt(p, n) \in recorded[p]
  /\ project[p].marker \in recorded[p] \union {NoMarker}
  /\ copy[p] # NoCopy => copy[p].marker \in recorded[p] \union {NoMarker}

PInv ==
  /\ TypeOK /\ OneAtATime
  /\ \A c \in Callers : Progress(c)
  /\ \A p \in Projects : ProjectInv(p)
=============================================================================
