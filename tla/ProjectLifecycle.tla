-------------------------- MODULE ProjectLifecycle --------------------------
(***************************************************************************)
(* Clone, move and adopt of a project directory as one transaction over    *)
(* the directory, the project registry (projects.json) and the job ledger  *)
(* (jobs.json), with the recovery journal that finishes or undoes it       *)
(* (src/vcstudio/project/project_lifecycle.py).                            *)
(*                                                                         *)
(* Services are processes that share the three files and take one          *)
(* exclusive lock per transaction.  Everybody else works on the same files *)
(* without that lock: the user edits project.yaml and job.yaml and creates *)
(* folders, register_project reads and rewrites the registry, and other    *)
(* parts of the program register job directories in the ledger.            *)
(*                                                                         *)
(* One project with one job inside it is at "source" and may be brought to *)
(* "destination"; both names also stand for its entries in the registry    *)
(* and in the ledger.                                                      *)
(***************************************************************************)
EXTENDS Naturals, JobLedger

CONSTANTS
  Services,      \* processes with a ProjectLifecycleService
  Nobody,
  None,          \* no plan, no journal
  Failing,       \* the steps at which an I/O error may occur
  Outsiders,     \* who else acts: "user", "registry", "jobs"
  MaxTroubles    \* bound: failures, crashes and acts of others

VARIABLES
  tree,       \* what is on disk at each place
  registry,   \* projects.json: registered project locations
  ledger,     \* jobs.json
  journal,    \* project-lifecycle-journal.json
  lock,       \* the holder of the lifecycle lock file
  service,    \* per process, its call
  clerk,      \* a register_project or unregister_project call
  begun,      \* transactions begun so far
  troubles,   \* failures, crashes and acts of others so far
  raced,      \* history: a registry write overwrote one its writer had not seen
  touched     \* history: ledger entries that others changed

files == <<tree, registry, ledger, journal>>
others == <<clerk, raced, touched>>
vars == <<files, lock, service, begun, troubles, others>>

-----------------------------------------------------------------------------
(* Data. *)

Places == {"source", "stage", "destination"}

\* text: which edition of the user's; by: the transaction that last rewrote the
\* locators or the identity in it.
Content  == [text : Nat, by : Nat]
Original == [text |-> 0, by |-> 0]

Rewritten(c, t) == [c EXCEPT !.by = t]

\* mark: the owner file of a transaction.
Tree == [kind : {"none", "partial", "whole", "foreign"}, project : Content,
         job : Content, mark : Lifecycles \union {NoOwner}]
Nothing == [kind |-> "none", project |-> Original, job |-> Original,
            mark |-> NoOwner]
Partial(mark) == [Nothing EXCEPT !.kind = "partial", !.mark = mark]
Foreign == [Nothing EXCEPT !.kind = "foreign"]
Project == [Nothing EXCEPT !.kind = "whole"]

Actions == {"clone", "move", "adopt"}
Plan == [action : Actions, registry : SUBSET Entries, ledger : Ledger,
         project : Content, job : Content]

\* written: files this transaction announced it would rewrite; projection: the
\* registry it announced, {} before it did.
Statuses == {"prepared", "filesystem", "registry", "ledger", "committed"}
Record == [txn : Lifecycles, action : Actions, status : Statuses,
           project : Content, job : Content, written : SUBSET {"project", "job"},
           registry : SUBSET Entries, projection : SUBSET Entries]

\* Assumed of the constants by whoever instantiates this module; Lifecycles bounds begun.
ConstantsAssumption ==
  /\ OwnersAreDistinct
  /\ {"source", "destination", "elsewhere"} \subseteq Entries /\ Lifecycles \subseteq Nat
  /\ Nobody \notin Services /\ None \notin Plan \union Record /\ MaxTroubles \in Nat

Forward == {"begin", "copy", "fill", "out", "mark", "inspect", "rewrite",
            "rewriteJob", "publish", "projectRegistry", "checkRegistry",
            "writeRegistry", "projectLedger", "merge", "commit"}
Cleanup == {"release", "unmark", "forget"}
UndoTree == {"undo", "removing", "restore", "back", "authority",
             "restoreProject", "undoJob", "restoreJob"}
UndoRest == {"undoLedger", "readRegistry", "restoreRegistry", "finish"}

\* how: a call that applies its plan, one whose plan failed, or a recovery;
\* current: project.yaml of a moved tree as the recovery compared it.
Call == [pc : Forward \union Cleanup \union UndoTree \union UndoRest \union {"idle"},
         how : {"apply", "failing", "recover"}, plan : Plan \union {None},
         rec : Record \union {None}, owned : Places \union {"nowhere"},
         current : Content,
         failed : BOOLEAN, seen : SUBSET Entries,
         said : {"nothing", "refused", "done", "failed", "partial",
                 "finalized", "rolled back"}]
NoCall == [pc |-> "idle", how |-> "apply", plan |-> None, rec |-> None,
           owned |-> "nowhere", current |-> Original, failed |-> FALSE,
           seen |-> {}, said |-> "nothing"]

Clerk == [busy : BOOLEAN, seen : SUBSET Entries]
NoClerk == [busy |-> FALSE, seen |-> {}]

TypeOK ==
  /\ tree \in [Places -> Tree]
  /\ registry \in SUBSET Entries
  /\ ledger \in Ledger
  /\ journal \in Record \union {None}
  /\ lock \in Services \union {Nobody}
  /\ service \in [Services -> Call]
  /\ clerk \in Clerk
  /\ begun \in Nat
  /\ troubles \in Nat
  /\ raced \in BOOLEAN
  /\ touched \in SUBSET Entries

\* A project and its job, each known to its registry or not yet.
Init ==
  /\ tree = [p \in Places |-> IF p = "source" THEN Project ELSE Nothing]
  /\ registry \in SUBSET {"source"}
  /\ \E jobs \in SUBSET {"source"} : ledger = LedgerOf(jobs)
  /\ journal = None
  /\ lock = Nobody
  /\ service = [s \in Services |-> NoCall]
  /\ clerk = NoClerk
  /\ begun = 0
  /\ troubles = 0
  /\ raced = FALSE
  /\ touched = {}

-----------------------------------------------------------------------------
(* What a step of service s knows. *)

At(s, pc) == service[s].pc = pc
Action(s) == service[s].plan.action
Rec(s) == service[s].rec
Txn(s) == service[s].rec.txn

Goto(s, pc) == service' = [service EXCEPT ![s].pc = pc]

\* The call returns and says so; the lock goes with it.
Return(s, said) ==
  /\ service' = [service EXCEPT ![s] =
       [NoCall EXCEPT !.said = said]]
  /\ lock' = Nobody

\* An exception in apply(): undo by the record in memory.
Undo(s) == service' = [service EXCEPT ![s].pc = "undo", ![s].how = "failing"]

\* An exception while the directory is undone: remember it, go on.
Skip(s, pc) == service' = [service EXCEPT ![s].failed = TRUE, ![s].pc = pc]

Journal(s, rec, pc) ==
  /\ journal' = rec
  /\ service' = [service EXCEPT ![s].rec = rec, ![s].pc = pc]

\* The plan's own source: project.yaml and job.yaml as they were planned.
AsPlanned(place, plan) ==
  /\ tree[place].kind = "whole"
  /\ tree[place].project = plan.project
  /\ tree[place].job = plan.job

Renamed(from, to) == [tree EXCEPT ![to] = tree[from], ![from] = Nothing]

-----------------------------------------------------------------------------
(* Preflight and the start of apply().  Both take the lock, and both first   *)
(* recover a journal that is there: that is BeginRecovery, a call of its own. *)

Idle(s) == At(s, "idle") /\ lock = Nobody

\* _build_plan without conflicts; a plan with conflicts is never applied.
Plannable(action) ==
  /\ tree["source"].kind = "whole"
  /\ IF action = "adopt" THEN "source" \notin registry
     ELSE /\ "source" \in registry
          /\ tree["destination"].kind = "none"
          /\ "destination" \notin registry \union ledger.dirs

Preflight(s, action) ==
  /\ Idle(s) /\ journal = None
  /\ service[s].plan = None
  /\ Plannable(action)
  /\ service' = [service EXCEPT ![s].plan =
       [action |-> action, registry |-> registry, ledger |-> ledger,
        project |-> tree["source"].project, job |-> tree["source"].job]]
  /\ UNCHANGED <<files, lock, begun, troubles, others>>

\* _verify_plan.
Fresh(plan) ==
  /\ AsPlanned("source", plan)
  /\ registry = plan.registry
  /\ ledger = plan.ledger

Apply(s) ==
  /\ Idle(s) /\ journal = None
  /\ service[s].plan # None
  /\ begun + 1 \in Lifecycles
  /\ IF Fresh(service[s].plan)
     THEN lock' = s /\ Goto(s, "begin")
     ELSE Return(s, "refused")
  /\ UNCHANGED <<files, begun, troubles, others>>

\* _journal_begin: the record is durable before the first effect.
Begin(s) ==
  LET rec == [txn |-> begun + 1, action |-> Action(s), status |-> "prepared",
              project |-> tree["source"].project, job |-> tree["source"].job,
              written |-> {}, registry |-> registry, projection |-> {}]
      first == [clone |-> "copy", move |-> "out", adopt |-> "inspect"][Action(s)]
  IN /\ At(s, "begin")
     /\ IF /\ tree["source"].project = service[s].plan.project
           /\ Action(s) # "adopt" => tree["destination"].kind = "none"
        THEN Journal(s, rec, first) /\ begun' = begun + 1 /\ UNCHANGED lock
        ELSE Return(s, "refused") /\ UNCHANGED <<journal, begun>>
     /\ UNCHANGED <<tree, registry, ledger, troubles, others>>

-----------------------------------------------------------------------------
(* The directory.  The stage has a name of its own beside the destination;   *)
(* nobody else touches it.                                                   *)

\* shutil.copytree: a copy that is not complete yet.
Copy(s) ==
  /\ At(s, "copy")
  /\ tree' = [tree EXCEPT !["stage"] = Partial(NoOwner)]
  /\ Goto(s, "fill")
  /\ UNCHANGED <<registry, ledger, journal, lock, begun, troubles, others>>

\* The copy is complete, marked, compared with the plan and rewritten.
Fill(s) ==
  /\ At(s, "fill")
  /\ IF AsPlanned("source", service[s].plan)
     THEN /\ tree' = [tree EXCEPT !["stage"] =
                [kind |-> "whole", mark |-> Txn(s),
                 project |-> Rewritten(service[s].plan.project, Txn(s)),
                 job |-> Rewritten(service[s].plan.job, Txn(s))]]
          /\ Goto(s, "publish")
     ELSE Undo(s) /\ UNCHANGED tree
  /\ UNCHANGED <<registry, ledger, journal, lock, begun, troubles, others>>

MoveOut(s) ==
  /\ At(s, "out")
  /\ tree' = Renamed("source", "stage")
  /\ Goto(s, "mark")
  /\ UNCHANGED <<registry, ledger, journal, lock, begun, troubles, others>>

Mark(s) ==
  /\ At(s, "mark")
  /\ tree' = [tree EXCEPT !["stage"].mark = Txn(s)]
  /\ Goto(s, "inspect")
  /\ UNCHANGED <<registry, ledger, journal, lock, begun, troubles, others>>

\* What a journal write at this point makes of the record.
NextRecord(s) ==
  IF At(s, "inspect")
  THEN [Rec(s) EXCEPT !.status = "filesystem",
          !.written = IF Action(s) = "move" THEN {"project"} ELSE {"project", "job"}]
  ELSE IF At(s, "projectRegistry")
  THEN [Rec(s) EXCEPT !.status = "registry",
          !.projection = (service[s].plan.registry
                            \ (IF Action(s) = "move" THEN {"source"} ELSE {}))
                         \union {IF Action(s) = "adopt" THEN "source"
                                 ELSE "destination"}]
  ELSE IF At(s, "projectLedger") THEN [Rec(s) EXCEPT !.status = "ledger"]
  ELSE IF At(s, "commit") THEN [Rec(s) EXCEPT !.status = "committed"]
  ELSE Rec(s)

\* The moved tree, or the tree to adopt, is compared with the plan once more
\* and the coming rewrite announced.
Inspect(s) ==
  /\ At(s, "inspect")
  /\ IF \/ Action(s) = "move" /\ tree["source"].kind = "none"
           /\ AsPlanned("stage", service[s].plan)
        \/ Action(s) = "adopt" /\ tree["source"].job = service[s].plan.job
     THEN Journal(s, NextRecord(s), "rewrite")
     ELSE Undo(s) /\ UNCHANGED journal
  /\ UNCHANGED <<tree, registry, ledger, lock, begun, troubles, others>>

Rewrite(s) ==
  LET place == IF Action(s) = "move" THEN "stage" ELSE "source"
  IN /\ At(s, "rewrite")
     /\ tree' = [tree EXCEPT ![place].project =
                   Rewritten(service[s].plan.project, Txn(s))]
     /\ Goto(s, IF Action(s) = "move" THEN "publish" ELSE "rewriteJob")
     /\ UNCHANGED <<registry, ledger, journal, lock, begun, troubles, others>>

RewriteJob(s) ==
  /\ At(s, "rewriteJob")
  /\ tree' = [tree EXCEPT !["source"].job =
                Rewritten(service[s].plan.job, Txn(s))]
  /\ Goto(s, "projectRegistry")
  /\ UNCHANGED <<registry, ledger, journal, lock, begun, troubles, others>>

\* _rename_noreplace.
Publish(s) ==
  /\ At(s, "publish")
  /\ IF tree["destination"].kind = "none"
     THEN tree' = Renamed("stage", "destination") /\ Goto(s, "projectRegistry")
     ELSE Undo(s) /\ UNCHANGED tree
  /\ UNCHANGED <<registry, ledger, journal, lock, begun, troubles, others>>

-----------------------------------------------------------------------------
(* The registry and the ledger.  Of consecutive journal writes with nothing  *)
(* between them the model keeps the last.                                    *)

ProjectRegistry(s) ==
  /\ At(s, "projectRegistry")
  /\ Journal(s, NextRecord(s), "checkRegistry")
  /\ UNCHANGED <<tree, registry, ledger, lock, begun, troubles, others>>

CheckRegistry(s) ==
  /\ At(s, "checkRegistry")
  /\ IF registry = service[s].plan.registry THEN Goto(s, "writeRegistry")
     ELSE Undo(s)
  /\ UNCHANGED <<files, lock, begun, troubles, others>>

WriteRegistry(s) ==
  /\ At(s, "writeRegistry")
  /\ registry' = Rec(s).projection
  /\ raced' = (raced \/ registry # service[s].plan.registry)
  /\ Goto(s, "projectLedger")
  /\ UNCHANGED <<tree, ledger, journal, lock, begun, troubles, clerk, touched>>

ProjectLedger(s) ==
  /\ At(s, "projectLedger")
  /\ Journal(s, NextRecord(s), "merge")
  /\ UNCHANGED <<tree, registry, ledger, lock, begun, troubles, others>>

\* _project_ledger: the job's entry follows the project.
ProjectedJobs(plan) ==
  (plan.ledger.dirs \ (IF plan.action = "move" THEN {"source"} ELSE {}))
    \union {IF plan.action = "adopt" THEN "source" ELSE "destination"}

MergeLedger(s) ==
  LET base == service[s].plan.ledger.dirs
      projected == ProjectedJobs(service[s].plan)
  IN /\ At(s, "merge")
     /\ IF Mergeable(ledger, base, projected)
        THEN ledger' = Merge(ledger, Txn(s), base, projected) /\ Goto(s, "commit")
        ELSE Undo(s) /\ UNCHANGED ledger
     /\ UNCHANGED <<tree, registry, journal, lock, begun, troubles, others>>

Commit(s) ==
  /\ At(s, "commit")
  /\ Journal(s, NextRecord(s), "release")
  /\ UNCHANGED <<tree, registry, ledger, lock, begun, troubles, others>>

-----------------------------------------------------------------------------
(* _cleanup_committed_journal. *)

ReleaseReceipt(s) ==
  /\ At(s, "release")
  /\ ledger' = Release(ledger, Txn(s))
  /\ Goto(s, "unmark")
  /\ UNCHANGED <<tree, registry, journal, lock, begun, troubles, others>>

Unmarked(place, txn) ==
  IF tree[place].mark = txn THEN [tree EXCEPT ![place].mark = NoOwner] ELSE tree

Unmark(s) ==
  /\ At(s, "unmark")
  /\ tree' = Unmarked("destination", Txn(s))
  /\ Goto(s, "forget")
  /\ UNCHANGED <<registry, ledger, journal, lock, begun, troubles, others>>

Forget(s) ==
  /\ At(s, "forget")
  /\ journal' = None
  /\ Return(s, IF service[s].how = "apply" THEN "done"
               ELSE IF service[s].how = "failing" THEN "failed"
               ELSE IF Rec(s).status = "committed" THEN "finalized" ELSE "rolled back")
  /\ UNCHANGED <<tree, registry, ledger, begun, troubles, others>>

-----------------------------------------------------------------------------
(* _recover_record, from memory after an exception or from the journal. *)

BeginRecovery(s) ==
  /\ Idle(s) /\ journal # None
  /\ lock' = s
  /\ service' = [service EXCEPT ![s].pc = "undo", ![s].how = "recover",
                                ![s].rec = journal]
  /\ UNCHANGED <<files, begun, troubles, others>>

\* Fault: the planned bytes are put back over whatever is there.
AlwaysRestorable(place, f, rec) == tree[place].kind = "whole"

\* _restore_file_projection: only this transaction's own rewrite is taken back,
\* and an edit over it stops the recovery.
Restorable(place, f, rec) ==
  \/ tree[place][f] \in {rec[f], Rewritten(rec[f], rec.txn)}
  \/ f \notin rec.written
ToRestore(place, f, rec) == f \in rec.written /\ tree[place][f] # rec[f]

\* It looks at the file first and replaces it then, whatever is in it by now.
Restore(s, place, f, next) ==
  /\ tree' = [tree EXCEPT ![place][f] = Rec(s)[f]]
  /\ Goto(s, next)
  /\ UNCHANGED <<registry, ledger, journal, lock, begun, troubles, others>>

Finalize(s) ==
  /\ At(s, "undo") /\ Rec(s).status = "committed"
  /\ Goto(s, "release")
  /\ UNCHANGED <<files, lock, begun, troubles, others>>

Undoing(s, action) ==
  /\ At(s, "undo")
  /\ Rec(s).status # "committed"
  /\ Rec(s).action = action

\* The copy to remove: the stage always, the destination only with our mark.
CopyOf(s) ==
  IF tree["stage"].kind # "none" THEN "stage"
  ELSE IF tree["destination"].mark = Txn(s) THEN "destination" ELSE "nowhere"

UndoClone(s) ==
  /\ Undoing(s, "clone")
  /\ service' = [service EXCEPT ![s].owned = CopyOf(s),
       ![s].pc = IF CopyOf(s) = "nowhere" THEN "undoLedger" ELSE "removing"]
  /\ UNCHANGED <<files, lock, begun, troubles, others>>

\* shutil.rmtree goes through the tree in no particular order.
RemoveSome(s) ==
  /\ At(s, "removing")
  /\ \E mark \in {NoOwner, tree[service[s].owned].mark} :
       tree' = [tree EXCEPT ![service[s].owned] = Partial(mark)]
  /\ UNCHANGED <<registry, ledger, journal, lock, service, begun, troubles, others>>

RemoveRest(s) ==
  /\ At(s, "removing")
  /\ tree' = [tree EXCEPT ![service[s].owned] = Nothing]
  /\ Goto(s, "undo")
  /\ UNCHANGED <<registry, ledger, journal, lock, begun, troubles, others>>

\* Where the moved tree is.
MovedTo(s) ==
  IF tree["destination"].mark = Txn(s) THEN "destination"
  ELSE IF tree["stage"].kind # "none" THEN "stage" ELSE "nowhere"

UndoMove(s) ==
  LET owned == MovedTo(s)
  IN /\ Undoing(s, "move")
     /\ IF owned = "nowhere" THEN Goto(s, "authority")
        ELSE IF Restorable(owned, "project", Rec(s))
        THEN service' = [service EXCEPT
               ![s].owned = owned, ![s].current = tree[owned].project,
               ![s].pc = IF ToRestore(owned, "project", Rec(s)) THEN "restore" ELSE "back"]
        ELSE Skip(s, "undoLedger")
     /\ UNCHANGED <<files, lock, begun, troubles, others>>

RestoreMoved(s) == At(s, "restore") /\ Restore(s, service[s].owned, "project", "back")

\* Fault: whatever is at the source's path is taken for the source.
AnySourceIsAuthoritative(rec, unowned) == tree["source"].kind # "none"

\* _move_source_is_authoritative: the complete tree the plan froze, and one this
\* transaction moved back itself, unless it had not moved anything yet.
SourceIsAuthoritative(rec, unowned) ==
  /\ \/ tree["source"].mark = rec.txn
     \/ unowned /\ rec.status = "prepared"
  /\ tree["source"].kind = "whole"
  /\ tree["source"].project = rec.project
  /\ tree["source"].job = rec.job

MoveBack(s) ==
  LET owned == service[s].owned
  IN /\ At(s, "back")
     /\ IF tree["source"].kind = "none"
        THEN tree' = Renamed(owned, "source") /\ Goto(s, "authority")
        ELSE IF SourceIsAuthoritative(Rec(s), FALSE)
        THEN tree' = [tree EXCEPT ![owned] = Nothing] /\ Goto(s, "authority")
        ELSE Skip(s, "undoLedger") /\ UNCHANGED tree
     /\ UNCHANGED <<registry, ledger, journal, lock, begun, troubles, others>>

Authority(s) ==
  /\ At(s, "authority")
  /\ IF SourceIsAuthoritative(Rec(s), TRUE) THEN Goto(s, "undoLedger")
     ELSE Skip(s, "undoLedger")
  /\ UNCHANGED <<files, lock, begun, troubles, others>>

UndoFile(s, f, restore, next) ==
  /\ IF Restorable("source", f, Rec(s))
     THEN Goto(s, IF ToRestore("source", f, Rec(s)) THEN restore ELSE next)
     ELSE Skip(s, "undoLedger")
  /\ UNCHANGED <<files, lock, begun, troubles, others>>

UndoAdopt(s) == Undoing(s, "adopt") /\ UndoFile(s, "project", "restoreProject", "undoJob")
RestoreProject(s) == At(s, "restoreProject") /\ Restore(s, "source", "project", "undoJob")
UndoAdoptJob(s) == At(s, "undoJob") /\ UndoFile(s, "job", "restoreJob", "undoLedger")
RestoreJob(s) == At(s, "restoreJob") /\ Restore(s, "source", "job", "undoLedger")

UndoLedger(s) ==
  /\ At(s, "undoLedger")
  /\ ledger' = Rollback(ledger, Txn(s))
  /\ Goto(s, "readRegistry")
  /\ UNCHANGED <<tree, registry, journal, lock, begun, troubles, others>>

ReadRegistry(s) ==
  /\ At(s, "readRegistry")
  /\ service' = [service EXCEPT ![s].seen = registry, ![s].pc = "restoreRegistry"]
  /\ UNCHANGED <<files, lock, begun, troubles, others>>

\* _restore_authority_snapshot: undo this transaction's entries only.
UndoneRegistry(rec, seen) ==
  IF rec.projection = {} \/ seen = rec.registry THEN seen
  ELSE (seen \ (rec.projection \ rec.registry))
         \union (rec.registry \ rec.projection)

RestoreRegistry(s) ==
  LET seen == service[s].seen
      undone == UndoneRegistry(Rec(s), seen)
  IN /\ At(s, "restoreRegistry")
     /\ registry' = IF undone = seen THEN registry ELSE undone
     /\ raced' = (raced \/ (undone # seen /\ registry # seen))
     /\ Goto(s, "finish")
     /\ UNCHANGED <<tree, ledger, journal, lock, begun, troubles, clerk, touched>>

\* Fault: the journal goes although the directory could not be restored.
FinishUndoAnyway(s) ==
  /\ At(s, "finish")
  /\ tree' = IF Rec(s).action = "move" THEN Unmarked("source", Txn(s)) ELSE tree
  /\ Goto(s, "forget")
  /\ UNCHANGED <<registry, ledger, journal, lock, begun, troubles, others>>

\* With an error the journal stays for the next attempt; without one the mark on
\* a tree that was moved back goes before the journal does.
FinishUndo(s) ==
  /\ At(s, "finish")
  /\ IF service[s].failed THEN Return(s, "partial") /\ UNCHANGED tree
     ELSE /\ tree' = IF Rec(s).action = "move" THEN Unmarked("source", Txn(s))
                     ELSE tree
          /\ Goto(s, "forget") /\ UNCHANGED lock
  /\ UNCHANGED <<registry, ledger, journal, begun, troubles, others>>

-----------------------------------------------------------------------------
(* Failures and crashes. *)

Trouble == troubles < MaxTroubles /\ troubles' = troubles + 1

\* An I/O error.  The record in memory already says what the failed journal
\* write would have said.
Fail(s) ==
  /\ service[s].pc \in Failing
  /\ ~(At(s, "undo") /\ Rec(s).status = "committed")
  /\ Trouble
  /\ \/ At(s, "begin") /\ Return(s, "refused")
     \/ /\ service[s].pc \in Forward \ {"begin"}
        /\ \E rec \in {Rec(s), NextRecord(s)} :
             service' = [service EXCEPT ![s].rec = rec, ![s].pc = "undo",
                                        ![s].how = "failing"]
        /\ UNCHANGED lock
     \/ /\ service[s].pc \in Cleanup
        /\ Return(s, IF service[s].how = "apply" THEN "done" ELSE "partial")
     \/ service[s].pc \in UndoTree /\ Skip(s, "undoLedger") /\ UNCHANGED lock
     \/ At(s, "undoLedger") /\ Skip(s, "readRegistry") /\ UNCHANGED lock
     \/ /\ service[s].pc \in {"readRegistry", "restoreRegistry"}
        /\ Skip(s, "finish") /\ UNCHANGED lock
     \/ At(s, "finish") /\ Return(s, "partial")
  /\ UNCHANGED <<files, begun, others>>

\* The process ends; the operating system drops its lock.
Crash(s) ==
  /\ ~At(s, "idle")
  /\ Trouble
  /\ service' = [service EXCEPT ![s] = NoCall]
  /\ lock' = Nobody
  /\ UNCHANGED <<files, begun, others>>

-----------------------------------------------------------------------------
(* Everybody else. *)

User ==
  /\ "user" \in Outsiders /\ Trouble
  /\ \E place \in {"source", "destination"} :
       \/ /\ tree[place].kind = "whole"
          /\ \E f \in {"project", "job"} :
               tree' = [tree EXCEPT ![place][f].text = troubles']
       \/ tree[place].kind = "none" /\ tree' = [tree EXCEPT ![place] = Foreign]
       \/ tree[place].kind = "foreign" /\ tree' = [tree EXCEPT ![place] = Nothing]
  /\ UNCHANGED <<registry, ledger, journal, lock, service, begun, others>>

\* register_project and unregister_project of another project: read the
\* registry, and write it back changed, without the lock.
ReadToRegister ==
  /\ "registry" \in Outsiders /\ ~clerk.busy
  /\ Trouble
  /\ clerk' = [busy |-> TRUE, seen |-> registry]
  /\ UNCHANGED <<files, lock, service, begun, raced, touched>>

WriteRegistered ==
  /\ clerk.busy
  /\ registry' = IF "elsewhere" \in clerk.seen THEN clerk.seen \ {"elsewhere"}
                 ELSE clerk.seen \union {"elsewhere"}
  /\ raced' = (raced \/ registry # clerk.seen)
  /\ clerk' = NoClerk
  /\ UNCHANGED <<tree, ledger, journal, lock, service, begun, troubles, touched>>

\* Other parts of the program register, own and release job directories.
OtherJobs ==
  /\ "jobs" \in Outsiders /\ Trouble
  /\ \E e \in Entries :
       /\ \/ ledger' = Register(ledger, e)
          \/ ledger' = Unregister(ledger, e)
          \/ \E r \in Registrations :
               \/ Claimable(ledger, e, r) /\ ledger' = RegisterOwned(ledger, e, r)
               \/ ledger' = UnregisterOwned(ledger, e, r)
               \/ ledger' = ReleaseOwner(ledger, e, r)
               \/ Claimable(ledger, e, r) /\ ledger' = EnsureReleased(ledger, e, r)
       /\ touched' = touched \union {e}
  /\ ledger' # ledger
  /\ UNCHANGED <<tree, registry, journal, lock, service, begun, clerk, raced>>

-----------------------------------------------------------------------------
Advance(s) ==
  \/ Begin(s) \/ Copy(s) \/ Fill(s) \/ MoveOut(s) \/ Mark(s) \/ Inspect(s)
  \/ Rewrite(s) \/ RewriteJob(s) \/ Publish(s)
  \/ ProjectRegistry(s) \/ CheckRegistry(s) \/ WriteRegistry(s)
  \/ ProjectLedger(s) \/ MergeLedger(s) \/ Commit(s)
  \/ ReleaseReceipt(s) \/ Unmark(s) \/ Forget(s)

Recover(s) ==
  \/ BeginRecovery(s) \/ Finalize(s)
  \/ UndoClone(s) \/ RemoveSome(s) \/ RemoveRest(s)
  \/ UndoMove(s) \/ RestoreMoved(s) \/ MoveBack(s) \/ Authority(s)
  \/ UndoAdopt(s) \/ RestoreProject(s) \/ UndoAdoptJob(s) \/ RestoreJob(s)
  \/ UndoLedger(s) \/ ReadRegistry(s) \/ RestoreRegistry(s) \/ FinishUndo(s)

Next ==
  \/ \E s \in Services :
       \/ \E action \in Actions : Preflight(s, action)
       \/ Apply(s) \/ Advance(s) \/ Recover(s) \/ Fail(s) \/ Crash(s)
  \/ User \/ ReadToRegister \/ WriteRegistered \/ OtherJobs

Spec == Init /\ [][Next]_vars

-----------------------------------------------------------------------------
(* Properties. *)

\* The authority to take ledger entries back never outlives its transaction: a
\* transaction owns what its receipt says it added, a receipt is about entries
\* that are still there and belongs to the journal that is there, whatever
\* crashed in between (merge_projection, rollback_projection,
\* release_projection_receipt, _save_state, _cleanup_committed_journal).
LedgerAuthority ==
  /\ WellFormed(ledger)
  /\ \A e \in Entries : ledger.owner[e] \in Lifecycles =>
       /\ ledger.receipt[ledger.owner[e]] # NoReceipt
       /\ e \in ledger.receipt[ledger.owner[e]].added
  /\ \A t \in Lifecycles : ledger.receipt[t] # NoReceipt =>
       /\ ledger.receipt[t].added \subseteq ledger.dirs
       /\ journal # None /\ journal.txn = t

\* The project itself is never lost: it is whole where it was or, moved, where a
\* journal leads a recovery to it (_apply_move, _recover_record).
ProjectKept ==
  \/ tree["source"].kind = "whole"
  \/ /\ tree["destination"].kind = "whole"
     /\ "destination" \in registry \/ journal # None \/ raced
  \/ /\ tree["stage"].kind = "whole"
     /\ journal # None /\ journal.action = "move"

\* Without a journal the three authorities agree: what is registered is there
\* and has its job registered, and what is not registered left nothing behind in
\* the ledger (_apply_clone, _apply_move, _apply_adopt, _recover_record).  Only
\* what others did to the same entry is excepted.
Agreement ==
  journal = None /\ ~raced =>
    \A place \in {"source", "destination"} :
      /\ place \in registry => /\ tree[place].kind = "whole"
                               /\ tree[place].mark = NoOwner
      /\ place = "destination" /\ tree[place].kind = "whole" => place \in registry
      /\ place = "destination" /\ place \notin touched =>
           (place \in registry <=> place \in ledger.dirs)

Editions(f) == {tree[place][f].text : place \in {p \in Places : tree[p].kind = "whole"}}

\* What the user saved after a recovery compared project.yaml with its own
\* rewrite, and before it puts the planned bytes back over it.
Unseen(f) == {text \in Editions(f) : f = "project" /\ \E s \in Services :
                /\ At(s, "restore")
                /\ text = tree[service[s].owned].project.text
                /\ text # service[s].current.text}

\* A move and its recovery lose no edition of project.yaml or job.yaml, whenever
\* the user saved it (_restore_file_projection, _move_source_is_authoritative),
\* but one: what is saved between the comparison and the write that restores.
MoveKeepsEdits ==
  [][/\ journal # None /\ journal.action = "move"
     /\ troubles' = troubles
     => \A f \in {"project", "job"} :
          Editions(f) \ Unseen(f) \subseteq Editions(f)']_vars

=============================================================================
