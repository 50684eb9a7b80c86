# VASP Catalyst Studio: TLA+ specifications

Specifications of the parts of VASP Catalyst Studio 4.0 (`src/vcstudio/`) whose correctness depends
on the order in which things happen: what the program writes before and after it talks to a batch
scheduler, what its processes see of each other through files, and what is left after one of them
dies.

Every definition is translated from the Python and JavaScript source; `PROJECT.json` ("map") names
the lines each one stands for.

| files | content |
| --- | --- |
| `JobLifecycle`, `MCJobLifecycle`, `MCJob_*.cfg` | one calculation directory, its journals, the scheduler, the pollers (section 3) |
| `AtMostOnce` | abstract: a command channel with a recovery record; `JobLifecycle` implements two |
| `JobLifecycleProofs` | its inductive invariants, all its safety properties and both refinements |
| `Campaign`, `MCCampaign`, `MCCampaign_*.cfg` | one campaign: tasks, ledger, run lock, autopilot calls, people (section 4) |
| `CampaignProofs` | the claim, acceptance and run-lock theorems |
| `JobLedger` | the registry of job directories as functions on its content (section 5) |
| `ProjectLifecycle` | clone, move and adopt of a project over directory, registry and job ledger (section 6) |
| `ResearchNotebook`, `MCResearchNotebook`, `MCNotebook_all.cfg` | the notebook's journal, anchor and pending record (section 7) |
| `AppendLog` | abstract: an append-only log of unique requests; `ResearchNotebook` implements it |
| `ResearchNotebookProofs` | its inductive invariant, the refinement of `AppendLog` |
| `PipelineSupervisor`, `MCPipelineSupervisor`, `MCSupervisor_all.cfg` | the tick thread and its callers (section 8) |
| `WorkspaceState`, `MCWorkspaceState`, `MCWorkspace_all.cfg` | the preferences store and the pages over it (section 9) |
| `DesktopProofs` | the inductive invariants and safety properties of both |
| `RecipePublish` | publication of a method recipe (section 10) |
| `KineticsAuthoring` | confirmation of a kinetics model spec (section 11) |
| `AtomicSelection` | abstract: model head and selection change together; `KineticsAuthoring` implements it |
| `MCTransactions`, `MCTransactions_all.cfg` | instances of the last two components |
| `RecipePublishProofs` | the invariants of the first and the refinement of `AtomicSelection` by the second |
| `ReportPublish`, `MCReportPublish`, `MCReport_all.cfg` | publication of report revisions (section 12) |
| `ReportPublishProofs` | its inductive invariant, `ReadyWasRecorded`, `BundlesAreKept` |
| `CalculationReuse`, `MCCalculationReuse`, `MCReuse_all.cfg` | reuse of a result instead of a calculation (section 13) |
| `CalculationReuseProofs` | its inductive invariant and safety properties |
| `ExternalReferences` | searches, result tokens and imports of the external reference gateway (section 14) |
| `MCProjectFiles`, `MCProjectFiles_all.cfg` | instances of `ProjectLifecycle` and `ExternalReferences` |
| `ProjectFilesProofs` | the inductive invariants and safety properties of both |

`tlc -config MCJob_journal.cfg MCJobLifecycle` checks a run; `tlapm JobLifecycleProofs.tla` checks
the proofs of a module.

## 1. Inventory

### 1.1 Components with state of their own

**Job operations** (`cluster/submitter.py`, `shared/manifest.py`, `cluster/batch_ops.py`). State:
`job.yaml` (state, scheduler id, attempts, rounds, settling baseline, diagnosis, fetch evidence),
`submit_recovery` and `job_actions` journals, a lock per directory. Operations: submit, cancel,
restart from CONTCAR, restart with changed INCAR, refresh, fetch, adopt. They talk to a scheduler
over SSH. Hard: the command is not idempotent, its answer may be lost, the process may die between
any two writes, the queue listing is older than the lock. Correct when: no command that starts a job
is forgotten or sent twice, a request key is executed once, one job per directory, a verdict and a
download belong to the job they are recorded for, the limit of automatic restarts holds, every
active job is judged in the end.

**Campaign** (`campaign/*.py`, `autopilot_step` in `project/ai_paper.py`). State: one YAML file per
task with a revision, an append-only ledger of verdicts, waivers and revocations, `run.lock`.
Operations: an autopilot call (lock, derive, claim, execute, record, check, gate, accept, release),
the acts of people (accept, waive, revoke, downgrade), clearing a dead lock. Hard: the lock is a
file that can be removed by someone else; decisions are read before the write that relies on them; a
call can stop at each step. Correct when: calls exclude each other, a claim executes once, a result
is its claimer's, acceptance rests on a standing decision about that very revision, ready tasks are
taken up.

**Job ledger** (`cluster/ledger.py`): the global list of job directories, with the owner of an entry
whose transaction may still take it back. Lifecycle transactions project a delta onto it:
compare-and-swap or merge, a durable receipt of what was really applied, a rollback that undoes the
receipt. Correct when: no other writer's entry is lost, a rollback undoes exactly what was applied,
and twice is once.

**Project lifecycle** (`project/project_lifecycle.py`): clone, adopt and move of project directories
as journalled transactions across a directory tree, the project registry and the job ledger, with
recovery at the start of the next one. Hard: five durable authorities change in turn, each write may
fail, the user and other parts of the program work on the same files without the lock. Correct when:
after recovery they agree on one side of the transaction, the project and the user's edits survive,
nobody else's folder is touched.

**Research notebook** (`project/research_notebook.py`): hash-chained journal with a pending record,
an anchor and a store of attachments. Correct when: a row is there whole or not at all after a
crash, two authors do not append to the same head, an older copy put back is noticed or repaired and
an intact notebook never refused.

**Workspace state** (`gui_web/workspace_state.py`, `assets/workspace.js`): one JSON file shared by
windows, updated from a revision, reset under a new authority id. Hard: between a call and its
answer the user edits, timers fire and pages reload. Correct when: no window's update is lost
silently and an edit reaches the file.

**Pipeline supervisor** (`gui_web/pipeline_supervisor.py`): a daemon thread that ticks the pipeline
at a deadline; `wake`, `stop` and changes of the setting race its wait. Correct when: a wake is not
lost, a stop ends it.

**Method recipes** (`generate/method_recipe_publish.py`): a bundle of input files is staged, renamed
to its target and registered. Correct when: what is in place is registered, however often it was
interrupted, and nobody else's entry or directory is taken.

**Kinetics authoring** (`project/kinetics_authoring.py`, `project/kinetics_model_spec.py`): a
confirmed model spec goes into a store and is selected; each of the two files has an anchor log, a
journal and a ledger of receipts tie them. Correct when: both change or neither, and each
confirmation is decided once.

**Report revisions** (`project/report_service.py`, `gui_web/api.py`): history, journal, marker in
`project.yaml`, a reservation and files in a destination that projects may share. Correct when: a
report shown as ready is the one the project names, no published file is overwritten, and an
interrupted publication is completed.

**Calculation reuse** (`project/calculation_reuse.py`): a decision copies the files of a finished
calculation into a job. Correct when: a job is either computed or refers to one whole result, and a
repeated decision completes.

**External reference gateway** (`project/external_references.py`): searches of remote databases
behind a switch that is off at every start, result tokens that authorise one use each, and imports
that write a candidate beside a `project.yaml` others save. Correct when: a result is used once, an
import is whole or leaves nothing, no answer of an earlier network session is published, no
reservation outlives its call.

**Campaign budget** (`campaign/budget.py`): estimates and actuals in one YAML file; `record_actual`
reads, adds and writes without a lock, and has no caller.

**Local runner** (`cluster/local_runner.py`): starts a program, records its pid in `local_run.yaml`,
tells its state from an exit-code file.

### 1.2 How they interact

`gui_web/api.py` is the front end: its poller selects active directories and calls
`batch_ops.refresh_batch`, its handlers call `submitter`; the supervisor's tick runs the poller.
Submitter and recipe publication register in the job ledger; project lifecycle rewrites the ledger's
entries of a moved or cloned project. A submission asks the reuse guard first. Report publication
writes a marker into the `project.yaml` that the lifecycle moves and other handlers edit.
`autopilot_step` takes the function that executes a task as a parameter; nothing in the program
calls it in a loop, it is the public entry for one. Several processes (windows, command line,
scripts) may work on one directory; within one window `_pipeline_lock` serialises the poller.

Composed models: `ProjectLifecycle` and `RecipePublish` keep the ledger of `JobLedger`;
`JobLifecycle` and `ResearchNotebook` and `KineticsAuthoring` are shown to implement `AtMostOnce`
(twice), `AppendLog` and `AtomicSelection`.

### 1.3 Components without behaviour of this kind

Engines, structure and surface building, convergence parsing, diagnosis, kinetics and catalysis
mathematics, analysis and figures compute a result from files. The SSH layer, the profiles, most of
the browser front end and the external adapters are input and output. See section 17.

## 2. Plan

| order | module | composes | state |
| --- | --- | --- | --- |
| 1 | `JobLifecycle` (implements `AtMostOnce` twice) | | modelled, safety and refinements proved |
| 2 | `Campaign` | | modelled, safety proved |
| 3 | `JobLedger`, `ProjectLifecycle` | `JobLedger` | modelled, safety proved |
| 4 | `ResearchNotebook` (implements `AppendLog`) | | modelled, safety and refinement proved |
| 5 | `PipelineSupervisor`, `WorkspaceState` | | modelled, safety proved |
| 6 | `RecipePublish`, `KineticsAuthoring` (implements `AtomicSelection`) | `JobLedger` | modelled, safety of the first and refinement of the second proved |
| 7 | `ReportPublish`, `CalculationReuse` | | modelled, safety proved |
| 8 | `ExternalReferences` | | modelled, safety proved |
| 9 | proofs | | section 15: every safety property that a run checks; liveness stays with TLC |

## 3. The job model (`JobLifecycle`)

### State

| variable | code |
| --- | --- |
| `manifest` | `job.yaml`: state, `scheduler_job_id`, remote directory, `attempts`, `continue_rounds`, `diagnosis.restartable`, `settle_checks`, `observed_running`, `CONTINUE_RUN_NOT_OBSERVED`, fetch evidence; `basis` is history: whose output the last verdict read |
| `submission` | the submission recovery file |
| `journal` | the records of the action journal |
| `op` | the operation that holds the directory's lock, and where it stands |
| `sched`, `where`, `out` | the scheduler's jobs, their directories, the output files there and who wrote them |
| `view` | what a process running `refresh_batch` has selected and the listing it holds |
| `effects`, `lastTxn` | history: commands executed, transactions drawn |

### Actions

Every operation takes the lock before its first read and releases it after its last write, so one is
under way at a time; its durable writes and remote commands are separate actions (`StartSubmit`,
`Upload`, `SubmitExecuted`, `SubmitAcknowledged`, `SubmitCommitted`, `SubmitClosed`, and likewise
for cancel and the restarts). `Abort` releases the lock after any of them: the process died, a write
failed, an exception was raised, or an answered replay ended. `SubmitUnanswered` and
`ActionUnanswered` are the lost answer; the best-effort writes that follow it happen in any subset.
A refresh is three steps, `Select`, `Query` and `RefreshJob`, with anything in between, because only
the last holds the lock. `RegistrationLag`, `SlowCancel` and `HeldListing` say whether the listing
may miss an accepted job, whether a cancelled job may run on, and whether a restart may be sent
while a refresh holds its listing.

### Abstractions

* Gates that only refuse (INCAR and NEB checks, the binding of the cluster profile, the digest of a
  correction and of the request) are stuttering steps, and so is a busy lock. A request that is
  retried with the same key but another content is refused.
* The archive and the submission of a restart run in one remote script; they are two steps because a
  lost connection may leave either done.
* A cancellation that is answered with a status other than 0 is recorded as failed, whether or not
  `qdel` acted: `run_cmd` raises the same error for the status -1 of a lost channel. Only an
  exception of another kind leaves it open (`ActionUnanswered`).
* `Reconcile` is its own durable write and comes before a new action; a replay only needs it to be
  possible, because its failure changes nothing.
* Scheduler ids are not reused. `qdel` of a job that is over is refused.
* Programs without a restart (most engines other than VASP) show a subset of the behaviour.
* `_restart_restore_command` has no caller and is not modelled.

### What is checked

| property | meaning | run |
| --- | --- | --- |
| `NoOrphan` | a command that started a job is in `job.yaml` with its id or under an unresolved record (cancellations are not such commands) | `job_live` |
| `KeyAtMostOnce` | one execution per key and action, although the journal forgets resolved records; a cancellation that acted, was recorded as failed and has been dropped is the exception | `job_journal` |
| `ReplayIsCurrent` | a replayed answer is about an executed command and the current job | `job_journal` |
| `SubmitAtMostOnce`, `ActionAtMostOnce` | submissions with their recovery record implement `AtMostOnce`, and so do restarts with the journal they share with cancellations | `job_journal` |
| `AutoRoundsBounded` | automatic restarts counted at the scheduler stay within the limit | `job_prompt` |
| `AtMostOneLive`, `NoStaleVerdict` | one live job per directory, verdicts on its own output, in an orderly environment | `job_prompt` |
| `Settles` | an active job is judged in the end | `job_live` |

`AtMostOneLive` is what the state gate of both restarts is there for, and the code alone does not
give it. It needs three things of the environment, each a constant that `job_prompt` sets to FALSE:
`RegistrationLag` (a job the listing does not show yet is judged NEEDS_HUMAN, from which a tuned
restart starts a second job), `SlowCancel` (FAILED is recorded when the cancel command returns,
while the job still ends) and `HeldListing` (a refresh uses a listing older than the restart).
Setting any of them to TRUE breaks it. The third is entirely within the program: `refresh_batch`
takes one listing and then works through the directories, the handlers that cancel and restart do
not take `_pipeline_lock`, and `refresh_job` holds the directory's lock only while it judges
(`submitter.py:2415`).

### Bounds

`MaxJobs` = 2 is a submission and an adoption, or either and a restart; 3 in `job_prompt`, where a
restart must follow a restart. `MaxTxn` = 3 allows submit, action, action, and, starting from an
adopted job, three actions; the journals distinguish one previous and one current transaction. One
key suffices to be repeated. `History` (63 in the code) is 0 where the point is a journal that
forgot, else 1. `SettleMax` is 1 where settling is not the question, else 2 or 3. `MaxRounds` is 1
where the limit is the question, 0 in `job_journal`, whose restarts are those a user asks for. One
poller is enough for each property: what matters is how old its listing is. Deadlock is not checked:
a directory whose job is over and whose transactions are used up may rest.

### Fairness (`FairSpec`)

An operation with the lock goes on or dies; the poller thread wakes for ever and its query does not
fail for ever (strong fairness of `Query` and `RefreshJob`, since a busy lock makes a refresh skip);
the scheduler registers, starts and, by walltime, ends every job; and requests by users end, since
each of them may make a refresh skip.

## 4. The campaign model (`Campaign`)

### State

| variable | code |
| --- | --- |
| `disk` | `tasks/<id>.yaml`: rung and revision |
| `ledger` | `decisions.jsonl`: waivers, gate verdicts, revocations, in order |
| `lock` | `run.lock`: there or not, and whether its owner has been written |
| `driver` | per process, its `autopilot_step` call: position, snapshot of ready tasks, claim, outcome, verdict |
| `operator` | per person, a removal of a dead process's lock: the owner read, then the removal |
| `reviewer` | per person, the task loaded and the length of the ledger at that time |
| `past` | history: per task, who claimed it, whose result it has, on what verdict it was accepted |

### Actions

A task write is a compare-and-swap on the revision under the task lock (and, when accepting, under
the ledger lock), so it is one step. An autopilot call is `Acquire`, `WriteOwner`, `LoadCampaign`,
then per task `ClaimTask`, `Execute`, `RecordFailed` or `RecordCompleted`, `LeaveUnchecked` or
`RecordValidated`, `AcceptGate`, `PromoteAccepted`, then `Finish`, and from every step but the
lock's own `Raise`; `ReleaseRead` and `Unlink` end it. `Die` ends a mortal process anywhere. People
use `LoadTask`, `RecordWaiver`, `RevokeDecision`, `ReviewGate`, `ReviewAccept` and `Downgrade`, each
from what they loaded earlier; operators `InspectLock`, `OpReleaseRead`, `OpUnlink`.

### Abstractions

* A driver is the life of a process: one that restarts is another driver. The owner string is unique
  per call in the code; a driver makes one call at a time.
* The claim's owner field in the task file is left out: nothing reads it. `past.runner` is the
  history of it.
* `load_campaign` reads file by file; it is one step, because a task file read too early has the
  effect of a longer wait between the load and the claim, which the model has.
* The campaign's metadata and fingerprints do not change. The event log is not kept; its failing
  append is `Raise`.
* The decision recorded before a contradiction halts the call is left out: nothing reads it.
* An operator clears the lock of a dead process only, as `is_stale` is meant to be used.
* Not modelled: `mark_running`, `mark_completed` and `promote_validated` called by hand, and the
  budget gate.

### What is checked

| property | meaning | run |
| --- | --- | --- |
| `RunLockMutex` | calls exclude each other when one person clears locks | `campaign_lock` |
| `Attended` | a task that is ready does not wait for ever, although callers die and fail | `campaign_lock` |
| `ExecutedOnce` | even with the lock lost under a call, one execution per claim | `campaign_write` |
| `AcceptedIsAuthorised` | acceptance rests on a verdict about that revision; neither it nor its waiver was revoked | `campaign_write` |

`ResultIsOwn` and `AcceptedIsFinal` (only a reviewer who loaded that very revision takes an
acceptance back) are not asked of a run; they are proved (section 15).

### Bounds

`campaign_lock`: two tasks in a chain show dependencies; two of the three callers may die, one
cannot, so that someone is left to go on; one operator. `campaign_write` runs one task in two
scenarios. In "stolen" two operators fight over the lock of a dead call, which is how a running call
loses it, and a reviewer interferes at early revisions; the ledger is kept short. In "accept" one
caller and a reviewer go through revisions, verdicts, waivers and revocations. `MaxRevision` bounds
only downgrades (writes of the program go on), `MaxLedger` the ledger: a full ledger is a failed
append, which the code handles as an exception. Three entries are a waiver, a verdict on it and a
revocation. Deadlock is not checked in `campaign_write`, where the lock of a dead process may be all
that is left.

### Fairness (`FairSpec`)

A call goes on, whoever calls the autopilot calls it again, operators clear dead locks, and the
appends to the event log do not fail for ever. The second is an assumption about the program around
this one: nothing in the repository calls `autopilot_step` in a loop. No fairness is assumed of
people's decisions or of deaths.

## 5. The job ledger (`JobLedger`)

Every mutation of `jobs.json` runs under one process lock and one file lock and replaces the file in
one rename, so each is a function from the ledger that is to the ledger that will be: `Register`,
`Unregister`, `RegisterOwned`, `UnregisterOwned`, `ReleaseOwner`, `EnsureReleased`, `Merge`,
`Rollback`, `ReleaseReceipt`. The module has no state; the two modules that use it keep a `ledger`.
Left out: the repair of a damaged file, the listing of jobs, and the owner of a removed entry (an
owned entry is never removed).

## 6. Project lifecycle (`ProjectLifecycle`)

State: `tree` (what is at the source, the stage and the destination: nothing, a part, a whole
project with its `project.yaml` and `job.yaml`, somebody's folder; the owner mark), `registry`,
`ledger`, `journal` with its status, `lock`, the call of each process in `service`, and a
`register_project` under way in `clerk`. `raced` and `touched` are history: what others changed.

Actions: `Preflight` and `Apply` begin a call, `Recover` is what the next call does first,
`Advance(s)` is the step a call stands at, one action for each durable write of the code (copy,
fill, mark, rewrite, publish, registry, ledger, commit, clean up; undo, restore, back). A recovery
looks at a file in one step and puts the planned bytes back in the next (`UndoMove`, `RestoreMoved`;
`UndoAdopt`, `RestoreProject`; `UndoAdoptJob`, `RestoreJob`), with the user in between. `Fail` is an
exception at a step of `Failing` with the handler that follows it, `Crash` the end of the process.
`User`, `ReadToRegister`, `WriteRegistered`, `OtherJobs` are those who take no lock.

Abstractions: the preview, its token and the tree inspection are "as planned or not"; relinking and
locator rewriting are one mark `by` on a file beside the user's `text`; a move across volumes is a
rename; one project with one job.

Run `project_all` (lifecycle behaviours): all three actions, two processes, two transactions, two
troubles (a failure, a crash, a user, a registry writer, a foreign registration), so a crash in the
recovery of a crash is covered. Properties: `LedgerAuthority` (no authority to take entries back
outlives its transaction), `ProjectKept`, `Agreement` (without a journal directory, registry and
ledger agree), `MoveKeepsEdits`. No fairness is assumed. The processes are interchangeable, and the
run checks safety only, so it takes them (and the gateway's results, section 14) up to symmetry. The
module is used through INSTANCE; what it assumes of its constants is `ConstantsAssumption` (the
three places are entries; transactions, registrations and "no owner" are told apart, "nobody" is no
process, and "none" is no plan, record or receipt), which `MCProjectFiles` states as an assumption of
its own.

Excluded and known: `Failing` leaves out the write of the `committed` status, after whose failure
the result is kept and the call reports an error (`project_lifecycle.py:1033`); the theorems of
section 15 assume the same, and only that, of `Failing`. A crash inside a
recovery between the removal of the owner mark and of the journal makes every later recovery answer
`partial_rollback` (`:1225`, `:1231`). A registry write of somebody who had read it before the
transaction undoes its entry; `Agreement` excepts it (`raced`). What a user saves after
`_restore_file_projection` has compared the file and before it writes is lost (`:945`), although its
message for a changed file is that it "was not overwritten" (`:952`); `MoveKeepsEdits` excepts
exactly that text (`Unseen`). A clone's recovery may put back an
entry the user unregistered in between.

## 7. Research notebook (`ResearchNotebook`)

State: the complete rows of `ledger.jsonl` and the incomplete last line (`journal`, `torn`), the
anchor, the pending record, the attachment store with a temporary file (`stray`), the lock and the
calls. Digests are taken to be free of collisions, so a head digest stands for the sequence up to
it. A call first finishes the pending record (`usage`, `recover`, `replay`, `anchorOld`, `clearOld`,
`check`), then appends (`decide`, `store`, `place`, `pend`, `write`, `rest`, `anchor`, `clear`).
`Fail`, `Crash` and `RestoreBackup` (an older journal is put in place, not in the middle of a row)
are the troubles.

`AppendLog` is the promise: whole rows, once per key, edits and deletions of active rows only. The
mapping (`Committed`) takes a durable pending record for its row, since whoever opens the notebook
next must finish it.

Run `notebook_all`: four requests (a note, a replacement with attachment, a deletion, a second
request under a used key), two callers, three rows, room for one blob, two troubles. Properties:
`ImplementsLog`, `BlobsAreThere`, `NoFalseAlarm`, `RowsAreFinished` (fairness: a call goes on,
somebody opens the notebook again).

Known: the temporary file a crash leaves in the attachment store makes the notebook read as damaged
for ever (`research_notebook.py:1711`), which `NoFalseAlarm` and `RowsAreFinished` except (`stray`).
The selection of attachments for export is not modelled; the recovery's write of a row's missing
part is one step.

## 8. Pipeline supervisor (`PipelineSupervisor`)

State: the setting, `_state` and what subscribers saw last with `_publish_lock`, the events `stop`
and `wake`, `force`, the thread and its local variables, the callers of `start` that have still to
publish. Time is whether the deadline has passed. `Start`, `PublishStart`, `Wake`, `Reconfigure`,
`Stop` are the calls, `Run(t)` is `_run` split at every read or write of something shared.

Run `supervisor_all`: two callers, three generations of the thread, two changes
of the setting. `PromptWake` (the thread never waits on while a tick or its end is asked for),
`WakeTicks` (fairness: the thread is scheduled and a tick returns; nothing of the callers). A wake
into a thread that is stopping is dropped with it, as `stop` intends; `start_background_services`,
which checks before it starts, has one caller.

## 9. Workspace state (`WorkspaceState`)

State: the file (authority, revision, content as the set of edits in it) and per page its copy, the
version it goes with, the save and the refresh under way, their timers, the hold by unsaved input.
The store's two locks make `update` and `read` one step each; a page runs one callback at a time
(`Edit`, `TimerFires`, `Accepted`, `Conflict`, `Error`, `SendRefresh`, `Refreshed`, `Reload`, ...),
anything happens between a call and its answer.

`MCWorkspaceState` uses the module through INSTANCE, as `MCProjectFiles` does. Run `workspace_all`:
two pages, two edits, one of the pages with a form, in two kinds of behaviour: quiet ones, which have
fairness and in which `QuietEditsSettle` is asked (an edit reaches the file or gives way to a newer
state), and ones with unsaved input, failing calls, reloads and removal of the file, in which
`NothingOverwritten` must hold all the same. Fairness: timers fire, calls are answered, refreshes do
not overtake each other for ever.

Known: a page reloaded while its saves are held back by unsaved input pairs a stale copy with a
fresh revision and overwrites (`workspace.js:1284`); `BlockedReloads` = FALSE leaves it out, in the
run and in the theorem. A
failed save is not repeated before the next edit. An edit made while a save is in flight may be
dropped by adopting one's own saved revision. Draft references are merged and not versioned. Windows
of one browser profile share `localStorage`; they are separate here. An older file put back is
outside the model.

## 10. Method recipes (`RecipePublish`)

State: the target, the staging directories and the journal (`disk`), the plan each was built from,
the ledger, the publication or recovery that has the operating system's lock (`active`). `Build`,
`WriteJournal`, `Rename` (never over anything), `Attempt`, `RegisterEntry`, `Record`, `Verify`,
`ReleaseEntry`, `Final`, `Remove` follow the code; `Withdraw` and `GiveUp` are its failure path;
`Recover` is what the next attempt and the next start of the program do. `MoveTarget`,
`TouchBundle`, `RegisterElsewhere`, `UnregisterElsewhere` are the user and the rest of the program.

Run `transactions_all` (recipe behaviours): two plans, two transactions, two faults, two acts of
strangers. `PublishedIsRegistered`, `ClaimedIsKept` (an entry somebody else registered stays),
`JournalSettles` (fairness: an attempt goes on, the program is started again).

Not modelled: the confirmation and its token (`method_recipes.py:1315`), reused inode numbers. The
journal's `state` is informational. Known: `_atomic_json` may replace the file and then fail to
synchronise; the staging directory is then removed although the journal stays
(`method_recipe_publish.py:820`); `UnsureWrites` = FALSE leaves that out. A user who registers an
entry while the transaction owns it may see it withdrawn.

## 11. Kinetics authoring (`KineticsAuthoring`)

State: `model` and `selector`, each a file with the committed and the prepared version of its anchor
log (and the staged file of the store), the pending journal, the receipts, the bases each preview
sealed, the authoring lock and the calls. A version is named by the intent that made it. Everything
but reads of the model store runs under the authoring lock; such a read (`ReadModel`) repairs the
store too. A call begins with the recovery (`Repair`, `Abandon`, `Advance`, `Complete`, `Stuck`,
`Forget`), then `Preview` or `Confirm`, `Stage`, `Prepare`; the rest of `put` and of the advance is
the same repair a reader would make, and the normal path of `confirm` after `put` is the recovery's
forward path. `Refuse` is a source that changed, `PutFails` a write of `put` that fails, `Stop` the
end of the process or another exception.

`AtomicSelection` is the promise: head and selection change together, each intent is decided once.
The mapping takes what the next reader will find: a prepared version counts, and a spec that was put
counts as selected.

Run `transactions_all` (kinetics behaviours): three intents, two processes, two faults, room for two
receipts, so that the ledger fills up. `ImplementsSelection`, `PendingSettles` (fairness: a call
goes on, somebody calls again).

Abstracted: an incomplete last line of an anchor is dropped by its next reader, so an append happens
or not; the source projection is `Refuse`; an intent used again with another content is a refusal.
Not modelled: the read-only selector of version 1, `compare_and_swap` (no caller). `room`
says whether what was prepared fits the store's file: the staged file, which alone was measured, may
be 64 KiB larger than the store may be (`kinetics_model_spec.py:39`, `:1589`). Known: the limit
of receipts (`kinetics_authoring.py:2562`) is looked at after spec and selector were written. Once
it is reached the pending journal stays and every later call raises; so does every call after a
prepared store turned out too large to be written (`Writable`). `PendingSettles` excepts
exactly these two. A put that fails after its prepare record is completed by the recovery although
`confirm` answers "conflict"; the same intent is then replayed.

The two components share a run because they share nothing: a behaviour belongs to one of them and
the other stays in its initial state.

## 12. Report revisions (`ReportPublish`)

State per project: inputs, `project.yaml` (marker and edits of others), `history.json`, the revision
journals; per destination: the files of each stem, what else lies there and the reservations; per
caller its preview and publication; `copy` is what another writer of `project.yaml` has loaded.
`Publish`, `Reserve`, `Stage`, `Commit`, `WriteEntry`, `WriteJournal`, `LoadProject`, `SaveMarker`,
`MarkJournal`, `WriteReady`, `Complete` are the publication; `RenderFails`, `MarkerFails`,
`WriteFails` and a crash its failures; `Read` is the reconciliation by whoever asks for the status.

Run `report_all`: two projects, one shared destination, two revisions, two contents, one fault, one
stranger. `ReadyWasRecorded`, `BundlesAreKept`, `MarkedBecomesReady` (fairness: a publication goes
on, the status is read again and again). Two revisions are an old and a new one; a stranger's report
may lie under the stem.

Abstracted: a preview is one step; one lineage per project. A save of `project.yaml` that fails left
the old file: nothing in `save_project` can raise after its `os.replace`, and the end of the process
right after it is the crash at `marked`; the assumption is that a rename the file system reports as
failed did not happen. Known: a crash while rendering leaves a
reservation that is never reclaimed; a failed render that leaves assets blocks its stem; a clean
failed reservation is not reclaimed once the inputs changed; the marker's save writes back the
`project.yaml` it loaded, over an edit saved in between (`api.py:16411`;
`docs/report-state-contract.md:143` says otherwise). Comparison reports are not modelled.

## 13. Calculation reuse (`CalculationReuse`)

State per job: `job.yaml` (state, recorded digests, decisions, reference, its generation for the
manifest's digest), result files named by the job that computed them, whether the inputs are intact,
the reuse journals. A decision goes through recheck, save, mark, copy, done, record; `check`,
`undo`, `unmark` are its rollback. Both jobs' operation locks are held throughout. What the journal
announces is written as it stands, over whatever somebody else wrote meanwhile. `Guard` is the
look-up before a submission, which takes no lock. The submission itself holds the job's lock and is
the steps `Submit` (the recovery record is written), `Launch` (the scheduler accepts),
`SaveSubmitted` (`job.yaml`, then the record goes) or `Unanswered`, with `Stop` between any two;
`Replay` is a later call that finds the record or the saved manifest. `recovery` and `launched` are
the record and what the scheduler has. `Interfere` is who edits files without a lock.

Run `reuse_all`: two jobs, two files, two decision names, one fault, one stranger.
`ReusedOrComputed`, `ReusedIsWhole`, `RepeatCompletes` (fairness: a call goes on, the user repeats
the decision until it is not refused because other calls hold the locks, which is strong fairness of
`Decide`).

Abstracted: all jobs are the same calculation; refresh and fetch are one step; fingerprints are
equality. Known: the guard is check-then-act, a job may be reused between it and the submission,
which the submission's own check of the manifest then refuses. If a submission is cut off after the
scheduler accepted (`submitter.py:1820`) and before `job.yaml` is saved (`:1899`), `job.yaml` stays
CREATED beside the recovery record (`CutOff`). `record_reuse_reference` looks at `job.yaml` only
(`calculation_reuse.py:1856`), so it completes by reference a job that is running, although its
message is that only an unsubmitted job can be (`:1858`); `ReusedOrComputed` excepts that case and
claims that the record stays, so the next submission is refused. A prepared decision is an attempt
in `job.yaml`, so a job with an abandoned one cannot be submitted, forced or not
(`submitter.py:1418`), and it leaves the source's result link (`api.py:15385`).

## 14. External references (`ExternalReferences`)

State, all but the last in memory: the network switch with its epoch (`network`), each search with
the epoch of its lease, the transport threads nobody waits for any more (`lingering`), the result
tokens in order with the state and holder of each (`records`, `token`, `expired`), the preview
tokens with the `project.yaml` they show, the import and the claims under way; and `project`: which
`project.yaml` it is, and the staged and candidate files by the import that wrote them. `attempts`,
`claimed` and `drawn` are history.

`AcquireLease`, `Send`, `Answered` or `TimeOut`, `Publish`, `ReleaseLease` are a search. A claim is
`ReserveClaim` and then `GrantClaim` or `AbandonClaim`. An import is `Preview`, `BeginImport`,
`Reserve`, `Stage`, `Rename`, `Renamed`, `CommitToken`, `Succeed`, where each looks at
`project.yaml` again (`Verified`), and `RollBack`, `Undo`, `GiveBack` when one of them fails.
`SetNetwork`, `Expire`, `SaveProject` and `Crash` may come between any two.

Run `project_all` (gateway behaviours): one search, one claim, two results, room for one token and
one preview (so that a second result evicts the first), one transport slot, two imports, one save,
one crash, three switches (on, off, on again). `OneUsePerResult`, `ImportIsAllOrNothing`,
`NothingStaleIsPublished` (an answer of an earlier session of the network is dropped),
`ReservationsAreHeld` (a reservation belongs to a call under way). The gateway and the lifecycle
share a run because both write into a project's directory and neither touches what the other reads:
a behaviour belongs to one of them, as in section 11. Two imports are a failed one and
its retry, or two previews of one result; one claim beside them is the other use of a token.

Abstracted: every search finds a result of its own; the structures of one result are alike; a
preview's own lifetime, which only refuses; the project's import lock, since the API's identity lock
admits one preview or import at a time in a process and a second process has tokens of its own; a
file that was written can be removed. The model is the POSIX path: on Windows the open handles keep
others from saving `project.yaml` during an import. Known: the last check of `replace_stage`
(`external_references.py:2367`) comes after the rename and before `import_candidate` notes that the
file is committed. A `project.yaml` saved in between fails the import and leaves its candidate file,
which `docs/external-reference-gateway.md:118` says is removed; `LateSaves` = TRUE lets TLC find it,
the run has FALSE. Not modelled: the cache and its limits, credentials, the requests and answers of
the providers, the structure source and its conversion.

## 15. Proofs

Every theorem holds for all values of the constants that meet the named assumptions of its module:
bounds are naturals, the names for "nothing" (`NoKey`, `None`, `Nobody`, ...) are no key, caller or
record, foreign ids are ids, the dependency graph is a function to sets of tasks, mortal processes
are processes, targets of notebook requests are numbers. TLC evaluates them in every run. The
theorems that assume more say so in the table.

| module | theorem | statement |
| --- | --- | --- |
| `JobLifecycleProofs` | `Invariance`, `TypeCorrect` | `Spec => []IInv`, `Spec => []TypeOK` |
| | `NothingForgotten` | `Spec => []NoOrphan` |
| | `KeysAreUsedOnce` | `Spec => []KeyAtMostOnce` |
| | `ReplaysAreCurrent` | `Spec => []ReplayIsCurrent` |
| | `RoundsAreBounded` | `Spec => []AutoRoundsBounded` |
| | `SubmissionsAreSentOnce` | `Spec => SubmitAtMostOnce` (refinement of `AtMostOnce`) |
| | `ActionsAreSentOnce` | `Spec => ActionAtMostOnce` (refinement of `AtMostOnce`) |
| | `OneLiveJob` | `Prompt` assumed: `Spec => []AtMostOneLive` |
| | `NoVerdictIsStale` | `Prompt` and `Foreign \subseteq {1}` assumed: `Spec => []NoStaleVerdict` |
| `CampaignProofs` | `Invariance` | `Spec => []CInv` |
| | `ResultsAreOwn` | `Spec => []ResultIsOwn` |
| | `ClaimsExecuteOnce` | `Spec => []ExecutedOnce` |
| | `AcceptanceIsAuthorised` | `Spec => []AcceptedIsAuthorised` |
| | `AcceptanceIsFinal` | `Spec => AcceptedIsFinal` (an action property, in no run) |
| | `RunLockExcludes` | at most one operator assumed: `Spec => []RunLockMutex` |
| `ResearchNotebookProofs` | `Invariance` | `Spec => []NInv` |
| | `LogIsAppendOnly` | `Spec => ImplementsLog` (refinement of `AppendLog`) |
| | `AttachmentsAreThere` | `Spec => []BlobsAreThere` |
| | `NoAlarmIsFalse` | `Spec => []NoFalseAlarm` |
| | `AcknowledgedIsKept` | `Spec => []AckedIsKept` |
| `DesktopProofs` | `Invariance` | `Spec => []SInv` |
| | `WaitsForNobody` | `Spec => []PromptWake` |
| | `ThreadIsAlone`, `OneLateTick`, `SubscribersAreCurrent` | `OneWorker`, `FewLateTicks`, `PublishedIsCurrent` |
| | `WindowsAgree` | `BlockedReloads = FALSE` assumed: `S!Spec => []WInv` |
| | `UpdatesKeepEdits` | `BlockedReloads = FALSE` assumed: `S!Spec => NothingOverwritten` (an action property) |
| `RecipePublishProofs` | `Invariance` | `Spec => []RInv` |
| | `PublicationIsRegistered` | `Spec => []PublishedIsRegistered` |
| | `OthersEntryIsKept` | `Spec => []ClaimedIsKept` |
| | `OwnerCanBeFound` | `Spec => []OwnerIsJournaled` |
| | `JournalCanBeFinished` | `UnsureWrites = FALSE` assumed: `Spec => []JournalHasBundle` |
| | `AuthoringIsAtomic` | `MCSpec => ImplementsSelection` (refinement of `AtomicSelection`) |
| `CalculationReuseProofs` | `Invariance` | `Spec => []UInv` |
| | `ComputedOrReused` | `Spec => []ReusedOrComputed` |
| | `WhatIsReusedIsWhole` | `Spec => []ReusedIsWhole` |
| `ReportPublishProofs` | `Invariance` | `Spec => []PInv` |
| | `ReadyIsTrue` | `Spec => []ReadyWasRecorded` |
| | `NothingIsOverwritten` | `Spec => BundlesAreKept` (an action property) |
| `ProjectFilesProofs` | `Invariance` | `Spec => []GInv` |
| | `OneUse` | `Spec => []OneUsePerResult` |
| | `NoOrphanedReservation` | `Spec => []ReservationsAreHeld` |
| | `AllOrNothing` | `LateSaves = FALSE` assumed: `Spec => []ImportIsAllOrNothing` |
| | `NothingStale` | `Spec => NothingStaleIsPublished` (an action property) |
| | | of the lifecycle, `"commit" \notin Failing` assumed: |
| | `LifecycleCalls`, `JournalLeadsToTheProject` | `MCSpec => []Ctl`, `MCSpec => []TreeInv` |
| | `AuthorityEndsWithItsTransaction` | `MCSpec => []LedgerAuthority` |
| | `ProjectIsKept` | `MCSpec => []ProjectKept` |
| | `AuthoritiesAgree` | `MCSpec => []Agreement` |
| | `MovesKeepEditions` | `MCSpec => MoveKeepsEdits` (an action property) |

Each module is laid out alike: facts about the data, a lemma per action (under it a step per part of
the invariant the action can disturb), one that joins them into `Inv /\ [Next]_vars => Inv'`, and
the theorems. Every invariant was first checked by TLC on the instance of the component's run.

### The job model

`NoOrphan` alone is not inductive: that closing a record of a submission or restart loses nothing
needs that the record's transaction is already in `job.yaml` with the id the scheduler gave. `IInv`
adds it in parts: `TxnInv` (a transaction is drawn once, and `job.yaml` and the scheduler agree on
it), `SubmissionInv` (an open submission record speaks of the only submission), `OpInv` (the
operation under way owns an open record until its outcome is in `job.yaml`), `PlaceInv` (directories
of jobs).

The other invariants are inductive only on top of it, each on top of those before. `KeyInv`: a
transaction has one key in the scheduler's history, `job.yaml`, the journal and the running
operation, and none of them has the key that is about to be sent, save that the history may have it
of a cancellation nobody else remembers (`Forgotten`); the journal alone would not do, since it
forgets. `DoneInv`: what `job.yaml` lists and what was answered the scheduler did, and one
record of a channel at most is unresolved. The two refinements follow from these: drawing a
transaction, sending it, recording and forgetting it are the steps of `AtMostOnce`, and every other
step leaves its variables alone. `RoundsInv`: the restarts in `job.yaml` are counted, and the one
that is not in it was begun while a round was left, so that an unanswered command cannot make one
round two.

`AtMostOneLive` and `NoStaleVerdict` hold in an orderly environment only (section 3). `Prompt` is
that environment, the constants of `job_prompt`: none of `RegistrationLag`, `SlowCancel` and
`HeldListing`, and at most one job of another program to adopt. `BirthInv` says where jobs come
from, `LiveInv` that beside the job `job.yaml` names only a restart lives that is not recorded yet,
and that a listing in hand misses no job it could be about. `OutputInv` follows the output files
through archive and restart. It needs job ids to be in order along a directory's life, which a
foreign job with a later id breaks; hence `Foreign \subseteq {1}` for `NoVerdictIsStale` alone: a job
that is adopted was there before ours.

### The campaign model

`CInv` rests on `ClaimHolds`: at the revision a call claimed, the task is still running and the
claim is still its own, or a later revision exists, in which case the compare-and-swap refuses its
write. The lock does not occur in it; that is why the theorems hold when the lock is lost.
`SnapshotHolds` says the same of people, `PastIsPast` that a decision an acceptance rests on is in
the ledger, which only grows. `LockInv` is separate and needs one operator.

### The notebook

`NInv` ties the three files to the call under way, which `LockInv` makes the only one. `FilesInv`:
unless a backup was put in place, the journal is where the anchor and the pending record say it may
be, so the recovery finds no reason to refuse (`NoFalseAlarm`). A backup may put any older journal
there; what then keeps the promise is that `Committed`, the log of the refinement, depends on the
anchor and the pending record only and is readable (`Readable(Committed)`: revisions in order, keys
used once, targets active, attachments in the store). Of the steps only `Pend`
changes `Committed`, and it appends the row whose guards `AppendingInv` has carried from `Decide`,
by whose time the anchor was compared with the rows read (`RecoveryInv`). That row's attachment is
already in the store, from which nothing is removed.

### The project lifecycle

Five authorities change in turn, any write but one may fail, any step may be the last, and the user
and the rest of the program write in between. The invariant is in layers, each inductive on top of
those before; TLC checked their conjunction first, on the instance of `project_all` and on a larger
one with four troubles.

* `Ctl`: who is in a call has the lock; what the call has in memory is what the journal says, or the
  record whose write failed; which steps belong to which action and status.
* `Receipts`: an entry is owned by whoever has it in a receipt (`LedgerOk`), and only the journal's
  transaction has a receipt. While a call is past the merge, or the recovery past the rollback, the
  receipt is gone or still to be undone, which is what a crash finds. This gives `LedgerAuthority`.
* `Trees`: `TreeInv` says of each action and status of the journal where the directory may be and
  whose mark it bears (`Cloned`, `Moved`), so that a recovery that looks for the mark, or at the
  source, finds the one directory that is the project; `ForwardTree` and `BackwardTree` say what a
  call knows beyond that. `MoveKeepsEdits` follows step by step: a move only renames, rewrites its
  own part of a file, or takes its own rewrite back; what that overwrites is the text it compared or
  `Unseen`.
* `Registers`: unless `raced`, the registry is the one before or the one announced in the journal,
  and a call that is past a step knows which. With `Trees` it gives `ProjectKept`.
* `Entered`: the same of the destination's entry in the ledger, unless somebody else changed that
  entry. With `Registers` it gives `Agreement`.

A step of others (`User`, `ReadToRegister`, `WriteRegistered`, `OtherJobs`) preserves each layer
because the layer claims nothing about what they write, or excepts it by name. That `commit` does
not fail is needed from `Ctl` on: after that failure memory and journal disagree about the
transaction's end.

### The preferences

`WInv`: every pair of authority and revision that a page, a save on its way or the answer of a
refresh holds is behind the store or at it, and if it is at it, what is held with it contains all
the store has (`Covers`). What makes it inductive is the overlap of a save and a refresh: at most one
refresh asked for before the save is answered after it, it finds the page unblocked (`SaveOk`), and
what it adopts in between is at a revision past the save's or keeps what the save sent (`SentOk`,
`AcceptedOk`). Authorities only grow, so a rebuilt store matches nobody's version. A reload while
saves are blocked breaks it (section 9), which is why the theorem has its hypothesis.

### The kinetics refinement

`AuthoringIsAtomic` rests on `AInv`, which ties the two stores to the pending journal and the
receipts. `AuthoringStores`: with nothing pending the model's head is the selected version and has
its receipt; with an intent pending the intent is in neither store, or is the head only, or is head
and selected, and in each case its receipt says nothing else. `AuthoringCalls`: whoever is in a call
has the lock; a call about to write or prepare has a pending intent without a receipt and nothing
prepared over the head it read, one about to forget its intent finds the receipt, one that decides
finds nothing pending. A step then maps to a step of `AtomicSelection` or changes nothing a reader
could find.

### Supervisor, recipes, reuse, reports, gateway

`SInv`: the events a thread consumes and the flags behind them are cleared in an order in which a
later request sets the event again (`EventSet`); a thread that has decided to tick, and only that
one, may tick late (`LateTicks`); whoever changed the state publishes it or is about to
(`Publishing`); `Orderly` says where a thread goes on to after it published.

`RInv`: an entry that may be taken back is in the journal (`OwnerIsJournaled`), the journal goes
only after the entry was released (`RemovedLast`), and the call under way works on the journal's
transaction (`ActiveIsJournaled`). `WellFormed` of the ledger comes with lemmas on the functions of
`JobLedger`.

`UInv`: a decision that was prepared in the present generation of the manifest finds it unsubmitted
(`DecisionInv`), because every write of the manifest makes a new generation; that carries
`ReusedOrComputed` past the guard, which takes no lock. Unsubmitted is what `job.yaml` says: a job
that is CREATED and that the scheduler has is `CutOff` (`StateInv`), and a record is removed only
when `job.yaml` names the scheduler's job. `CallInv` says how far a transaction has got
with the files, `LocksInv` that no two share a job.

`PInv`: the history holds every bundle the marker ever named, a journal never claims more than
there is, no copy of `project.yaml` in another writer's hands names a bundle that was not recorded
(`ProjectInv`); a publication owns its stem until it has written it (`Progress`), which with
`OneAtATime` gives `BundlesAreKept`.

`GInv`: a token counts as used from its commit (`UsedOnce`), and a used token has left the store or
is committed there; the import under way is the latest attempt and its files are where its step says
(`ImportInv`, `FilesInv`); a lease of the present epoch was not cut (`LeaseInv`).

### Only model-checked

Liveness, which the prover does not reach: `Settles`, `Attended`, `RowsAreFinished`, `WakeTicks`,
`QuietEditsSettle`, `JournalSettles`, `PendingSettles`, `MarkedBecomesReady`, `RepeatCompletes`.
Every other property that a run checks is proved.

Definitions introduced by a comment "Fault:" are not part of the specifications: each is a plausible
bug at the definition that follows it, and the property that detects it is listed in `PROJECT.json`.

## 16. Known weaknesses of the code

Met while modelling; the models contain them unless a constant named above leaves them out, and no
property denies them.

* `submitter.py:2415`: a listing taken before a restart judges the new job; two jobs may be live in
  one directory.
* `submitter.py:1945`: a cancellation that acted and then lost its channel (status -1) is recorded as
  failed; it may be sent again, and `job.yaml` does not mention it. The comment at `:1946` takes every
  non-zero status for a complete answer.
* `submitter.py:2227`: `observed_running` is written and never read: a restarted job seen RUNNING
  and then gone without output is reported as never observed.
* `submitter.py:3039`: a download during an unresolved restart binds the new job's files to the old
  job.
* `campaign/lock.py:91`: of two people who clear one dead lock the second removes the lock a new
  call took (`RunLockMutex` is about one operator).
* `campaign/schema.py:532`: a dependency downgraded between `load_campaign` and `claim_task` is not
  noticed.
* `campaign/derive.py:54`: a task whose caller died stays `running`; `campaign/__init__.py:20`
  promises continuation.
* `local_runner.py:282`, `:307`: see section 17; those of sections 6 to 14 are named there, among
  them the restoring write of a lifecycle recovery (6), the size of the model store (11) and the
  submission cut off before a reuse (13).

## 17. Not modelled

* **Local runner**: `start`, `status` and `cancel` are single passes over a pid, a YAML file and an
  exit-code file. A crash after the spawn, overlapping starts (the front end does not prevent them),
  a run that ends between the two reads of `status` and a reused pid each give a wrong answer, and
  the code has nothing against it: what is left to state are its own lines.
* **Campaign budget**: sums; its only race has no caller. **Fingerprints**: hashing.
* **Adoption over several directories** (`batch_ops.py:396`): needs a model of many directories over
  one queue.
* **Scheduler connection, profiles, script text, convergence, engines, input builders, molecule
  builder, analysis, figures, paper, archives, adapters**: parsing, formatting, geometry,
  floating-point numbers and drivers of other programs. They compute a result from files and have no
  order of steps to check; in the models their outcomes are choices.
* **Desktop API, command line, browser pages**: forwarding; what they add to the order of steps
  (poller, submission guard, report marker, workspace page) is in the modules above.

These make up most of the repository's lines, which is why the mapped share of the lines is small
although the components with durable state and concurrency are modelled.

