---------------------------- MODULE JobLifecycle ----------------------------
(***************************************************************************)
(* One calculation directory of VASP Catalyst Studio, the remote directory *)
(* it was uploaded to and the batch scheduler that runs it                 *)
(* (src/vcstudio/cluster/submitter.py, shared/manifest.py and              *)
(* cluster/batch_ops.py).                                                  *)
(*                                                                         *)
(* Every operation of submitter.py holds the per-job lock from its first   *)
(* read of job.yaml to its last write, so at most one is under way: `op'   *)
(* is that operation.  What the lock does not cover is everything else:    *)
(* the process may die between any two durable writes, a reply may be lost *)
(* after the scheduler acted, a write may fail, the scheduler moves on its *)
(* own, and a refresh works from a queue listing taken before it got the   *)
(* lock.  A request that is refused before it changes anything, or whose   *)
(* lock is busy, changes no state and is a stuttering step here.           *)
(***************************************************************************)
EXTENDS Naturals, FiniteSets

CONSTANTS
  Keys,             \* idempotency keys a client attaches to its requests
  NoKey,            \* a request that carries none
  Clients,          \* processes that run refresh_batch concurrently
  MaxJobs,          \* bound: scheduler job ids are 1..MaxJobs
  MaxTxn,           \* bound: durable transactions are 1..MaxTxn
  Foreign,          \* ids of jobs that other programs submit
  MaxRounds,        \* CONTINUE_MAX_ROUNDS
  SettleMax,        \* SETTLE_MAX_CHECKS
  History,          \* terminal journal records kept by _start_job_action
  RegistrationLag,  \* may the queue listing miss a job just accepted?
  SlowCancel,       \* may a cancelled job keep running for a while?
  HeldListing       \* may a restart be sent while a refresh holds a listing?

ASSUME BoundsAssumption ==
  /\ MaxJobs \in Nat /\ MaxTxn \in Nat
  /\ MaxRounds \in Nat /\ SettleMax \in Nat /\ History \in Nat
ASSUME KeysAssumption == NoKey \notin Keys
ASSUME ForeignAssumption == Foreign \subseteq 1..MaxJobs
ASSUME EnvironmentAssumption ==
  RegistrationLag \in BOOLEAN /\ SlowCancel \in BOOLEAN /\ HeldListing \in BOOLEAN

VARIABLES
  manifest,     \* job.yaml
  submission,   \* the submission recovery journal
  journal,      \* the continue/cancel operation journal: a set of records
  op,           \* the operation that holds the per-job lock
  sched,        \* the scheduler: the status of every job id
  where,        \* the directory every scheduler job runs in
  out,          \* per remote directory, the output files and their writer
  view,         \* per client, the queue listing refresh_batch works from
  effects,      \* history: the commands the scheduler has executed
  lastTxn       \* history: how many transaction ids have been drawn

vars == <<manifest, submission, journal, op, sched, where, out, view, effects, lastTxn>>
external == <<sched, where, out>>
journals == <<submission, journal, lastTxn>>

-----------------------------------------------------------------------------
(* Data. *)

Ids      == 1..MaxJobs
Txns     == 1..MaxTxn
AnyKey   == Keys \union {NoKey}
Leaf     == "leaf"                     \* the directory submit_job creates
Elsewhere == "elsewhere"               \* the directory of an adopted job
Dirs     == {Leaf, Elsewhere}

Active   == {"SUBMITTED", "QUEUED", "RUNNING"}
Terminal == {"DONE", "FAILED", "UNCONVERGED", "NEEDS_HUMAN"}
States   == {"CREATED", "UPLOADED"} \union Active \union Terminal

Restarts == {"continue", "tune_continue"}
Actions  == Restarts \union {"cancel"}

Unresolved == {"prepared", "remote_accepted", "unknown_remote_outcome"}
Resolved   == {"succeeded", "failed"}

\* An attempt of job.yaml: which action ended in which scheduler job.
Attempt  == [action : Actions \union {"submit", "adopt"}, job : Ids,
             txn : Txns \union {0}, key : AnyKey]
\* The final download evidence: the job it names, and (history) the job
\* whose run wrote the files.
Evidence == [job : Ids \union {0}, src : Ids \union {0}]
NoEvidence == [job |-> 0, src |-> 0]

Manifest == [state : States, job : Ids \union {0}, dir : Dirs \union {"none"},
             attempts : SUBSET Attempt, rounds : Nat, restartable : BOOLEAN,
             checks : Nat, ran : BOOLEAN, notObserved : BOOLEAN,
             basis : Ids \union {0}, fetched : Evidence]

Record   == [txn : Txns, action : Actions, key : AnyKey, src : Ids,
             job : Ids \union {0}, status : Unresolved \union Resolved]

Submission == [status : {"none", "preparing", "submitting", "remote_accepted",
                         "unknown_remote_submission"},
               job : Ids \union {0}, txn : Txns \union {0}]
NoSubmission == [status |-> "none", job |-> 0, txn |-> 0]

\* An operation in progress; `job' is the id its command was answered with
\* (0: no id), `bounded' tells an automatic restart from one without a limit.
Operation == [kind : Actions \union {"submit", "none"},
              pc : {"idle", "prepare", "issue", "reply", "commit", "close", "replayed"},
              txn : Txns \union {0}, key : AnyKey, job : Ids \union {0},
              bounded : BOOLEAN]
Idle == [kind |-> "none", pc |-> "idle", txn |-> 0, key |-> NoKey, job |-> 0,
         bounded |-> FALSE]

Effect == [txn : Txns, action : Actions \union {"submit"}, key : AnyKey, job : Ids,
           bounded : BOOLEAN]

NoOutput == [job |-> 0, kind |-> "none"]
Output   == [job : Ids \union {0}, kind : {"none", "partial", "complete"}]

View     == [pc : {"idle", "selected", "loaded"}, queued : SUBSET Ids,
             running : SUBSET Ids, over : SUBSET Ids]
NoView   == [pc |-> "idle", queued |-> {}, running |-> {}, over |-> {}]

TypeOK ==
  /\ manifest \in Manifest
  /\ submission \in Submission
  /\ journal \subseteq Record
  /\ op \in Operation
  /\ sched \in [Ids -> {"unborn", "registering", "queued", "running", "ended"}]
  /\ where \in [Ids -> Dirs \union {"none"}]
  /\ out \in [Dirs -> Output]
  /\ view \in [Clients -> View]
  /\ effects \subseteq Effect
  /\ lastTxn \in 0..MaxTxn

Init ==
  /\ manifest = [state |-> "CREATED", job |-> 0, dir |-> "none", attempts |-> {},
                 rounds |-> 0, restartable |-> FALSE, checks |-> 0, ran |-> FALSE,
                 notObserved |-> FALSE, basis |-> 0, fetched |-> NoEvidence]
  /\ submission = NoSubmission
  /\ journal = {}
  /\ op = Idle
  /\ sched = [j \in Ids |-> "unborn"]
  /\ where = [j \in Ids |-> "none"]
  /\ out = [d \in Dirs |-> NoOutput]
  /\ view = [c \in Clients |-> NoView]
  /\ effects = {}
  /\ lastTxn = 0

-----------------------------------------------------------------------------
(* The manifest, the journals and the lock, as the operations read them.   *)

Launches == {a \in manifest.attempts : a.action # "cancel"}

\* Fault: a command of unknown outcome no longer bars the next one.
GateForgettingUnknown == {r \in journal : r.status \in {"prepared", "remote_accepted"}}

\* The records that bar every further command until they are resolved.
Gate == {r \in journal : r.status \in Unresolved}

\* Fault: any generation will do.
AnyGenerationMatches(t, a) == \E x \in manifest.attempts : x.txn = t /\ x.action = a

\* _job_action_generation_matches: job.yaml carries this very transaction and
\* its scheduler generation is still the current one.
GenerationMatches(t, a) ==
  \E x \in manifest.attempts : x.txn = t /\ x.action = a /\ x.job = manifest.job

\* Every unresolved record can be settled from job.yaml alone.
Settleable == \A r \in Gate : r.status = "remote_accepted" /\ GenerationMatches(r.txn, r.action)

\* Fault: only the bounded journal is asked for the key.
KeyIsFreshInJournal(k, a) == k = NoKey \/ \A r \in journal : r.key # k

\* A request key that neither the journal nor job.yaml has seen.
KeyIsFresh(k, a) ==
  k = NoKey \/ /\ \A r \in journal : r.key # k
               /\ \A x \in manifest.attempts : ~(x.key = k /\ x.action = a)

\* terminal[-63:]: the newest History resolved records.
Trim(records) ==
  {r \in records : /\ r.status \in Resolved
                   /\ Cardinality({s \in records : s.status \in Resolved /\ s.txn > r.txn})
                        < History}

\* Fault: a restart does not wait for a terminal state.
RestartableAnyTime == manifest.job # 0

\* The states a job may be restarted from.
Restartable == manifest.job # 0 /\ manifest.state \in Terminal

\* Fault: one round too many.
RoundsLeftInclusive(bounded) == bounded => manifest.rounds <= MaxRounds

\* CONTINUE_MAX_ROUNDS binds every restart but one a user asked for explicitly.
RoundsLeft(bounded) == bounded => manifest.rounds < MaxRounds

NextTxn == lastTxn + 1

Launchable == {j \in Ids \ Foreign : sched[j] = "unborn"}
Alive      == {j \in Ids : sched[j] \in {"registering", "queued", "running"}}

-----------------------------------------------------------------------------
(* submit_job. *)

\* Another request for a submission that job.yaml already carries.
ReplaySubmit(k) ==
  /\ op = Idle
  /\ \/ /\ submission.status = "none"
        /\ k # NoKey
        /\ \E a \in Launches : a.key = k /\ a.job = manifest.job
        /\ UNCHANGED submission
     \/ /\ submission.status = "remote_accepted"
        /\ submission.job = manifest.job
        /\ \E a \in Launches : a.job = manifest.job
        /\ submission' \in {submission, NoSubmission}
  /\ op' = [Idle EXCEPT !.kind = "submit", !.pc = "replayed", !.key = k,
                        !.job = manifest.job]
  /\ UNCHANGED <<manifest, journal, external, view, effects, lastTxn>>

\* preflight, then the fsynced `preparing' record.
StartSubmit(k) ==
  /\ op = Idle
  /\ submission.status = "none"
  /\ manifest.state = "CREATED" /\ manifest.job = 0 /\ manifest.dir = "none"
  /\ manifest.attempts = {}
  /\ lastTxn < MaxTxn
  /\ lastTxn' = NextTxn
  /\ submission' = [status |-> "preparing", job |-> 0, txn |-> NextTxn]
  /\ op' = [Idle EXCEPT !.kind = "submit", !.pc = "prepare", !.txn = NextTxn, !.key = k]
  /\ UNCHANGED <<manifest, journal, external, view, effects>>

\* The inputs are uploaded and the record advances to `submitting'.
Upload ==
  /\ op.kind = "submit" /\ op.pc = "prepare"
  /\ submission' = [submission EXCEPT !.status = "submitting"]
  /\ op' = [op EXCEPT !.pc = "issue"]
  /\ UNCHANGED <<manifest, journal, external, view, effects, lastTxn>>

\* The remote recovery record learns the id the scheduler answered.
SubmitAcknowledged ==
  /\ op.kind = "submit" /\ op.pc = "reply" /\ op.job # 0
  /\ submission' = [submission EXCEPT !.status = "remote_accepted", !.job = op.job]
  /\ op' = [op EXCEPT !.pc = "commit"]
  /\ UNCHANGED <<manifest, journal, external, view, effects, lastTxn>>

\* Fault: a submission without a reply is taken for a rejected one.
SubmitUnansweredForgotten ==
  /\ op.kind = "submit" /\ op.pc = "reply"
  /\ submission' = NoSubmission
  /\ op' = Idle
  /\ UNCHANGED <<manifest, journal, external, view, effects, lastTxn>>

\* No usable reply: both durable writes that follow are best effort.
SubmitUnanswered ==
  /\ op.kind = "submit" /\ op.pc = "reply"
  /\ submission' \in {submission,
                      [submission EXCEPT !.status = "unknown_remote_submission"]}
  /\ manifest' \in {manifest, [manifest EXCEPT !.state = "UPLOADED", !.dir = Leaf]}
  /\ op' = Idle
  /\ UNCHANGED <<journal, external, view, effects, lastTxn>>

\* job.yaml takes over the scheduler identity.
SubmitCommitted ==
  /\ op.kind = "submit" /\ op.pc = "commit"
  /\ manifest' = [manifest EXCEPT
       !.state = "SUBMITTED", !.job = op.job, !.dir = Leaf,
       !.attempts = @ \union {[action |-> "submit", job |-> op.job, txn |-> op.txn,
                               key |-> op.key]}]
  /\ op' = [op EXCEPT !.pc = "close"]
  /\ UNCHANGED <<journals, external, view, effects>>

SubmitClosed ==
  /\ op.kind = "submit" /\ op.pc = "close"
  /\ submission' = NoSubmission
  /\ op' = Idle
  /\ UNCHANGED <<manifest, journal, external, view, effects, lastTxn>>

-----------------------------------------------------------------------------
(* cancel_job, continue_from_contcar and continue_with_incar_changes.      *)

\* Every request for an action first settles the records whose transaction
\* job.yaml proves; any other unresolved record refuses the request.
Reconcile ==
  /\ op = Idle
  /\ Gate # {}
  /\ Settleable
  /\ journal' = (journal \ Gate) \union {[r EXCEPT !.status = "succeeded"] : r \in Gate}
  /\ UNCHANGED <<manifest, submission, op, external, view, effects, lastTxn>>

\* A repeated key is answered from the journal, or from job.yaml once the
\* journal forgot it, provided that generation is still the current one.  The
\* write that settles a record first (Reconcile) may fail without harm.
ReplayAction(a, k) ==
  /\ op = Idle
  /\ Settleable
  /\ k # NoKey
  /\ \/ \E r \in journal : /\ r.key = k /\ r.action = a /\ r.status # "failed"
                           /\ GenerationMatches(r.txn, a)
     \/ /\ \A r \in journal : r.key # k
        /\ \E x \in manifest.attempts : /\ x.key = k /\ x.action = a
                                        /\ GenerationMatches(x.txn, a)
  /\ op' = [Idle EXCEPT !.kind = a, !.pc = "replayed", !.key = k, !.job = manifest.job]
  /\ UNCHANGED <<manifest, journals, external, view, effects>>

\* _start_job_action: the fsynced `prepared' record of a new transaction.
StartAction(a, k, bounded, pc) ==
  /\ op = Idle
  /\ Gate = {}
  /\ KeyIsFresh(k, a)
  /\ lastTxn < MaxTxn
  /\ lastTxn' = NextTxn
  /\ journal' = Trim(journal) \union
       {[txn |-> NextTxn, action |-> a, key |-> k, src |-> manifest.job, job |-> 0,
         status |-> "prepared"]}
  /\ op' = [kind |-> a, pc |-> pc, txn |-> NextTxn, key |-> k, job |-> 0,
            bounded |-> bounded]
  /\ UNCHANGED <<manifest, submission, external, view, effects>>

StartCancel(k) == manifest.job # 0 /\ StartAction("cancel", k, FALSE, "issue")

StartContinue(k, bounded) ==
  /\ Restartable
  /\ manifest.restartable
  /\ RoundsLeft(bounded)
  /\ StartAction("continue", k, bounded, "prepare")

StartTune(k, bounded) ==
  /\ Restartable
  /\ RoundsLeft(bounded)
  /\ StartAction("tune_continue", k, bounded, "prepare")

\* A CONTCAR with overlapping atoms ends the request in human hands.
RefuseOverlap(k, bounded) ==
  /\ op = Idle
  /\ Settleable
  /\ KeyIsFresh(k, "continue")
  /\ Restartable
  /\ manifest.restartable
  /\ RoundsLeft(bounded)
  /\ manifest' = [manifest EXCEPT !.state = "NEEDS_HUMAN"]
  /\ UNCHANGED <<journals, op, external, view, effects>>

\* Fault: the previous outputs stay where they are.
ArchiveNothing ==
  /\ op.kind \in Restarts /\ op.pc = "prepare"
  /\ op' = [op EXCEPT !.pc = "issue"]
  /\ UNCHANGED <<manifest, journals, sched, where, out, view, effects>>

\* _restart_archive_command: the previous outputs leave the live directory.
Archive ==
  /\ op.kind \in Restarts /\ op.pc = "prepare"
  /\ out' = [out EXCEPT ![manifest.dir] = NoOutput]
  /\ op' = [op EXCEPT !.pc = "issue"]
  /\ UNCHANGED <<manifest, journals, sched, where, view, effects>>

\* The status a record is left with; `job' is what the scheduler answered.
Mark(t, s, j) ==
  {IF r.txn = t THEN [r EXCEPT !.status = s, !.job = j] ELSE r : r \in journal}

ActionAcknowledged ==
  /\ op.kind \in Actions /\ op.pc = "reply" /\ op.job # 0
  /\ journal' = Mark(op.txn, "remote_accepted", op.job)
  /\ op' = [op EXCEPT !.pc = "commit"]
  /\ UNCHANGED <<manifest, submission, external, view, effects, lastTxn>>

\* A non-zero status of qdel/scancel is recorded as a definite failure, if that can
\* be written down: also the status -1 of a channel that was lost after the command
\* had acted.
CancelRefused ==
  /\ op.kind = "cancel" /\ op.pc = "reply"
  /\ journal' = Mark(op.txn, "failed", manifest.job)
  /\ op' = Idle
  /\ UNCHANGED <<manifest, submission, external, view, effects, lastTxn>>

\* Fault: a lost reply is recorded as a failure.
ActionUnansweredFailed ==
  /\ op.kind \in Actions /\ op.pc \in {"prepare", "reply"}
  /\ journal' = Mark(op.txn, "failed", 0)
  /\ op' = Idle
  /\ UNCHANGED <<manifest, submission, external, view, effects, lastTxn>>

\* No usable reply: the record is marked unknown, best effort.
ActionUnanswered ==
  /\ op.kind \in Actions /\ op.pc \in {"prepare", "reply"}
  /\ journal' \in {journal, Mark(op.txn, "unknown_remote_outcome", 0)}
  /\ op' = Idle
  /\ UNCHANGED <<manifest, submission, external, view, effects, lastTxn>>

CancelCommitted ==
  /\ op.kind = "cancel" /\ op.pc = "commit"
  /\ manifest' = [manifest EXCEPT
       !.state = "FAILED",
       !.attempts = @ \union {[action |-> "cancel", job |-> op.job, txn |-> op.txn,
                               key |-> op.key]}]
  /\ op' = [op EXCEPT !.pc = "close"]
  /\ UNCHANGED <<journals, external, view, effects>>

\* The old diagnosis and the old fetch evidence are consumed and the settling
\* baseline starts afresh.
Renewed(m) ==
  [m EXCEPT !.rounds = @ + 1, !.restartable = FALSE, !.checks = 0, !.ran = FALSE,
            !.notObserved = FALSE, !.basis = 0, !.fetched = NoEvidence]

\* job.yaml moves to the new generation.
RestartCommitted ==
  /\ op.kind \in Restarts /\ op.pc = "commit"
  /\ manifest' = [Renewed(manifest) EXCEPT
       !.state = "SUBMITTED", !.job = op.job,
       !.attempts = @ \union {[action |-> op.kind, job |-> op.job, txn |-> op.txn,
                               key |-> op.key]}]
  /\ op' = [op EXCEPT !.pc = "close"]
  /\ UNCHANGED <<journals, external, view, effects>>

ActionClosed ==
  /\ op.kind \in Actions /\ op.pc = "close"
  /\ journal' = Mark(op.txn, "succeeded", op.job)
  /\ op' = Idle
  /\ UNCHANGED <<manifest, submission, external, view, effects, lastTxn>>

-----------------------------------------------------------------------------
(* The command reaches the scheduler: the reply is not back yet.           *)

Executed(j) ==
  effects' = effects \union {[txn |-> op.txn, action |-> op.kind, key |-> op.key,
                              job |-> j, bounded |-> op.bounded]}

Launched(dir) ==
  /\ op.pc = "issue"
  /\ \E j \in Launchable :
       /\ \A i \in Launchable : j <= i
       /\ sched' = [sched EXCEPT ![j] =
                      IF RegistrationLag THEN "registering" ELSE "queued"]
       /\ where' = [where EXCEPT ![j] = dir]
       /\ Executed(j)
       /\ op' = [op EXCEPT !.pc = "reply", !.job = j]
  /\ UNCHANGED <<manifest, journals, out, view>>

SubmitExecuted  == op.kind = "submit" /\ Launched(Leaf)

\* Nothing in the code keeps a refresh with an older listing from coming after it.
RestartExecuted ==
  /\ op.kind \in Restarts
  /\ HeldListing \/ \A c \in Clients : view[c].pc # "loaded"
  /\ Launched(manifest.dir)

\* A running job may survive its cancellation for a while (scancel, qdel
\* only signal it); a job that never started is gone at once.
CancelExecuted ==
  /\ op.kind = "cancel" /\ op.pc = "issue"
  /\ manifest.job \in Alive
  /\ \/ sched' = [sched EXCEPT ![manifest.job] = "ended"]
     \/ SlowCancel /\ sched[manifest.job] = "running" /\ UNCHANGED sched
  /\ Executed(manifest.job)
  /\ op' = [op EXCEPT !.pc = "reply", !.job = manifest.job]
  /\ UNCHANGED <<manifest, journals, where, out, view>>

\* The scheduler, or a guard in front of it, refuses the command.
Refused ==
  /\ op.pc = "issue"
  /\ op' = [op EXCEPT !.pc = "reply"]
  /\ UNCHANGED <<manifest, journals, external, view, effects>>

\* The lock is released without another write: the process died, a durable
\* write failed, or the caller has its replayed answer.
Abort ==
  /\ op # Idle
  /\ op' = Idle
  /\ UNCHANGED <<manifest, journals, external, view, effects>>

-----------------------------------------------------------------------------
(* adopt_external_job: registers a job as it is found on the cluster.      *)

Adopt(j) ==
  /\ op = Idle
  /\ manifest.job = 0
  /\ sched[j] \in {"queued", "running", "ended"}
  /\ manifest' = [manifest EXCEPT
       !.state = "SUBMITTED", !.job = j, !.dir = where[j],
       !.attempts = @ \union {[action |-> "adopt", job |-> j, txn |-> 0, key |-> NoKey]}]
  /\ UNCHANGED <<journals, op, external, view, effects>>

-----------------------------------------------------------------------------
(* refresh_batch and refresh_job. *)

\* The caller picks its targets without the lock.
Select(c) ==
  /\ view[c].pc = "idle"
  /\ manifest.job # 0 /\ manifest.state \in Active
  /\ view' = [view EXCEPT ![c].pc = "selected"]
  /\ UNCHANGED <<manifest, journals, op, external, effects>>

\* query_scheduler: one listing, with or without reasons for ended jobs.
Query(c) ==
  /\ view[c].pc = "selected"
  /\ \E over \in {{}, {j \in Ids : sched[j] = "ended"}} :
       view' = [view EXCEPT ![c] =
         [pc |-> "loaded", over |-> over,
          queued  |-> {j \in Ids : sched[j] = "queued"},
          running |-> {j \in Ids : sched[j] = "running"}]]
  /\ UNCHANGED <<manifest, journals, op, external, effects>>

\* _in_continue_settling: a restarted job with no output of its own yet.
Settling ==
  /\ manifest.rounds >= 1
  /\ manifest.state \in Active
  /\ out[manifest.dir].kind = "none"

\* Fault: settling is never counted.
ChecksAfterNothing(reason) == IF reason THEN SettleMax ELSE manifest.checks

\* How many settling checks one more observation makes.
ChecksAfter(reason) == IF reason THEN SettleMax ELSE manifest.checks + 1

SettlingManifest(reason) ==
  IF ChecksAfter(reason) >= SettleMax
  THEN [manifest EXCEPT !.checks = ChecksAfter(reason), !.state = "NEEDS_HUMAN",
                        !.restartable = FALSE, !.notObserved = TRUE, !.basis = 0]
  ELSE [manifest EXCEPT !.checks = ChecksAfter(reason)]

\* diagnose.classify, down to what the output found can lead to: the state
\* and whether a frozen continuation may follow.  A signature in the log or the
\* exit code speaks louder than finished output.
Verdicts(kind) ==
  {v \in Terminal \X BOOLEAN :
     /\ v[1] = "DONE" => kind = "complete"
     /\ v[2] => kind # "none" /\ v[1] = "UNCONVERGED"}

RefreshJob(c) ==
  LET j == manifest.job
      o == out[manifest.dir]
      gone == j \notin view[c].queued \union view[c].running
  IN /\ op = Idle
     /\ view[c].pc = "loaded"
     /\ \/ j \in view[c].queued /\ manifest' = [manifest EXCEPT !.state = "QUEUED"]
        \/ /\ j \in view[c].running
           /\ manifest' = [manifest EXCEPT !.state = "RUNNING", !.ran = TRUE]
        \/ gone /\ Settling /\ manifest' = SettlingManifest(j \in view[c].over)
        \/ /\ gone /\ ~Settling
           /\ \E v \in Verdicts(o.kind) :
                manifest' = [manifest EXCEPT !.state = v[1], !.restartable = v[2],
                                             !.notObserved = FALSE, !.basis = o.job]
     /\ view' = [view EXCEPT ![c] = NoView]
     /\ UNCHANGED <<journals, op, external, effects>>

\* The lock is busy, the connection fails or the process dies.
SkipRefresh(c) ==
  /\ view[c].pc # "idle"
  /\ view' = [view EXCEPT ![c] = NoView]
  /\ UNCHANGED <<manifest, journals, op, external, effects>>

\* fetch_results (final): evidence bound to the current generation.
FetchResults ==
  /\ op = Idle
  /\ manifest.state = "DONE" /\ manifest.dir # "none"
  /\ manifest' = [manifest EXCEPT
       !.fetched = [job |-> manifest.job, src |-> out[manifest.dir].job]]
  /\ UNCHANGED <<journals, op, external, view, effects>>

-----------------------------------------------------------------------------
(* The batch scheduler and the programs it runs. *)

Register(j) ==
  /\ sched[j] = "registering"
  /\ sched' = [sched EXCEPT ![j] = "queued"]
  /\ UNCHANGED <<manifest, journals, op, where, out, view, effects>>

Start(j) ==
  /\ sched[j] = "queued"
  /\ sched' = [sched EXCEPT ![j] = "running"]
  /\ UNCHANGED <<manifest, journals, op, where, out, view, effects>>

Write(j) ==
  /\ sched[j] = "running"
  /\ out' = [out EXCEPT ![where[j]] = [job |-> j, kind |-> "partial"]]
  /\ UNCHANGED <<manifest, journals, op, sched, where, view, effects>>

\* A job ends with its output finished, or as far as it got.
End(j) ==
  /\ j \in Alive
  /\ sched' = [sched EXCEPT ![j] = "ended"]
  /\ \/ UNCHANGED out
     \/ /\ sched[j] = "running"
        /\ out' = [out EXCEPT ![where[j]] = [job |-> j, kind |-> "complete"]]
  /\ UNCHANGED <<manifest, journals, op, where, view, effects>>

ForeignLaunch(j) ==
  /\ sched[j] = "unborn"
  /\ sched' = [sched EXCEPT ![j] = "queued"]
  /\ where' = [where EXCEPT ![j] = Elsewhere]
  /\ UNCHANGED <<manifest, journals, op, out, view, effects>>

-----------------------------------------------------------------------------
(* The system. *)

Request ==
  \/ \E k \in AnyKey : ReplaySubmit(k) \/ StartSubmit(k) \/ StartCancel(k)
  \/ \E k \in AnyKey, b \in BOOLEAN :
       StartContinue(k, b) \/ StartTune(k, b) \/ RefuseOverlap(k, b)
  \/ \E a \in Actions, k \in Keys : ReplayAction(a, k)
  \/ Reconcile
  \/ FetchResults
  \/ \E j \in Ids : Adopt(j)

Proceed ==
  \/ Upload \/ SubmitExecuted \/ SubmitAcknowledged \/ SubmitUnanswered
  \/ SubmitCommitted \/ SubmitClosed
  \/ Archive \/ RestartExecuted \/ CancelExecuted \/ Refused
  \/ ActionAcknowledged \/ CancelRefused \/ ActionUnanswered
  \/ CancelCommitted \/ RestartCommitted \/ ActionClosed
  \/ Abort

Refresh(c) == Query(c) \/ RefreshJob(c)

Scheduler ==
  \/ \E j \in Ids : Register(j) \/ Start(j) \/ Write(j) \/ End(j)
  \/ \E j \in Foreign : ForeignLaunch(j)

Next ==
  \/ Request \/ Proceed \/ Scheduler
  \/ \E c \in Clients : Select(c) \/ Refresh(c) \/ SkipRefresh(c)

Spec == Init /\ [][Next]_vars

-----------------------------------------------------------------------------
(* What the journals promise, however the process dies and replies go missing. *)

\* job.yaml carries the scheduler job, under whatever action brought it there: a
\* submission whose answer was not written down may be adopted by its job id.
Taken(e) == \E x \in Launches : x.job = e.job

\* The durable record that a command was executed: an attempt of job.yaml, or
\* a journal record that bars every further command of its channel.
Accounted(e) ==
  \/ \E x \in manifest.attempts : x.txn = e.txn /\ x.action = e.action /\ x.job = e.job
  \/ e.action = "submit" /\ Taken(e)
  \/ e.action = "submit" /\ submission.txn = e.txn /\ submission.status # "none"
  \/ \E r \in Gate : r.txn = e.txn /\ r.action = e.action

\* No job the scheduler has started is ever forgotten: the command stands in
\* job.yaml with its scheduler id, or an unresolved record refuses the next
\* command (submit_job and both continuations write before they send, and write
\* the answer before they close).  A cancellation is no such command: cancel_job
\* records every non-zero status as a failure, so one that acted may be forgotten.
NoOrphan == \A e \in effects : e.action # "cancel" => Accounted(e)

\* Neither the journal nor job.yaml knows of the command.
Forgotten(e) ==
  /\ \A r \in journal : r.txn # e.txn
  /\ \A x \in manifest.attempts : x.txn # e.txn

\* A request key reaches the scheduler at most once per action, even after the
\* bounded journal forgot it (_reconcile_job_action falls back on job.yaml), with
\* one exception: a cancellation that acted and was recorded as failed, once the
\* journal has dropped that record.
KeyAtMostOnce ==
  \A e, f \in effects :
    e # f /\ e.txn <= f.txn /\ e.key = f.key /\ e.key # NoKey /\ e.action = f.action =>
      e.action = "cancel" /\ Forgotten(e)

\* A replayed answer describes a command that was executed and whose scheduler
\* job is still the one job.yaml names; a cancel or restart replay is the
\* caller's own, by key.
ReplayIsCurrent ==
  op.pc = "replayed" =>
    /\ op.job = manifest.job
    /\ \E e \in effects :
         /\ e.job = manifest.job
         /\ op.kind # "submit" => e.action = op.kind /\ e.key = op.key
         /\ op.kind = "submit" => e.action # "cancel"

\* Automatic restarts stop at CONTINUE_MAX_ROUNDS, over the whole life of the
\* job and counting every command the scheduler saw, answered or not.
AutoRoundsBounded == Cardinality({e \in effects : e.bounded}) <= MaxRounds

\* Each journal implements the abstract at-most-once channel.
Submitted == {e \in effects : e.action = "submit"}
Restarted == {e \in effects : e.action \in Restarts}
SubmitChannel == INSTANCE AtMostOnce WITH
  Txn      <- Txns,
  gate     <- IF submission.status = "none" THEN {} ELSE {submission.txn},
  accepted <- {e.txn : e \in Submitted},
  recorded <- {e.txn : e \in {s \in Submitted : Taken(s)}}
ActionChannel == INSTANCE AtMostOnce WITH
  Txn      <- Txns,
  gate     <- {r.txn : r \in Gate},
  accepted <- {e.txn : e \in Restarted},
  recorded <- {a.txn : a \in {x \in manifest.attempts : x.action \in Restarts}}

\* submit_job's recovery file is an at-most-once channel to the scheduler.
SubmitAtMostOnce == SubmitChannel!Spec
\* So is the journal for both continuations, although cancellations, whose recorded
\* failures may be none, open and close the gate they share.
ActionAtMostOnce == ActionChannel!Spec

-----------------------------------------------------------------------------
(* The inductive invariant behind NoOrphan. *)

Pending   == {"prepare", "issue", "reply", "commit"}
UnderWay  == Pending \union {"close"}

\* Transactions are drawn once; job.yaml and the scheduler agree on each.
TxnInv ==
  /\ \A r \in journal : r.txn <= lastTxn
  /\ \A e \in effects : e.txn <= lastTxn
  /\ \A x \in manifest.attempts : x.txn <= lastTxn
  /\ \A r, s \in journal : r.txn = s.txn => r = s
  /\ \A e \in effects, x \in manifest.attempts :
       x.txn = e.txn => x.action = e.action /\ x.job = e.job

\* An open submission record speaks of the only submission there was, and of the
\* job the scheduler answered it with.
SubmissionInv ==
  /\ submission.status # "none" =>
       \A x \in manifest.attempts : x.action = "submit" => x.txn = submission.txn
  /\ submission.status = "remote_accepted" =>
       \A e \in Submitted : e.txn = submission.txn => e.job = submission.job

\* The operation under way owns an open durable record until its outcome is
\* in job.yaml.
OpInv ==
  op.pc \in UnderWay =>
    /\ op.txn \in 1..lastTxn
    /\ op.kind # "none"
    /\ op.kind = "submit" => submission.txn = op.txn /\ submission.status # "none"
    /\ op.kind \in Actions /\ op.pc \in Pending =>
         \E r \in Gate : r.txn = op.txn /\ r.action = op.kind
    /\ op.pc \in Pending => \A x \in manifest.attempts : x.txn # op.txn
    /\ op.pc \in {"prepare", "issue"} =>
         /\ op.job = 0
         /\ \A e \in effects : e.txn # op.txn
         /\ op.kind = "submit" => submission.status # "remote_accepted"
    /\ \A e \in effects : e.txn = op.txn => e.action = op.kind /\ e.job = op.job
    /\ op.pc \in {"commit", "close"} => op.job # 0
    /\ op.pc = "close" =>
         \E x \in manifest.attempts : x.txn = op.txn /\ x.action = op.kind /\ x.job = op.job

\* A job that was ever launched has a directory, and so has a manifest that
\* names a job; only such a manifest is refreshed or restarted.
PlaceInv ==
  /\ \A j \in Ids : sched[j] # "unborn" => where[j] \in Dirs
  /\ manifest.job # 0 => manifest.dir \in Dirs
  /\ \A c \in Clients : view[c].pc # "idle" => manifest.job # 0
  /\ op.kind \in Actions /\ op.pc \in UnderWay => manifest.job # 0

\* The journals, job.yaml and the operation in progress agree.
IInv == TypeOK /\ TxnInv /\ SubmissionInv /\ OpInv /\ PlaceInv /\ NoOrphan

-----------------------------------------------------------------------------
(* The inductive invariants behind the keys, the replays, the rounds and the *)
(* refinements; each is one only together with IInv.                         *)

\* The scheduler's history, job.yaml, the journal and the operation under way give a
\* transaction one key; and a key is not sent while any of them has it (of a cancellation
\* that was recorded as failed the history alone may have it).
KeyInv ==
  /\ KeyAtMostOnce
  /\ \A e, f \in effects : e.txn = f.txn => e = f
  /\ \A e, f \in Submitted : e = f
  /\ \A e \in effects, x \in manifest.attempts : x.txn = e.txn => x.key = e.key
  /\ \A e \in effects, r \in journal : r.txn = e.txn => r.key = e.key /\ r.action = e.action
  /\ op.pc \in UnderWay =>
       /\ \A e \in effects : e.txn = op.txn => e.key = op.key
       /\ \A r \in journal : r.txn = op.txn => r.key = op.key /\ r.action = op.kind
  /\ op.kind = "submit" /\ op.pc \in Pending => manifest.attempts = {}
  /\ op.pc \in {"prepare", "issue"} =>
       /\ op.txn = lastTxn
       /\ \A e \in effects : e.action = op.kind =>
            /\ op.kind # "submit"
            /\ e.key = op.key /\ op.key # NoKey => op.kind = "cancel" /\ Forgotten(e)

\* What job.yaml says was done, and what was answered, the scheduler did; and at most
\* one record of a channel is unresolved.
DoneInv ==
  /\ ReplayIsCurrent
  /\ \A x \in manifest.attempts :
       /\ x.action = "adopt" => x.key = NoKey
       /\ x.action # "adopt" =>
            \E e \in effects : e.txn = x.txn /\ e.action = x.action /\ e.job = x.job
  /\ op.pc \in Pending /\ op.job # 0 => \E e \in effects : e.txn = op.txn
  /\ submission.status # "none" => submission.txn \in 1..lastTxn
  /\ submission.status = "remote_accepted" => \E e \in Submitted : e.job = submission.job
  /\ \A r, s \in Gate : r = s
  /\ op.kind \in Actions /\ op.pc \in UnderWay => \A r \in Gate : r.txn = op.txn

Bounded == {e \in effects : e.bounded}
Counted == {e \in Bounded : \E x \in manifest.attempts : x.txn = e.txn}

\* Every automatic restart that job.yaml carries is a round it has counted, and the one
\* it does not carry was begun while a round was left.
RoundsInv ==
  /\ AutoRoundsBounded
  /\ IsFiniteSet(effects)
  /\ Cardinality(Counted) <= manifest.rounds
  /\ op.pc \in UnderWay /\ op.bounded => op.kind \in Restarts
  /\ \A e \in Bounded : e.action \in Restarts
  /\ op.pc \in {"prepare", "issue"} /\ op.bounded => Cardinality(Bounded) < MaxRounds
  /\ op.pc \in UnderWay => \A e \in effects : e.txn = op.txn => e.bounded = op.bounded

-----------------------------------------------------------------------------
(* What holds when the queue listing is prompt, cancellation immediate and   *)
(* no refresh holds a listing across a restart.                              *)

\* Two jobs never run in, or wait for, one directory ("two VASP writing one
\* OUTCAR" is what _require_continue_terminal_state is there to prevent).
AtMostOneLive ==
  \A i, j \in Alive : where[i] = where[j] /\ where[i] # "none" => i = j

\* A verdict never rests on output older than the job it is recorded for (the
\* scheduler numbers jobs in the order they are submitted).
NoStaleVerdict == manifest.basis = 0 \/ manifest.basis >= manifest.job

\* A job reported active is eventually given a terminal state.
Settles == manifest.state \in Active ~> manifest.state \in Terminal

\* The poller thread wakes for ever and its connection does not fail for ever,
\* an operation that holds the lock goes on or dies, the scheduler does not keep
\* a job for ever (its walltime ends it), and the users' requests, each of which
\* makes a refresh that meets it skip its turn, come to an end.
Fairness ==
  /\ WF_vars(Proceed)
  /\ \A c \in Clients :
       WF_vars(Select(c)) /\ SF_vars(Query(c)) /\ SF_vars(RefreshJob(c))
  /\ \A j \in Ids : WF_vars(Register(j)) /\ WF_vars(Start(j)) /\ WF_vars(End(j))
  /\ <>[][~Request]_vars

FairSpec == Spec /\ Fairness

-----------------------------------------------------------------------------
(* The inductive invariants behind AtMostOneLive and NoStaleVerdict; each is *)
(* one only together with those before it.                                   *)

\* The environment of this section, with at most one job of another program.
Prompt ==
  /\ ~RegistrationLag /\ ~SlowCancel /\ ~HeldListing
  /\ \A f, g \in Foreign : f = g

Born(j) == sched[j] # "unborn"

\* Where jobs come from: another program's from elsewhere, ours from the one submission,
\* or from a restart, and then they are where job.yaml says.
BirthInv ==
  /\ \A j \in Ids : sched[j] # "registering"
  /\ \A f \in Foreign : Born(f) => where[f] = Elsewhere
  /\ \A j \in Ids : Born(j) /\ where[j] = Elsewhere => \A f \in Foreign : Born(f)
  /\ \A j \in Ids \ Foreign : Born(j) =>
       \/ where[j] = Leaf /\ \E e \in Submitted : e.job = j
       \/ manifest.job # 0 /\ where[j] = manifest.dir
  /\ \A e \in effects : e.action # "cancel" => Born(e.job) /\ e.job \notin Foreign
  /\ \A e \in effects : e.action \in Restarts =>
       manifest.job # 0 /\ where[e.job] = manifest.dir
  /\ \A e, f \in Submitted : e = f
  /\ manifest.job # 0 => Born(manifest.job) /\ where[manifest.job] = manifest.dir
  /\ op.kind = "submit" /\ op.pc \in Pending => manifest.job = 0

\* A restart the scheduler executed and job.yaml does not carry.
Unrecorded(e) == e.action \in Restarts /\ \A x \in manifest.attempts : x.txn # e.txn

\* Next to the job that job.yaml names only a restart runs that job.yaml does not carry,
\* and only after the end of that job; a listing in hand misses no job it could be about.
LiveInv ==
  /\ manifest.state \in Terminal => manifest.job \notin Alive
  /\ op.kind \in Restarts /\ op.pc \in Pending => manifest.state \in Terminal
  /\ op.kind = "cancel" /\ op.pc \in {"reply", "commit"} /\ op.job # 0 =>
       op.job = manifest.job /\ op.job \notin Alive
  /\ manifest.job # 0 => \A j \in Alive \ {manifest.job} : where[j] = manifest.dir =>
       manifest.job \notin Alive /\ \E e \in effects : e.job = j /\ Unrecorded(e)
  /\ \A c \in Clients : view[c].pc = "loaded" =>
       \A j \in Alive : j \notin Foreign \/ j = manifest.job =>
         j \in view[c].queued \union view[c].running

\* The output of a directory is by a job that ran there, and not older than the job that
\* job.yaml names there; when a restart is sent there is none.
OutputInv ==
  /\ NoStaleVerdict
  /\ manifest.job = 0 => manifest.basis = 0
  /\ \A i, j \in Ids \ Foreign : i < j /\ Born(j) => Born(i)
  /\ \A e \in effects : Unrecorded(e) => e.job > manifest.job
  /\ \A d \in Dirs, j \in Ids : out[d].job = j => Born(j) /\ where[j] = d
  /\ manifest.job # 0 => out[manifest.dir].job = 0 \/ out[manifest.dir].job >= manifest.job
  /\ op.kind \in Restarts /\ op.pc \in {"issue", "reply", "commit"} =>
       out[manifest.dir].job \in {0, op.job}

-----------------------------------------------------------------------------
(* What docs and comments say and the code does not do. *)

=============================================================================
