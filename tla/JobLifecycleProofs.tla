------------------------ MODULE JobLifecycleProofs ------------------------
(* Proofs about JobLifecycle, for every number of jobs, transactions, keys    *)
(* and pollers.  IInv gives type correctness and NoOrphan; on top of it       *)
(* KeyInv gives KeyAtMostOnce, DoneInv ReplayIsCurrent and the refinement of  *)
(* AtMostOnce by both journals, RoundsInv AutoRoundsBounded; and in the       *)
(* environment of Prompt, BirthInv and LiveInv give AtMostOneLive and         *)
(* OutputInv NoStaleVerdict.                                                  *)
EXTENDS JobLifecycle, FiniteSetTheorems, TLAPS

\* The initial state satisfies the inductive invariant.
LEMMA InitInv == Init => IInv
  <1> SUFFICES ASSUME Init PROVE IInv
    OBVIOUS
  <1>1. TypeOK
    BY BoundsAssumption DEF Init, TypeOK, Manifest, NoEvidence, Evidence, Submission, NoSubmission,
           Operation, Idle, AnyKey, View, NoView, Output, NoOutput, States, Dirs,
           Ids, Attempt
  <1>2. TxnInv /\ SubmissionInv /\ NoOrphan
    BY DEF Init, TxnInv, SubmissionInv, Submitted, NoSubmission, NoOrphan
  <1>3. OpInv /\ PlaceInv
    BY DEF Init, OpInv, PlaceInv, Idle, UnderWay, Pending, NoView
  <1> QED
    BY <1>1, <1>2, <1>3 DEF IInv

-----------------------------------------------------------------------------
(* Steps that touch no journal, no attempt and not the operation.            *)

\* Such a step keeps every part of the invariant that is about transactions.
LEMMA QuietStep ==
  ASSUME IInv, UNCHANGED <<journals, op, effects>>,
         manifest'.attempts = manifest.attempts
  PROVE  TxnInv' /\ SubmissionInv' /\ OpInv' /\ NoOrphan'
  <1>1. TxnInv' /\ SubmissionInv'
    BY DEF IInv, TxnInv, SubmissionInv, Submitted, journals
  <1>2. OpInv'
    BY DEF IInv, OpInv, journals, Gate
  <1>3. NoOrphan'
    BY DEF IInv, NoOrphan, Accounted, Taken, Launches, journals, Gate
  <1> QED
    BY <1>1, <1>2, <1>3

\* The scheduler's own steps.
LEMMA SchedulerStep == IInv /\ Scheduler => IInv'
  <1> SUFFICES ASSUME IInv, Scheduler PROVE IInv'
    OBVIOUS
  <1>1. UNCHANGED <<manifest, journals, op, view, effects>>
    BY DEF Scheduler, Register, Start, Write, End, ForeignLaunch
  <1>2. sched' \in [Ids -> {"unborn", "registering", "queued", "running", "ended"}]
    BY DEF IInv, TypeOK, Scheduler, Register, Start, Write, End, ForeignLaunch, Ids, Alive
  <1>3. /\ where' \in [Ids -> Dirs \union {"none"}]
        /\ \A j \in Ids : sched'[j] # "unborn" => where'[j] \in Dirs
    BY DEF IInv, TypeOK, PlaceInv, Scheduler, Register, Start, Write, End, ForeignLaunch,
           Ids, Alive, Dirs
  <1>4. out' \in [Dirs -> Output]
    <2>1. out \in [Dirs -> Output]
      BY DEF IInv, TypeOK
    <2>2. ASSUME NEW j \in Ids, NEW k \in {"partial", "complete"},
                 out' = [out EXCEPT ![where[j]] = [job |-> j, kind |-> k]]
          PROVE  out' \in [Dirs -> Output]
      <3>1. [job |-> j, kind |-> k] \in Output
        BY DEF Output
      <3> QED
        BY <2>1, <2>2, <3>1
    <2>3. UNCHANGED out \/ \E j \in Ids, k \in {"partial", "complete"} :
            out' = [out EXCEPT ![where[j]] = [job |-> j, kind |-> k]]
      BY DEF Scheduler, Register, Start, Write, End, ForeignLaunch, Alive
    <2> QED
      BY <2>1, <2>2, <2>3
  <1>5. TypeOK' /\ PlaceInv'
    BY <1>1, <1>2, <1>3, <1>4 DEF IInv, TypeOK, PlaceInv, journals
  <1> QED
    BY <1>1, <1>5, QuietStep DEF IInv

\* A refresh writes what it saw of the job: a state, a check more, or a verdict.
LEMMA RefreshWrites ==
  ASSUME IInv, NEW c \in Clients, RefreshJob(c)
  PROVE  /\ manifest' \in Manifest
         /\ manifest'.attempts = manifest.attempts
         /\ manifest'.job = manifest.job
         /\ manifest'.dir = manifest.dir
         /\ manifest'.rounds = manifest.rounds
         /\ manifest'.basis \in {manifest.basis, 0, out[manifest.dir].job}
         /\ manifest'.state \in Terminal =>
              \/ manifest.state \in Terminal
              \/ manifest.job \notin view[c].queued \union view[c].running
  <1> USE DEF IInv
  <1>1. manifest \in Manifest /\ manifest.job # 0 /\ manifest.dir \in Dirs
    BY DEF RefreshJob, TypeOK, PlaceInv
  <1>2. out[manifest.dir].job \in Ids \union {0}
    BY <1>1 DEF TypeOK, Output
  <1>3. CASE \E st \in {"QUEUED", "RUNNING"} :
               manifest' \in {[manifest EXCEPT !.state = st],
                              [manifest EXCEPT !.state = st, !.ran = TRUE]}
    BY <1>1, <1>3 DEF Manifest, States, Active, Terminal
  <1>4. CASE /\ manifest.job \notin view[c].queued \union view[c].running
             /\ \E b \in BOOLEAN : manifest' = SettlingManifest(b)
    <2>1. \A b \in BOOLEAN : ChecksAfter(b) \in Nat
      BY <1>1, BoundsAssumption DEF ChecksAfter, Manifest
    <2>2. \A n \in Nat :
            /\ [manifest EXCEPT !.checks = n, !.state = "NEEDS_HUMAN",
                  !.restartable = FALSE, !.notObserved = TRUE, !.basis = 0] \in Manifest
            /\ [manifest EXCEPT !.checks = n] \in Manifest
      BY <1>1 DEF Manifest, States, Terminal
    <2>3. PICK b \in BOOLEAN : manifest' = SettlingManifest(b)
      BY <1>4
    <2>4. manifest' \in Manifest
      BY <2>1, <2>2, <2>3 DEF SettlingManifest
    <2>5. manifest.attempts = manifest'.attempts /\ manifest.job = manifest'.job
          /\ manifest.dir = manifest'.dir /\ manifest.rounds = manifest'.rounds
          /\ manifest'.basis \in {manifest.basis, 0}
      BY <1>1, <2>3 DEF SettlingManifest, Manifest
    <2> QED
      BY <1>4, <2>4, <2>5
  <1>5. CASE /\ manifest.job \notin view[c].queued \union view[c].running
             /\ \E st \in Terminal, b \in BOOLEAN :
                  manifest' = [manifest EXCEPT !.state = st, !.restartable = b,
                                 !.notObserved = FALSE, !.basis = out[manifest.dir].job]
    <2>1. PICK st \in Terminal, b \in BOOLEAN :
            manifest' = [manifest EXCEPT !.state = st, !.restartable = b,
                           !.notObserved = FALSE, !.basis = out[manifest.dir].job]
      BY <1>5
    <2>2. manifest' \in Manifest
      BY <1>1, <1>2, <2>1 DEF Manifest, States
    <2>3. /\ manifest'.attempts = manifest.attempts /\ manifest'.job = manifest.job
          /\ manifest'.dir = manifest.dir /\ manifest'.rounds = manifest.rounds
          /\ manifest'.basis = out[manifest.dir].job
      BY <1>1, <2>1 DEF Manifest
    <2> QED
      BY <1>5, <2>2, <2>3
  <1>6. \A v \in Verdicts(out[manifest.dir].kind) : v[1] \in Terminal /\ v[2] \in BOOLEAN
    BY DEF Verdicts
  <1>7. CASE manifest.job \in view[c].queued \/ manifest.job \in view[c].running
    <2>1. \/ manifest' = [manifest EXCEPT !.state = "QUEUED"]
          \/ manifest' = [manifest EXCEPT !.state = "RUNNING", !.ran = TRUE]
      BY <1>7 DEF RefreshJob
    <2> QED
      BY <1>3, <2>1
  <1>8. CASE manifest.job \notin view[c].queued \union view[c].running
    <2>1. CASE Settling
      <3>1. manifest' = SettlingManifest(manifest.job \in view[c].over)
        BY <1>8, <2>1 DEF RefreshJob
      <3>2. (manifest.job \in view[c].over) \in BOOLEAN
        OBVIOUS
      <3> QED
        BY <1>4, <1>8, <3>1, <3>2
    <2>2. CASE ~Settling
      <3>1. PICK v \in Verdicts(out[manifest.dir].kind) :
              manifest' = [manifest EXCEPT !.state = v[1], !.restartable = v[2],
                             !.notObserved = FALSE, !.basis = out[manifest.dir].job]
        BY <1>8, <2>2 DEF RefreshJob
      <3>2. v[1] \in Terminal /\ v[2] \in BOOLEAN
        BY <1>6
      <3> QED
        BY <1>5, <1>8, <3>1, <3>2
    <2> QED
      BY <2>1, <2>2
  <1> QED
    BY <1>7, <1>8

\* A poller's steps: the listing changes, or one verdict is written.
LEMMA PollerStep ==
  ASSUME IInv, NEW c \in Clients, Select(c) \/ Refresh(c) \/ SkipRefresh(c)
  PROVE  IInv'
  <1> USE DEF IInv
  <1>1. UNCHANGED <<journals, op, external, effects>>
    BY DEF Select, Refresh, Query, RefreshJob, SkipRefresh
  <1>2. view' \in [Clients -> View]
    <2>1. \E v \in View : view' = [view EXCEPT ![c] = v]
      <3>1. CASE Select(c)
        <4>1. [view[c] EXCEPT !.pc = "selected"] \in View
          BY DEF TypeOK, View
        <4> QED
          BY <3>1, <4>1 DEF Select, TypeOK, View
      <3>2. CASE Query(c)
        <4>1. \A over \in {{}, {j \in Ids : sched[j] = "ended"}} :
                [pc |-> "loaded", over |-> over,
                 queued  |-> {j \in Ids : sched[j] = "queued"},
                 running |-> {j \in Ids : sched[j] = "running"}] \in View
          BY DEF View
        <4> QED
          BY <3>2, <4>1 DEF Query
      <3>3. CASE RefreshJob(c) \/ SkipRefresh(c)
        <4>1. NoView \in View
          BY DEF NoView, View
        <4> QED
          BY <3>3, <4>1 DEF RefreshJob, SkipRefresh
      <3> QED
        BY <3>1, <3>2, <3>3 DEF Refresh
    <2> QED
      BY <2>1 DEF TypeOK
  <1>3. \A d \in Clients : view'[d].pc # "idle" => view[d].pc # "idle" \/ manifest.job # 0
    <2>1. CASE Select(c)
      BY <2>1 DEF Select, TypeOK, View
    <2>2. CASE Query(c)
      BY <2>2 DEF Query, TypeOK, View
    <2>3. CASE RefreshJob(c) \/ SkipRefresh(c)
      BY <2>3 DEF RefreshJob, SkipRefresh, TypeOK, View, NoView
    <2> QED
      BY <2>1, <2>2, <2>3 DEF Refresh
  <1>4. /\ manifest' \in Manifest
        /\ manifest'.attempts = manifest.attempts
        /\ manifest'.job = manifest.job
        /\ manifest'.dir = manifest.dir
    <2>1. CASE UNCHANGED manifest
      BY <2>1 DEF TypeOK
    <2>2. CASE RefreshJob(c)
      BY <2>2, RefreshWrites
    <2> QED
      BY <2>1, <2>2 DEF Select, Refresh, Query, SkipRefresh
  <1>5. TypeOK' /\ PlaceInv'
    BY <1>1, <1>2, <1>3, <1>4 DEF TypeOK, PlaceInv, journals, external
  <1> QED
    BY <1>1, <1>4, <1>5, QuietStep

\* Requests that write job.yaml alone: a fetch, an overlap refusal.
LEMMA ManifestOnlyStep ==
  ASSUME IInv,
         FetchResults \/ \E k \in AnyKey, b \in BOOLEAN : RefuseOverlap(k, b)
  PROVE  IInv'
  <1> USE DEF IInv
  <1>1. UNCHANGED <<journals, op, external, view, effects>>
    BY DEF FetchResults, RefuseOverlap
  <1>2. /\ manifest' \in Manifest
        /\ manifest'.attempts = manifest.attempts
        /\ manifest'.job = manifest.job
        /\ manifest'.dir = manifest.dir
    <2>1. CASE FetchResults
      <3>1. manifest \in Manifest /\ manifest.dir \in Dirs
        BY <2>1 DEF FetchResults, TypeOK, Manifest
      <3>2. [job |-> manifest.job, src |-> out[manifest.dir].job] \in Evidence
        BY <3>1 DEF TypeOK, Output, Evidence, Manifest
      <3> QED
        BY <2>1, <3>1, <3>2 DEF FetchResults, Manifest
    <2>2. CASE \E k \in AnyKey, b \in BOOLEAN : RefuseOverlap(k, b)
      BY <2>2 DEF RefuseOverlap, TypeOK, Manifest, States, Terminal
    <2> QED
      BY <2>1, <2>2
  <1>3. TypeOK' /\ PlaceInv'
    BY <1>1, <1>2 DEF TypeOK, PlaceInv, journals, external
  <1> QED
    BY <1>1, <1>2, <1>3, QuietStep

-----------------------------------------------------------------------------
(* Requests that open, settle or replay a transaction.                       *)

\* A submission begins with an empty history and a fresh transaction.
LEMMA StartSubmitStep ==
  ASSUME IInv, NEW k \in AnyKey, StartSubmit(k)
  PROVE  IInv'
  <1> USE DEF IInv
  <1>0. NextTxn \in Txns /\ lastTxn \in Nat /\ lastTxn' = NextTxn /\ NextTxn > lastTxn
    BY BoundsAssumption DEF StartSubmit, NextTxn, Txns, TypeOK
  <1>1. TypeOK'
    <2>1. submission' \in Submission
      BY <1>0 DEF StartSubmit, Submission
    <2>2. op' \in Operation
      BY <1>0 DEF StartSubmit, Idle, Operation
    <2>3. lastTxn' \in 0..MaxTxn
      BY <1>0 DEF Txns
    <2> QED
      BY <2>1, <2>2, <2>3 DEF StartSubmit, TypeOK, external
  <1>2. TxnInv' /\ SubmissionInv'
    BY <1>0 DEF StartSubmit, TxnInv, SubmissionInv, Submitted, TypeOK, Record, Effect, Txns
  <1>3. OpInv'
    BY <1>0 DEF StartSubmit, TypeOK, TxnInv, OpInv, Idle, UnderWay, Pending, Actions,
                Restarts, Effect, Txns
  <1>4. PlaceInv'
    BY DEF StartSubmit, PlaceInv, Idle, Actions, Restarts, external
  <1>5. NoOrphan'
    BY DEF StartSubmit, NoOrphan, Accounted, Taken, Launches, Gate
  <1> QED
    BY <1>1, <1>2, <1>3, <1>4, <1>5

\* A replayed submission may clear a record that job.yaml has taken over.
LEMMA ReplaySubmitStep ==
  ASSUME IInv, NEW k \in AnyKey, ReplaySubmit(k)
  PROVE  IInv'
  <1> USE DEF IInv
  <1>1. TypeOK'
    <2>1. submission' \in Submission
      BY DEF ReplaySubmit, TypeOK, Submission, NoSubmission
    <2>2. op' \in Operation
      BY DEF ReplaySubmit, TypeOK, Idle, Operation, Manifest
    <2> QED
      BY <2>1, <2>2 DEF ReplaySubmit, TypeOK, external
  <1>2. TxnInv' /\ SubmissionInv'
    BY DEF ReplaySubmit, TxnInv, SubmissionInv, Submitted, NoSubmission
  <1>3. OpInv' /\ PlaceInv'
    BY DEF ReplaySubmit, OpInv, PlaceInv, Idle, UnderWay, Pending, external
  <1>4. NoOrphan'
    <2>1. CASE UNCHANGED submission
      BY <2>1 DEF ReplaySubmit, NoOrphan, Accounted, Taken, Launches, Gate
    <2>2. CASE /\ submission.status = "remote_accepted"
               /\ submission.job = manifest.job
               /\ \E a \in Launches : a.job = manifest.job
      <3>1. \A e \in Submitted : e.txn = submission.txn => Taken(e)
        BY <2>2 DEF SubmissionInv, Taken
      <3> QED
        BY <3>1 DEF ReplaySubmit, NoOrphan, Accounted, Taken, Launches, Submitted, Gate
    <2> QED
      BY <2>1, <2>2 DEF ReplaySubmit
  <1> QED
    BY <1>1, <1>2, <1>3, <1>4

\* Settled records are those whose transaction job.yaml carries.
LEMMA ReconcileStep ==
  ASSUME IInv, Reconcile
  PROVE  IInv'
  <1> USE DEF IInv
  <1>1. Gate \subseteq journal /\ journal \subseteq Record
    BY DEF Gate, TypeOK
  <1>2. \A r \in Gate : [r EXCEPT !.status = "succeeded"] \in Record
    BY <1>1 DEF Record, Resolved
  <1>3. TypeOK'
    BY <1>1, <1>2 DEF Reconcile, TypeOK, external
  <1>4. TxnInv'
    <2> DEFINE Settled(s) == [s EXCEPT !.status = "succeeded"]
    <2>1. \A r \in journal' : r \in journal \ Gate \/ \E s \in Gate : r = Settled(s)
      BY DEF Reconcile
    <2>2. \A s \in Gate : Settled(s).txn = s.txn /\ s \in journal
      BY <1>1 DEF Record
    <2>3. \A r, s \in journal' : r.txn = s.txn => r = s
      <3> SUFFICES ASSUME NEW r \in journal', NEW s \in journal', r.txn = s.txn
                   PROVE  r = s
        OBVIOUS
      <3> HIDE DEF Settled
      <3> QED
        BY <2>1, <2>2 DEF TxnInv
    <2>4. \A r \in journal' : r.txn <= lastTxn'
      <3> HIDE DEF Settled
      <3> QED
        BY <2>1, <2>2 DEF TxnInv, Reconcile
    <2> QED
      BY <2>3, <2>4 DEF TxnInv, Reconcile
  <1>5. SubmissionInv' /\ PlaceInv'
    BY DEF Reconcile, SubmissionInv, Submitted, PlaceInv, external
  <1>6. OpInv'
    BY DEF Reconcile, OpInv, Idle, UnderWay, Pending
  <1>7. NoOrphan'
    <2>1. \A r \in Gate : \E x \in manifest.attempts : x.txn = r.txn /\ x.action = r.action
      BY DEF Reconcile, Settleable, GenerationMatches
    <2>2. \A e \in effects, r \in Gate : e.txn = r.txn =>
            \E x \in manifest.attempts : x.txn = e.txn /\ x.action = e.action /\ x.job = e.job
      BY <2>1 DEF TxnInv
    <2> QED
      BY <2>2 DEF NoOrphan, Accounted, Taken, Launches, Reconcile
  <1> QED
    BY <1>3, <1>4, <1>5, <1>6, <1>7

\* A replayed action only takes the lock.
LEMMA ReplayActionStep ==
  ASSUME IInv, NEW a \in Actions, NEW k \in Keys, ReplayAction(a, k)
  PROVE  IInv'
  <1> USE DEF IInv
  <1>1. op' \in Operation
    BY DEF ReplayAction, TypeOK, Idle, Operation, Manifest, AnyKey
  <1>2. TypeOK'
    BY <1>1 DEF ReplayAction, TypeOK, external, journals
  <1>3. TxnInv' /\ SubmissionInv' /\ NoOrphan'
    BY DEF ReplayAction, TxnInv, SubmissionInv, Submitted, NoOrphan, Accounted, Taken, Launches, Gate, journals
  <1>4. OpInv' /\ PlaceInv'
    BY DEF ReplayAction, OpInv, PlaceInv, Idle, UnderWay, Pending, external
  <1> QED
    BY <1>2, <1>3, <1>4

\* An action begins with nothing unresolved and a fresh transaction.
LEMMA StartActionStep ==
  ASSUME IInv, NEW a \in Actions, NEW k \in AnyKey, NEW b \in BOOLEAN,
         NEW pc \in {"prepare", "issue"}, manifest.job # 0, StartAction(a, k, b, pc)
  PROVE  IInv'
  <1> USE DEF IInv
  <1> DEFINE rec == [txn |-> NextTxn, action |-> a, key |-> k, src |-> manifest.job,
                     job |-> 0, status |-> "prepared"]
  <1>0. NextTxn \in Txns /\ lastTxn \in Nat /\ lastTxn' = NextTxn /\ NextTxn > lastTxn
    BY BoundsAssumption DEF StartAction, NextTxn, Txns, TypeOK
  <1>1. Trim(journal) \subseteq journal /\ journal' = Trim(journal) \union {rec}
    BY DEF Trim, StartAction
  <1>2. rec \in Record
    BY <1>0 DEF Record, TypeOK, Manifest, Unresolved
  <1>3. TypeOK'
    <2>1. op' \in Operation
      BY <1>0 DEF StartAction, Operation
    <2>2. lastTxn' \in 0..MaxTxn
      BY <1>0 DEF Txns
    <2> QED
      BY <1>1, <1>2, <2>1, <2>2 DEF StartAction, TypeOK, external
  <1>4. TxnInv'
    <2>1. \A r \in journal' : r.txn \in Nat /\ r.txn <= lastTxn'
      BY <1>0, <1>1, <1>2 DEF TxnInv, TypeOK, Record, Txns
    <2>2. \A r \in journal : r.txn # NextTxn
      BY <1>0 DEF TxnInv, TypeOK, Record, Txns
    <2>3. \A r, s \in journal' : r.txn = s.txn => r = s
      BY <1>1, <2>2 DEF TxnInv
    <2>4. \A e \in effects : e.txn <= lastTxn'
      BY <1>0 DEF TxnInv, TypeOK, Effect, Txns
    <2>5. \A x \in manifest.attempts : x.txn <= lastTxn'
      BY <1>0 DEF TxnInv, TypeOK, Manifest, Attempt, Txns
    <2> QED
      BY <2>1, <2>3, <2>4, <2>5 DEF TxnInv, StartAction
  <1>5. SubmissionInv' /\ PlaceInv'
    BY DEF StartAction, SubmissionInv, Submitted, PlaceInv, external
  <1>6. OpInv'
    <2>1. /\ op' = [kind |-> a, pc |-> pc, txn |-> NextTxn, key |-> k, job |-> 0,
                    bounded |-> b]
          /\ UNCHANGED <<manifest, effects>>
      BY DEF StartAction
    <2>2. rec \in Gate'
      BY <1>1 DEF Gate, Unresolved
    <2>3. (\A e \in effects : e.txn # NextTxn)
          /\ (\A x \in manifest.attempts : x.txn # NextTxn)
      BY <1>0 DEF TxnInv, TypeOK, Effect, Manifest, Attempt, Txns
    <2>4. NextTxn \in 1..lastTxn'
      BY <1>0 DEF Txns
    <2> QED
      BY <2>1, <2>2, <2>3, <2>4 DEF OpInv, UnderWay, Pending, Actions, Restarts
  <1>7. NoOrphan'
    BY DEF StartAction, NoOrphan, Accounted, Taken, Launches
  <1> QED
    BY <1>3, <1>4, <1>5, <1>6, <1>7

\* Adoption records a job that no transaction of ours names.
LEMMA AdoptStep ==
  ASSUME IInv, NEW j \in Ids, Adopt(j)
  PROVE  IInv'
  <1> USE DEF IInv
  <1> DEFINE a == [action |-> "adopt", job |-> j, txn |-> 0, key |-> NoKey]
  <1>1. where[j] \in Dirs
    BY DEF Adopt, PlaceInv
  <1>2. a \in Attempt
    BY DEF Attempt, AnyKey
  <1>3. manifest' \in Manifest
    BY <1>1, <1>2 DEF Adopt, TypeOK, Manifest, States, Active
  <1>4. TypeOK'
    BY <1>3 DEF Adopt, TypeOK, external, journals
  <1>5. manifest'.attempts = manifest.attempts \union {a}
    BY DEF Adopt, TypeOK, Manifest
  <1>6. TxnInv' /\ SubmissionInv'
    BY <1>5 DEF Adopt, TxnInv, SubmissionInv, Submitted, TypeOK, Effect, Txns, journals
  <1>7. OpInv'
    BY DEF Adopt, OpInv, Idle, UnderWay, Pending
  <1>8. PlaceInv'
    BY <1>1 DEF Adopt, PlaceInv, TypeOK, Manifest, external
  <1>9. NoOrphan'
    BY <1>5 DEF Adopt, NoOrphan, Accounted, Taken, Launches, Gate, journals
  <1> QED
    BY <1>4, <1>6, <1>7, <1>8, <1>9

-----------------------------------------------------------------------------
(* Steps of the operation that holds the lock.                               *)

\* Releasing the lock without a write leaves every record as it stands.
LEMMA AbortStep == ASSUME IInv, Abort PROVE IInv'
  <1> USE DEF IInv
  <1>1. TypeOK'
    BY DEF Abort, TypeOK, Idle, Operation, AnyKey, journals, external
  <1>2. TxnInv' /\ SubmissionInv' /\ NoOrphan'
    BY DEF Abort, TxnInv, SubmissionInv, Submitted, NoOrphan, Accounted, Taken, Launches, Gate, journals
  <1>3. OpInv' /\ PlaceInv'
    BY DEF Abort, OpInv, PlaceInv, Idle, UnderWay, Pending, external
  <1> QED
    BY <1>1, <1>2, <1>3

\* Progress of an operation that writes nothing the invariant speaks of.
LEMMA AdvanceStep == ASSUME IInv, Archive \/ Refused PROVE IInv'
  <1> USE DEF IInv
  <1>1. UNCHANGED <<manifest, journals, sched, where, view, effects>>
    BY DEF Archive, Refused, external
  <1>2. PICK pc \in {"issue", "reply"} : op' = [op EXCEPT !.pc = pc]
    BY DEF Archive, Refused
  <1>3. op.pc \in {"prepare", "issue"}
    BY DEF Archive, Refused
  <1>4. out' \in [Dirs -> Output]
    BY DEF Archive, Refused, external, TypeOK, Output, NoOutput
  <1>5. op' \in Operation /\ op'.pc = pc /\ op'.kind = op.kind /\ op'.txn = op.txn
        /\ op'.job = op.job
    BY <1>2 DEF TypeOK, Operation
  <1>6. TypeOK'
    BY <1>1, <1>4, <1>5 DEF TypeOK, journals
  <1>7. TxnInv' /\ SubmissionInv' /\ NoOrphan'
    BY <1>1 DEF TxnInv, SubmissionInv, Submitted, NoOrphan, Accounted, Taken, Launches, Gate, journals
  <1>8. OpInv'
    BY <1>1, <1>3, <1>5 DEF OpInv, UnderWay, Pending, Gate, journals
  <1>9. PlaceInv'
    BY <1>1, <1>3, <1>5 DEF PlaceInv, UnderWay, Pending, TypeOK
  <1> QED
    BY <1>6, <1>7, <1>8, <1>9

\* The submission's own writes of its recovery record, and its lost reply.
LEMMA SubmitRecordStep ==
  ASSUME IInv, Upload \/ SubmitAcknowledged \/ SubmitUnanswered
  PROVE  IInv'
  <1> USE DEF IInv
  <1>1. /\ UNCHANGED <<journal, external, view, effects, lastTxn>>
        /\ op.kind = "submit"
        /\ op.pc \in {"prepare", "reply"}
        /\ submission.status # "none" /\ submission.txn = op.txn
    BY DEF Upload, SubmitAcknowledged, SubmitUnanswered, OpInv, UnderWay, Pending
  <1>2. submission' \in Submission /\ submission'.txn = submission.txn
        /\ submission'.status # "none"
    <2>0. submission \in Submission /\ op.job \in Ids \union {0}
      BY DEF TypeOK, Operation
    <2>1. CASE Upload
      BY <1>1, <2>0, <2>1 DEF Upload, Submission
    <2>2. CASE SubmitAcknowledged
      BY <1>1, <2>0, <2>2 DEF SubmitAcknowledged, Submission
    <2>3. CASE SubmitUnanswered
      BY <1>1, <2>0, <2>3 DEF SubmitUnanswered, Submission
    <2> QED
      BY <2>1, <2>2, <2>3
  <1>3. op' \in Operation /\ \/ op' = Idle
                             \/ /\ op'.pc = "issue" /\ op.pc = "prepare"
                                /\ op'.kind = op.kind /\ op'.txn = op.txn /\ op'.job = op.job
                             \/ /\ op'.pc = "commit" /\ op.pc = "reply" /\ op.job # 0
                                /\ op'.kind = op.kind /\ op'.txn = op.txn /\ op'.job = op.job
    <2>1. CASE Upload
      BY <2>1 DEF Upload, TypeOK, Operation
    <2>2. CASE SubmitAcknowledged
      BY <2>2 DEF SubmitAcknowledged, TypeOK, Operation
    <2>3. CASE SubmitUnanswered
      BY <2>3 DEF SubmitUnanswered, Idle, Operation, AnyKey
    <2> QED
      BY <2>1, <2>2, <2>3
  <1>4. /\ manifest' \in Manifest
        /\ manifest'.attempts = manifest.attempts
        /\ manifest'.job = manifest.job
        /\ manifest'.dir \in {manifest.dir, Leaf}
    <2>1. manifest' \in {manifest, [manifest EXCEPT !.state = "UPLOADED", !.dir = Leaf]}
      BY DEF Upload, SubmitAcknowledged, SubmitUnanswered
    <2>2. manifest \in Manifest /\ Leaf \in Dirs /\ "UPLOADED" \in States
      BY DEF TypeOK, Dirs, States
    <2>3. CASE manifest' = [manifest EXCEPT !.state = "UPLOADED", !.dir = Leaf]
      <3>1. manifest' \in Manifest
        BY <2>2, <2>3 DEF Manifest
      <3>2. manifest'.attempts = manifest.attempts /\ manifest'.job = manifest.job
            /\ manifest'.dir = Leaf
        BY <2>2, <2>3 DEF Manifest
      <3> QED
        BY <3>1, <3>2
    <2> QED
      BY <2>1, <2>2, <2>3
  <1>5. TypeOK'
    BY <1>1, <1>2, <1>3, <1>4 DEF TypeOK, external
  <1>6. TxnInv' /\ SubmissionInv'
    <2>1. submission'.status = "remote_accepted" =>
            submission' = submission \/ submission'.job = op.job
      BY DEF Upload, SubmitAcknowledged, SubmitUnanswered, TypeOK, Submission
    <2>2. \A e \in effects : e.txn = op.txn => e.job = op.job
      BY <1>1, <1>2 DEF OpInv, UnderWay, Pending, Upload, SubmitAcknowledged, SubmitUnanswered
    <2>3. \A e \in Submitted : submission'.status = "remote_accepted" /\ e.txn = submission.txn
            => e.job = submission'.job
      BY <1>1, <2>1, <2>2 DEF SubmissionInv, Submitted
    <2> QED
      BY <1>1, <1>2, <1>4, <2>3 DEF TxnInv, SubmissionInv, Submitted
  <1>7. OpInv'
    <2>1. op'.pc = "issue" => submission'.status # "remote_accepted"
      BY DEF Upload, SubmitAcknowledged, SubmitUnanswered, TypeOK, Submission, Operation, Idle
    <2> QED
      BY <1>1, <1>2, <1>3, <1>4, <2>1 DEF OpInv, UnderWay, Pending, Actions, Restarts, Idle
  <1>8. PlaceInv'
    BY <1>1, <1>3, <1>4 DEF PlaceInv, UnderWay, Pending, external, Idle, Dirs, Actions, Restarts
  <1>9. NoOrphan'
    BY <1>1, <1>2, <1>4 DEF NoOrphan, Accounted, Taken, Launches, Gate
  <1> QED
    BY <1>5, <1>6, <1>7, <1>8, <1>9

\* The recovery record goes once job.yaml carries the submission.
LEMMA SubmitClosedStep == ASSUME IInv, SubmitClosed PROVE IInv'
  <1> USE DEF IInv
  <1>1. TypeOK'
    BY DEF SubmitClosed, TypeOK, Idle, Operation, AnyKey, NoSubmission, Submission, external
  <1>2. TxnInv' /\ SubmissionInv' /\ OpInv' /\ PlaceInv'
    BY DEF SubmitClosed, TxnInv, SubmissionInv, Submitted, OpInv, PlaceInv, NoSubmission, Idle,
           UnderWay, Pending, external
  <1>3. \E x \in manifest.attempts : x.txn = op.txn /\ x.action = "submit" /\ x.job = op.job
    BY DEF SubmitClosed, OpInv, UnderWay, Pending
  <1>4. \A e \in effects : e.txn = op.txn => e.action = "submit" /\ e.job = op.job
    BY DEF SubmitClosed, OpInv, UnderWay, Pending
  <1>5. submission.txn = op.txn
    BY DEF SubmitClosed, OpInv, UnderWay, Pending
  <1>6. NoOrphan'
    BY <1>3, <1>4, <1>5 DEF SubmitClosed, NoOrphan, Accounted, Taken, Launches, Gate
  <1> QED
    BY <1>1, <1>2, <1>6

\* job.yaml receives the outcome of the transaction under way.
LEMMA CommitStep ==
  ASSUME IInv, SubmitCommitted \/ CancelCommitted \/ RestartCommitted
  PROVE  IInv'
  <1> USE DEF IInv
  <1> DEFINE a == [action |-> op.kind, job |-> op.job, txn |-> op.txn, key |-> op.key]
  <1>1. /\ UNCHANGED <<journals, external, view, effects>>
        /\ op.pc = "commit" /\ op' = [op EXCEPT !.pc = "close"]
        /\ op.kind \in Actions \union {"submit"}
    BY DEF SubmitCommitted, CancelCommitted, RestartCommitted, Actions, Restarts
  <1>2. /\ op.job \in Ids
        /\ op.txn \in Txns /\ op.txn <= lastTxn
        /\ \A x \in manifest.attempts : x.txn # op.txn
        /\ \A e \in effects : e.txn = op.txn => e.action = op.kind /\ e.job = op.job
        /\ op.kind = "submit" => submission.txn = op.txn
    BY <1>1 DEF OpInv, UnderWay, Pending, TypeOK, Operation, Txns
  <1>3. a \in Attempt
    BY <1>1, <1>2 DEF Attempt, TypeOK, Operation
  <1>4. /\ manifest' \in Manifest
        /\ manifest'.attempts = manifest.attempts \union {a}
        /\ manifest'.job \in {manifest.job, op.job}
        /\ manifest'.dir = IF op.kind = "submit" THEN Leaf ELSE manifest.dir
    <2>1. manifest \in Manifest
      BY DEF TypeOK
    <2>2. CASE SubmitCommitted
      BY <1>2, <1>3, <2>1, <2>2 DEF SubmitCommitted, Manifest, States, Active, Dirs
    <2>3. CASE CancelCommitted
      BY <1>2, <1>3, <2>1, <2>3 DEF CancelCommitted, Manifest, States, Terminal
    <2>4. CASE RestartCommitted
      <3>1. /\ Renewed(manifest) \in Manifest
            /\ Renewed(manifest).attempts = manifest.attempts
            /\ Renewed(manifest).job = manifest.job
            /\ Renewed(manifest).dir = manifest.dir
        <4>1. NoEvidence \in Evidence
          BY DEF NoEvidence, Evidence
        <4>2. manifest.rounds + 1 \in Nat
          BY <2>1 DEF Manifest
        <4> QED
          BY <2>1, <4>1, <4>2 DEF Renewed, Manifest
      <3>2. /\ op.kind # "submit"
            /\ manifest' = [Renewed(manifest) EXCEPT
                              !.state = "SUBMITTED", !.job = op.job, !.attempts = @ \union {a}]
        BY <2>4 DEF RestartCommitted, Restarts
      <3> HIDE DEF a
      <3> QED
        BY <1>2, <1>3, <3>1, <3>2 DEF Manifest, States, Active
    <2> QED
      BY <2>2, <2>3, <2>4
  <1>5. op' \in Operation /\ op'.pc = "close" /\ op'.kind = op.kind /\ op'.txn = op.txn
        /\ op'.job = op.job
    BY <1>1 DEF TypeOK, Operation
  <1>6. TypeOK'
    BY <1>1, <1>4, <1>5 DEF TypeOK, external, journals
  <1>7. TxnInv' /\ SubmissionInv'
    BY <1>1, <1>2, <1>4 DEF TxnInv, SubmissionInv, Submitted, journals
  <1>8. OpInv'
    BY <1>1, <1>2, <1>4, <1>5 DEF OpInv, UnderWay, Pending, journals
  <1>9. PlaceInv'
    BY <1>1, <1>2, <1>4, <1>5 DEF PlaceInv, UnderWay, Pending, external, Dirs, Ids
  <1>10. NoOrphan'
    BY <1>1, <1>4 DEF NoOrphan, Accounted, Taken, Launches, Gate, journals
  <1> QED
    BY <1>6, <1>7, <1>8, <1>9, <1>10

-----------------------------------------------------------------------------
(* Writes to the continue/cancel journal.                                    *)

\* Marking one record keeps the journal's type and its transactions apart.
LEMMA MarkKeeps ==
  ASSUME IInv, NEW t \in Txns, NEW st \in Unresolved \union Resolved,
         NEW j \in Ids \union {0}
  PROVE  /\ Mark(t, st, j) \subseteq Record
         /\ \A m \in Mark(t, st, j) : \E r \in journal :
              /\ m.txn = r.txn /\ m.action = r.action
              /\ r.txn # t => m = r
              /\ r.txn = t => m.status = st
         /\ \A r \in journal : \E m \in Mark(t, st, j) :
              /\ m.txn = r.txn /\ m.action = r.action
              /\ r.txn # t => m = r
              /\ r.txn = t => m.status = st
         /\ \A m, n \in Mark(t, st, j) : m.txn = n.txn => m = n
  <1> USE DEF IInv
  <1> DEFINE Marked(r) == IF r.txn = t THEN [r EXCEPT !.status = st, !.job = j] ELSE r
  <1>1. \A r \in journal : /\ Marked(r) \in Record
                           /\ Marked(r).txn = r.txn /\ Marked(r).action = r.action
                           /\ r.txn # t => Marked(r) = r
                           /\ r.txn = t => Marked(r).status = st
    BY DEF TypeOK, Record
  <1>2. Mark(t, st, j) = {Marked(r) : r \in journal}
    BY DEF Mark
  <1> HIDE DEF Marked
  <1>3. \A m, n \in Mark(t, st, j) : m.txn = n.txn => m = n
    BY <1>1, <1>2 DEF TxnInv
  <1> QED
    BY <1>1, <1>2, <1>3

\* The invariant through any write that marks the record of the operation
\* under way, provided its effects are still accounted for.
LEMMA MarkStep ==
  ASSUME IInv, NEW st \in Unresolved \union Resolved, NEW j \in Ids \union {0},
         op.kind \in Actions, op.pc \in UnderWay,
         journal' = Mark(op.txn, st, j),
         UNCHANGED <<manifest, submission, external, view, effects, lastTxn>>,
         op' = Idle \/ /\ op.pc = "reply" /\ op.job # 0 /\ st \in Unresolved
                       /\ op' = [op EXCEPT !.pc = "commit"],
         \/ st \in Unresolved
         \/ op.pc = "close"
         \/ op.kind = "cancel"
  PROVE  IInv'
  <1> USE DEF IInv
  <1>0. op.txn \in Txns
    BY BoundsAssumption DEF OpInv, TypeOK, Operation, Txns
  <1>1. /\ journal' \subseteq Record
        /\ \A m \in journal' : \E r \in journal :
             /\ m.txn = r.txn /\ m.action = r.action
             /\ r.txn # op.txn => m = r
             /\ r.txn = op.txn => m.status = st
        /\ \A r \in journal : \E m \in journal' :
             /\ m.txn = r.txn /\ m.action = r.action
             /\ r.txn # op.txn => m = r
             /\ r.txn = op.txn => m.status = st
        /\ \A m, n \in journal' : m.txn = n.txn => m = n
    BY <1>0, MarkKeeps
  <1>2. op' \in Operation
    <2>1. Idle \in Operation
      BY DEF Idle, Operation, AnyKey
    <2>2. [op EXCEPT !.pc = "commit"] \in Operation
      BY DEF TypeOK, Operation
    <2> QED
      BY <2>1, <2>2
  <1>3. TypeOK'
    BY <1>1, <1>2 DEF TypeOK, external
  <1>4. TxnInv' /\ SubmissionInv'
    BY <1>1 DEF TxnInv, SubmissionInv, Submitted
  <1>5. OpInv'
    <2>1. CASE op' = Idle
      BY <2>1 DEF OpInv, Idle, UnderWay, Pending
    <2>2. CASE op.pc = "reply" /\ op.job # 0 /\ st \in Unresolved /\ op' = [op EXCEPT !.pc = "commit"]
      <3>1. op'.pc = "commit" /\ op'.kind = op.kind /\ op'.txn = op.txn /\ op'.job = op.job
        BY <2>2 DEF TypeOK, Operation
      <3>2. \E r \in Gate : r.txn = op.txn /\ r.action = op.kind
        BY <2>2 DEF OpInv, UnderWay, Pending
      <3>3. \E m \in Gate' : m.txn = op.txn /\ m.action = op.kind
        BY <1>1, <2>2, <3>2 DEF Gate
      <3> QED
        BY <2>2, <3>1, <3>3 DEF OpInv, UnderWay, Pending, Actions, Restarts
    <2> QED
      BY <2>1, <2>2
  <1>6. PlaceInv'
    BY DEF PlaceInv, external
  <1>7. NoOrphan'
    <2>1. \A r \in Gate : r.txn # op.txn => r \in Gate'
      BY <1>1 DEF Gate
    <2>2. \A e \in effects : e.txn = op.txn /\ e.action # "cancel" => Accounted(e)'
      <3>1. CASE st \in Unresolved
        <4>1. \A r \in Gate : r.txn = op.txn =>
                \E m \in Gate' : m.txn = op.txn /\ m.action = r.action
          BY <1>1, <3>1 DEF Gate
        <4> QED
          BY <4>1 DEF NoOrphan, Accounted, Taken, Launches
      <3>2. CASE op.pc = "close"
        BY <3>2 DEF OpInv, UnderWay, Pending, Accounted, Taken, Launches
      <3>3. CASE op.kind = "cancel"
        BY <3>3 DEF OpInv
      <3> QED
        BY <3>1, <3>2, <3>3
    <2>3. \A e \in effects : e.txn # op.txn /\ e.action # "cancel" => Accounted(e)'
      BY <2>1 DEF NoOrphan, Accounted, Taken, Launches
    <2> QED
      BY <2>2, <2>3 DEF NoOrphan
  <1> QED
    BY <1>3, <1>4, <1>5, <1>6, <1>7

\* Answers, refusals, lost replies and the closing write of an action.
LEMMA ActionRecordStep ==
  ASSUME IInv, ActionAcknowledged \/ CancelRefused \/ ActionUnanswered \/ ActionClosed
  PROVE  IInv'
  <1>0. op.job \in Ids \union {0} /\ manifest.job \in Ids \union {0}
    BY DEF IInv, TypeOK, Operation, Manifest
  <1>1. CASE ActionAcknowledged
    BY <1>0, <1>1, MarkStep DEF ActionAcknowledged, Unresolved, UnderWay, Pending
  <1>2. CASE CancelRefused
    BY <1>0, <1>2, MarkStep DEF CancelRefused, Resolved, UnderWay, Pending, Actions
  <1>3. CASE ActionUnanswered /\ UNCHANGED journal
    <2>1. Abort
      BY <1>3 DEF ActionUnanswered, Abort, Idle, journals
    <2> QED
      BY <2>1, AbortStep
  <1>4. CASE ActionUnanswered /\ journal' # journal
    BY <1>4, MarkStep DEF ActionUnanswered, Unresolved, UnderWay, Pending
  <1>5. CASE ActionClosed
    BY <1>0, <1>5, MarkStep DEF ActionClosed, Resolved, UnderWay, Pending
  <1> QED
    BY <1>1, <1>2, <1>3, <1>4, <1>5

-----------------------------------------------------------------------------
(* The scheduler executes a command.                                         *)

\* A new effect belongs to the record the operation under way holds open.
LEMMA ExecutedStep ==
  ASSUME IInv, SubmitExecuted \/ RestartExecuted \/ CancelExecuted
  PROVE  IInv'
  <1> USE DEF IInv
  <1>1. PICK j \in Ids :
          /\ Executed(j)
          /\ op.pc = "issue" /\ op' = [op EXCEPT !.pc = "reply", !.job = j]
          /\ UNCHANGED <<manifest, journals, out, view>>
          /\ op.kind \in Actions \union {"submit"}
    BY DEF SubmitExecuted, RestartExecuted, CancelExecuted, Launched, Launchable, Alive,
           Actions, Restarts
  <1> DEFINE e == [txn |-> op.txn, action |-> op.kind, key |-> op.key, job |-> j,
                   bounded |-> op.bounded]
  <1>2. /\ op.txn \in Txns /\ op.txn <= lastTxn
        /\ \A x \in manifest.attempts : x.txn # op.txn
        /\ \A f \in effects : f.txn # op.txn
        /\ op.kind = "submit" => submission.txn = op.txn /\ submission.status # "none"
                                 /\ submission.status # "remote_accepted"
        /\ op.kind \in Actions => \E r \in Gate : r.txn = op.txn /\ r.action = op.kind
    BY <1>1 DEF OpInv, UnderWay, Pending, TypeOK, Operation, Txns
  <1>3. effects' = effects \union {e} /\ e \in Effect
    BY <1>1, <1>2 DEF Executed, Effect, TypeOK, Operation
  <1>4. op' \in Operation /\ op'.pc = "reply" /\ op'.kind = op.kind /\ op'.txn = op.txn
        /\ op'.job = j
    BY <1>1 DEF TypeOK, Operation
  <1>5. /\ sched' \in [Ids -> {"unborn", "registering", "queued", "running", "ended"}]
        /\ where' \in [Ids -> Dirs \union {"none"}]
        /\ \A i \in Ids : sched'[i] # "unborn" => where'[i] \in Dirs
    <2>1. CASE CancelExecuted
      BY <2>1 DEF CancelExecuted, TypeOK, PlaceInv, Alive
    <2>2. CASE SubmitExecuted \/ RestartExecuted
      <3>1. PICK d \in Dirs : Launched(d)
        BY <2>2, <1>1 DEF SubmitExecuted, RestartExecuted, PlaceInv, Dirs, Actions, UnderWay,
                          Pending
      <3> QED
        BY <3>1 DEF Launched, TypeOK, PlaceInv, Launchable
    <2> QED
      BY <2>1, <2>2
  <1>6. TypeOK'
    BY <1>1, <1>3, <1>4, <1>5 DEF TypeOK, journals
  <1>7. TxnInv' /\ SubmissionInv'
    BY <1>1, <1>2, <1>3 DEF TxnInv, SubmissionInv, Submitted, journals
  <1>8. OpInv'
    BY <1>1, <1>2, <1>3, <1>4 DEF OpInv, UnderWay, Pending, Gate, journals
  <1>9. PlaceInv'
    BY <1>1, <1>4, <1>5 DEF PlaceInv, UnderWay, Pending
  <1>10. NoOrphan'
    BY <1>1, <1>2, <1>3 DEF NoOrphan, Accounted, Taken, Launches, Gate, journals
  <1> QED
    BY <1>6, <1>7, <1>8, <1>9, <1>10

-----------------------------------------------------------------------------
(* The theorems.                                                             *)

\* A request preserves the invariant.
LEMMA RequestStep == IInv /\ Request => IInv'
  <1> SUFFICES ASSUME IInv, Request PROVE IInv'
    OBVIOUS
  <1>1. CASE \E k \in AnyKey : ReplaySubmit(k) \/ StartSubmit(k)
    BY <1>1, ReplaySubmitStep, StartSubmitStep
  <1>2. CASE \E k \in AnyKey : StartCancel(k)
    BY <1>2, StartActionStep DEF StartCancel, Actions
  <1>3. CASE \E k \in AnyKey, b \in BOOLEAN : StartContinue(k, b) \/ StartTune(k, b)
    BY <1>3, StartActionStep DEF StartContinue, StartTune, Restartable, Actions, Restarts
  <1>4. CASE FetchResults \/ \E k \in AnyKey, b \in BOOLEAN : RefuseOverlap(k, b)
    BY <1>4, ManifestOnlyStep
  <1>5. CASE \E a \in Actions, k \in Keys : ReplayAction(a, k)
    BY <1>5, ReplayActionStep
  <1>6. CASE Reconcile
    BY <1>6, ReconcileStep
  <1>7. CASE \E j \in Ids : Adopt(j)
    BY <1>7, AdoptStep
  <1> QED
    BY <1>1, <1>2, <1>3, <1>4, <1>5, <1>6, <1>7 DEF Request

\* So does a step of the operation that holds the lock.
LEMMA ProceedStep == IInv /\ Proceed => IInv'
  BY AbortStep, AdvanceStep, SubmitRecordStep, SubmitClosedStep, CommitStep,
     ActionRecordStep, ExecutedStep DEF Proceed

\* The invariant speaks of no other variable.
LEMMA StutterStep == IInv /\ UNCHANGED vars => IInv'
  BY DEF vars, IInv, TypeOK, TxnInv, SubmissionInv, Submitted, OpInv, PlaceInv, NoOrphan, Accounted, Taken, Launches, Gate

\* Every step preserves the invariant.
LEMMA StepInv == IInv /\ [Next]_vars => IInv'
  BY RequestStep, ProceedStep, SchedulerStep, PollerStep, StutterStep DEF Next

\* The journals, job.yaml and the operation under way agree in every
\* reachable state.
THEOREM Invariance == Spec => []IInv
  BY InitInv, StepInv, PTL DEF Spec

\* Every variable keeps its type.
THEOREM TypeCorrect == Spec => []TypeOK
  <1>1. IInv => TypeOK
    BY DEF IInv
  <1> QED
    BY <1>1, Invariance, PTL

\* No command that started a job is ever forgotten: whatever write fails and
\* wherever the process dies, it stands in job.yaml or bars the next command.
\* Nothing is promised of a cancellation (CancelRefused).
THEOREM NothingForgotten == Spec => []NoOrphan
  <1>1. IInv => NoOrphan
    BY DEF IInv
  <1> QED
    BY <1>1, Invariance, PTL

-----------------------------------------------------------------------------
(* Steps by what they do to the transactions: begin one, have it executed,    *)
(* commit it, or none of these.                                              *)

\* The journal has no record of another command than before.
SameCommands ==
  \A m \in journal' : \E r \in journal :
    m.txn = r.txn /\ m.action = r.action /\ m.key = r.key /\ (m \in Gate' => r \in Gate)

\* The operation goes on with the command it has, or ends.
SameOperation ==
  op'.pc \in UnderWay =>
    /\ op.pc \in UnderWay
    /\ op'.kind = op.kind /\ op'.txn = op.txn /\ op'.key = op.key
    /\ op'.job = op.job /\ op'.bounded = op.bounded
    /\ op'.pc \in {"prepare", "issue"} => op.pc \in {"prepare", "issue"}
    /\ op'.pc \in Pending => op.pc \in Pending

\* Of a command nothing is begun, executed or committed.
Aside ==
  /\ UNCHANGED <<effects, lastTxn>>
  /\ SameCommands /\ SameOperation
  /\ manifest'.rounds = manifest.rounds
  /\ \/ manifest'.attempts = manifest.attempts /\ manifest'.job = manifest.job
     \/ \E j \in Ids : Adopt(j)

\* A restart or a cancellation is begun.
Begins(a, k, b, pc) ==
  /\ manifest.job # 0 /\ StartAction(a, k, b, pc)
  /\ a \in Restarts => manifest.state \in Terminal /\ pc = "prepare"
  /\ b => a \in Restarts /\ manifest.rounds < MaxRounds

\* What does not touch journal, operation and attempts is aside.
LEMMA QuietIsAside ==
  ASSUME UNCHANGED <<effects, lastTxn, journal, op>>,
         manifest'.rounds = manifest.rounds, manifest'.attempts = manifest.attempts,
         manifest'.job = manifest.job
  PROVE  Aside
  <1>1. SameCommands
    BY DEF SameCommands, Gate
  <1>2. SameOperation
    BY DEF SameOperation
  <1> QED
    BY <1>1, <1>2 DEF Aside

\* Marking the record of the operation under way is aside, if the operation goes on as it
\* was or ends.
LEMMA MarkIsAside ==
  ASSUME IInv, NEW t \in Txns, NEW st \in Unresolved \union Resolved,
         NEW j \in Ids \union {0}, journal' = Mark(t, st, j),
         \A r \in journal : r.txn = t => st \in Resolved \/ r \in Gate,
         UNCHANGED <<manifest, effects, lastTxn>>, SameOperation
  PROVE  Aside
  <1> DEFINE Marked(r) == IF r.txn = t THEN [r EXCEPT !.status = st, !.job = j] ELSE r
  <1>1. ASSUME NEW r \in journal
        PROVE  /\ Marked(r).txn = r.txn /\ Marked(r).action = r.action
               /\ Marked(r).key = r.key
               /\ r.txn # t => Marked(r) = r
               /\ r.txn = t => Marked(r).status = st
    BY DEF IInv, TypeOK, Record
  <1>2. journal' = {Marked(r) : r \in journal}
    BY DEF Mark
  <1> HIDE DEF Marked
  <1>3. Unresolved \intersect Resolved = {}
    BY DEF Unresolved, Resolved
  <1>4. SameCommands
    <2> SUFFICES ASSUME NEW m \in journal'
                 PROVE  \E r \in journal : /\ m.txn = r.txn /\ m.action = r.action
                                           /\ m.key = r.key /\ (m \in Gate' => r \in Gate)
      BY DEF SameCommands
    <2>1. PICK r \in journal : m = Marked(r)
      BY <1>2
    <2>2. m \in Gate' => r \in Gate
      BY <1>1, <1>3, <2>1 DEF Gate
    <2> QED
      BY <1>1, <2>1, <2>2
  <1> QED
    BY <1>4 DEF Aside

\* Requests that begin nothing.
LEMMA OtherRequests ==
  ASSUME IInv,
         \/ Reconcile \/ FetchResults
         \/ \E k \in AnyKey : ReplaySubmit(k)
         \/ \E k \in AnyKey, b \in BOOLEAN : RefuseOverlap(k, b)
         \/ \E a \in Actions, k \in Keys : ReplayAction(a, k)
         \/ \E j \in Ids : Adopt(j)
  PROVE  Aside
  <1>1. CASE Reconcile
    <2> DEFINE Settled(s) == [s EXCEPT !.status = "succeeded"]
    <2>1. \A r \in journal' : r \in journal \ Gate \/ \E s \in Gate : r = Settled(s)
      BY <1>1 DEF Reconcile
    <2>2. \A s \in Gate :
            /\ Settled(s).txn = s.txn /\ Settled(s).action = s.action
            /\ Settled(s).key = s.key /\ s \in journal
      BY DEF Gate, IInv, TypeOK, Record
    <2> HIDE DEF Settled
    <2>3. SameCommands
      BY <2>1, <2>2 DEF SameCommands, Gate
    <2>4. SameOperation
      BY <1>1 DEF Reconcile, SameOperation
    <2> QED
      BY <1>1, <2>3, <2>4 DEF Aside, Reconcile
  <1>2. CASE FetchResults \/ \E k \in AnyKey, b \in BOOLEAN : RefuseOverlap(k, b)
    <2>1. /\ UNCHANGED <<effects, lastTxn, journal, op>>
          /\ manifest'.rounds = manifest.rounds /\ manifest'.attempts = manifest.attempts
          /\ manifest'.job = manifest.job
      BY <1>2 DEF FetchResults, RefuseOverlap, journals, IInv, TypeOK, Manifest
    <2> QED
      BY <2>1, QuietIsAside
  <1>3. CASE \/ \E k \in AnyKey : ReplaySubmit(k)
             \/ \E a \in Actions, k \in Keys : ReplayAction(a, k)
    <2>1. SameOperation
      BY <1>3 DEF ReplaySubmit, ReplayAction, Idle, SameOperation, UnderWay, Pending
    <2>2. UNCHANGED <<manifest, effects, lastTxn, journal>>
      BY <1>3 DEF ReplaySubmit, ReplayAction, journals
    <2>3. SameCommands
      BY <2>2 DEF SameCommands, Gate
    <2> QED
      BY <2>1, <2>2, <2>3 DEF Aside
  <1>4. CASE \E j \in Ids : Adopt(j)
    <2>1. UNCHANGED <<effects, lastTxn, journal, op>> /\ manifest'.rounds = manifest.rounds
      BY <1>4 DEF Adopt, journals, IInv, TypeOK, Manifest
    <2>2. SameCommands /\ SameOperation
      BY <2>1 DEF SameCommands, SameOperation, Gate
    <2> QED
      BY <1>4, <2>1, <2>2 DEF Aside
  <1> QED
    BY <1>1, <1>2, <1>3, <1>4

\* Steps of the operation under way that neither send a command nor commit one.
LEMMA OtherProgress ==
  ASSUME IInv,
         \/ Upload \/ SubmitAcknowledged \/ SubmitUnanswered \/ SubmitClosed
         \/ Archive \/ Refused \/ Abort
         \/ ActionAcknowledged \/ CancelRefused \/ ActionUnanswered \/ ActionClosed
  PROVE  Aside
  <1>0. op.txn \in Txns \union {0} /\ op.job \in Ids \union {0} /\ op \in Operation
    BY DEF IInv, TypeOK, Operation
  <1>1. SameOperation
    BY <1>0 DEF Upload, SubmitAcknowledged, SubmitUnanswered, SubmitClosed, Archive, Refused,
           Abort, ActionAcknowledged, CancelRefused, ActionUnanswered, ActionClosed,
           SameOperation, Idle, UnderWay, Pending, Operation
  <1>2. CASE Upload \/ SubmitAcknowledged \/ SubmitUnanswered \/ SubmitClosed
             \/ Archive \/ Refused \/ Abort
    <2>1. /\ UNCHANGED <<effects, lastTxn, journal>>
          /\ manifest'.rounds = manifest.rounds /\ manifest'.attempts = manifest.attempts
          /\ manifest'.job = manifest.job
      BY <1>2 DEF Upload, SubmitAcknowledged, SubmitUnanswered, SubmitClosed, Archive,
             Refused, Abort, journals, IInv, TypeOK, Manifest
    <2>2. SameCommands
      BY <2>1 DEF SameCommands, Gate
    <2> QED
      BY <1>1, <2>1, <2>2 DEF Aside
  <1>3. CASE ActionAcknowledged \/ CancelRefused \/ ActionUnanswered \/ ActionClosed
    <2>1. /\ UNCHANGED <<manifest, effects, lastTxn>>
          /\ op.kind \in Actions /\ op.pc \in UnderWay
          /\ op.pc = "close" \/ op.pc \in Pending
      BY <1>3 DEF ActionAcknowledged, CancelRefused, ActionUnanswered, ActionClosed,
             UnderWay, Pending, Actions
    <2>2. op.txn \in Txns
      BY <1>0, <2>1, BoundsAssumption DEF IInv, OpInv, TypeOK, Txns
    <2>3. CASE ActionUnanswered /\ journal' = journal
      <3>1. SameCommands
        BY <2>3 DEF SameCommands, Gate
      <3> QED
        BY <1>1, <2>1, <3>1 DEF Aside
    <2>4. CASE op.pc \in Pending /\ \E st \in Unresolved, j \in Ids \union {0} :
                 journal' = Mark(op.txn, st, j)
      <3>1. PICK r \in Gate : r.txn = op.txn
        BY <2>1, <2>4 DEF IInv, OpInv
      <3>2. \A s \in journal : s.txn = op.txn => s \in Gate
        BY <3>1 DEF IInv, TxnInv, Gate
      <3> QED
        BY <1>1, <2>1, <2>2, <2>4, <3>2, MarkIsAside
    <2>5. CASE \E st \in Resolved, j \in Ids \union {0} : journal' = Mark(op.txn, st, j)
      BY <1>1, <2>1, <2>2, <2>5, MarkIsAside
    <2>6. manifest.job \in Ids \union {0}
      BY DEF IInv, TypeOK, Manifest
    <2>7. CASE ActionAcknowledged \/ ActionUnanswered
      BY <1>0, <2>3, <2>4, <2>7 DEF ActionAcknowledged, ActionUnanswered, Unresolved, Pending
    <2>8. CASE CancelRefused \/ ActionClosed
      BY <1>0, <2>5, <2>6, <2>8 DEF CancelRefused, ActionClosed, Resolved
    <2> QED
      BY <1>3, <2>7, <2>8
  <1> QED
    BY <1>2, <1>3

\* Every step is of one of these kinds.
LEMMA StepKinds ==
  ASSUME IInv, [Next]_vars
  PROVE  \/ \E k \in AnyKey : StartSubmit(k)
         \/ \E a \in Actions, k \in AnyKey, b \in BOOLEAN, pc \in {"prepare", "issue"} :
              Begins(a, k, b, pc)
         \/ SubmitExecuted \/ RestartExecuted \/ CancelExecuted
         \/ SubmitCommitted \/ CancelCommitted \/ RestartCommitted
         \/ Aside
  <1>1. CASE Request
    <2>1. CASE \E k \in AnyKey : StartCancel(k)
      BY <2>1 DEF StartCancel, Begins, Actions, Restarts
    <2>2. CASE \E k \in AnyKey, b \in BOOLEAN : StartContinue(k, b) \/ StartTune(k, b)
      BY <2>2 DEF StartContinue, StartTune, Begins, Restartable, RoundsLeft, Actions, Restarts
    <2> QED
      BY <1>1, <2>1, <2>2, OtherRequests DEF Request
  <1>2. CASE Proceed
    BY <1>2, OtherProgress DEF Proceed
  <1>3. CASE Scheduler
    <2>1. UNCHANGED <<manifest, journals, op, effects>>
      BY <1>3 DEF Scheduler, Register, Start, Write, End, ForeignLaunch
    <2> QED
      BY <2>1, QuietIsAside DEF journals
  <1>4. CASE \E c \in Clients : Select(c) \/ Refresh(c) \/ SkipRefresh(c)
    <2>1. /\ UNCHANGED <<journals, op, effects>>
          /\ manifest'.rounds = manifest.rounds /\ manifest'.attempts = manifest.attempts
          /\ manifest'.job = manifest.job
      <3>1. CASE UNCHANGED <<manifest, journals, op, effects>>
        BY <3>1
      <3>2. CASE \E c \in Clients : RefreshJob(c)
        BY <3>2, RefreshWrites DEF RefreshJob
      <3> QED
        BY <1>4, <3>1, <3>2 DEF Select, Refresh, Query, SkipRefresh
    <2> QED
      BY <2>1, QuietIsAside DEF journals
  <1>5. CASE UNCHANGED vars
    BY <1>5, QuietIsAside DEF vars
  <1> QED
    BY <1>1, <1>2, <1>3, <1>4, <1>5 DEF Next

-----------------------------------------------------------------------------
(* What such a step leaves behind, in the terms of the invariants below.     *)

\* A command that is begun has a transaction of its own, an empty gate before it and
\* the gate to itself after it.
LEMMA BeginsFacts ==
  ASSUME IInv, NEW a \in Actions, NEW k \in AnyKey, NEW b \in BOOLEAN,
         NEW pc \in {"prepare", "issue"}, Begins(a, k, b, pc)
  PROVE  /\ op = Idle /\ Gate = {} /\ KeyIsFresh(k, a)
         /\ lastTxn \in Nat /\ lastTxn' = lastTxn + 1 /\ lastTxn' \in Txns
         /\ UNCHANGED <<manifest, submission, external, view, effects>>
         /\ op'.kind = a /\ op'.pc = pc /\ op'.txn = lastTxn' /\ op'.key = k
         /\ op'.job = 0 /\ op'.bounded = b
         /\ \A r \in journal' :
              r \in journal \ Gate' \/ (r.txn = lastTxn' /\ r.action = a /\ r.key = k)
         /\ \E r \in Gate' : r.txn = lastTxn' /\ r.action = a /\ r.key = k
         /\ \A r \in journal : r.txn # lastTxn'
         /\ \A e \in effects : e.txn # lastTxn'
         /\ \A x \in manifest.attempts : x.txn # lastTxn'
  <1> USE DEF IInv
  <1> DEFINE rec == [txn |-> NextTxn, action |-> a, key |-> k, src |-> manifest.job,
                     job |-> 0, status |-> "prepared"]
  <1>1. NextTxn \in Txns /\ lastTxn \in Nat /\ lastTxn' = NextTxn /\ NextTxn = lastTxn + 1
    BY BoundsAssumption DEF Begins, StartAction, NextTxn, Txns, TypeOK
  <1>2. Trim(journal) \subseteq journal /\ journal' = Trim(journal) \union {rec}
    BY DEF Trim, Begins, StartAction
  <1>3. \A r \in journal : r.status \notin Unresolved
    BY DEF Begins, StartAction, Gate
  <1>4. /\ \A r \in journal : r.txn # lastTxn'
        /\ \A e \in effects : e.txn # lastTxn'
        /\ \A x \in manifest.attempts : x.txn # lastTxn'
    BY <1>1 DEF TxnInv, TypeOK, Record, Effect, Manifest, Attempt, Txns
  <1>5. rec \in Gate'
    BY <1>2 DEF Gate, Unresolved
  <1>6. \A r \in journal : r \notin Gate'
    BY <1>3 DEF Gate
  <1>7. \A r \in journal' :
          r \in journal \ Gate' \/ (r.txn = lastTxn' /\ r.action = a /\ r.key = k)
    <2>1. rec.txn = lastTxn' /\ rec.action = a /\ rec.key = k
      BY <1>1
    <2>2. \A r \in journal' : r \in journal \/ r = rec
      BY <1>2
    <2> HIDE DEF rec
    <2> QED
      BY <1>6, <2>1, <2>2
  <1>8. \E r \in Gate' : r.txn = lastTxn' /\ r.action = a /\ r.key = k
    <2> WITNESS rec \in Gate'
    <2> QED
      BY <1>1
  <1>9. /\ op = Idle /\ Gate = {} /\ KeyIsFresh(k, a)
        /\ UNCHANGED <<manifest, submission, external, view, effects>>
        /\ op'.kind = a /\ op'.pc = pc /\ op'.txn = NextTxn /\ op'.key = k
        /\ op'.job = 0 /\ op'.bounded = b
    BY DEF Begins, StartAction
  <1> QED
    BY <1>1, <1>4, <1>7, <1>8, <1>9

\* A submission that is begun is the first command of its directory that may be in
\* job.yaml or in the recovery record.
LEMMA StartSubmitFacts ==
  ASSUME IInv, NEW k \in AnyKey, StartSubmit(k)
  PROVE  /\ op = Idle /\ submission.status = "none" /\ manifest.attempts = {}
         /\ manifest.job = 0 /\ manifest.state = "CREATED"
         /\ lastTxn \in Nat /\ lastTxn' = lastTxn + 1 /\ lastTxn' \in Txns
         /\ UNCHANGED <<manifest, journal, external, view, effects>>
         /\ submission'.status = "preparing" /\ submission'.txn = lastTxn'
         /\ op'.kind = "submit" /\ op'.pc = "prepare" /\ op'.txn = lastTxn' /\ op'.key = k
         /\ op'.job = 0 /\ op'.bounded = FALSE
         /\ \A r \in journal : r.txn # lastTxn'
         /\ \A e \in effects : e.txn # lastTxn' /\ e.action # "submit"
  <1> USE DEF IInv
  <1>1. NextTxn \in Txns /\ lastTxn \in Nat /\ lastTxn' = NextTxn /\ NextTxn = lastTxn + 1
    BY BoundsAssumption DEF StartSubmit, NextTxn, Txns, TypeOK
  <1>2. /\ \A r \in journal : r.txn # lastTxn'
        /\ \A e \in effects : e.txn # lastTxn'
    BY <1>1 DEF TxnInv, TypeOK, Record, Effect, Txns
  <1>3. \A e \in effects : e.action # "submit"
    <2> SUFFICES ASSUME NEW e \in effects, e.action = "submit" PROVE FALSE
      OBVIOUS
    <2>1. Accounted(e) /\ manifest.attempts = {} /\ submission.status = "none"
      BY DEF NoOrphan, StartSubmit
    <2>2. PICK r \in Gate : r.action = "submit"
      BY <2>1 DEF Accounted, Taken, Launches
    <2> QED
      BY <2>2 DEF Gate, TypeOK, Record, Actions, Restarts
  <1> QED
    BY <1>1, <1>2, <1>3 DEF StartSubmit, Idle

\* The effect of a command that is executed.
Effected(j) == [txn |-> op.txn, action |-> op.kind, key |-> op.key, job |-> j,
                bounded |-> op.bounded]

\* A command that is executed is the one under way, and had no effect before.
LEMMA ExecutedFacts ==
  ASSUME IInv, SubmitExecuted \/ RestartExecuted \/ CancelExecuted
  PROVE  \E j \in Ids :
           /\ effects' = effects \union {Effected(j)}
           /\ op.pc = "issue" /\ op.kind \in Actions \union {"submit"}
           /\ op'.pc = "reply" /\ op'.kind = op.kind /\ op'.txn = op.txn
           /\ op'.key = op.key /\ op'.job = j /\ op'.bounded = op.bounded
           /\ UNCHANGED <<manifest, journals, out, view>>
           /\ op.txn \in Txns /\ op.txn <= lastTxn
           /\ \A x \in manifest.attempts : x.txn # op.txn
           /\ \A e \in effects : e.txn # op.txn
  <1> USE DEF IInv
  <1>1. PICK j \in Ids :
          /\ Executed(j)
          /\ op.pc = "issue" /\ op' = [op EXCEPT !.pc = "reply", !.job = j]
          /\ UNCHANGED <<manifest, journals, out, view>>
          /\ op.kind \in Actions \union {"submit"}
    BY DEF SubmitExecuted, RestartExecuted, CancelExecuted, Launched, Launchable, Alive,
           Actions, Restarts
  <1>2. /\ op.txn \in Txns /\ op.txn <= lastTxn
        /\ \A x \in manifest.attempts : x.txn # op.txn
        /\ \A f \in effects : f.txn # op.txn
    BY <1>1 DEF OpInv, UnderWay, Pending, TypeOK, Operation, Txns
  <1>3. op'.pc = "reply" /\ op'.kind = op.kind /\ op'.txn = op.txn
        /\ op'.key = op.key /\ op'.job = j /\ op'.bounded = op.bounded
    BY <1>1 DEF TypeOK, Operation
  <1> QED
    BY <1>1, <1>2, <1>3 DEF Executed, Effected

\* The attempt of a command that is committed.
Attempted == [action |-> op.kind, job |-> op.job, txn |-> op.txn, key |-> op.key]

\* A command that is committed is the one under way, and was not in job.yaml before.
LEMMA CommittedFacts ==
  ASSUME IInv, SubmitCommitted \/ CancelCommitted \/ RestartCommitted
  PROVE  /\ manifest'.attempts = manifest.attempts \union {Attempted}
         /\ manifest'.rounds = IF op.kind \in Restarts THEN manifest.rounds + 1
                                                       ELSE manifest.rounds
         /\ op.pc = "commit" /\ op.kind \in Actions \union {"submit"}
         /\ op.job \in Ids /\ op.txn \in Txns
         /\ op'.pc = "close" /\ op'.kind = op.kind /\ op'.txn = op.txn
         /\ op'.key = op.key /\ op'.job = op.job /\ op'.bounded = op.bounded
         /\ UNCHANGED <<journals, external, view, effects>>
         /\ \A x \in manifest.attempts : x.txn # op.txn
  <1> USE DEF IInv
  <1>1. /\ UNCHANGED <<journals, external, view, effects>>
        /\ op.pc = "commit" /\ op' = [op EXCEPT !.pc = "close"]
        /\ op.kind \in Actions \union {"submit"}
    BY DEF SubmitCommitted, CancelCommitted, RestartCommitted, Actions, Restarts
  <1>2. /\ op.job \in Ids /\ op.txn \in Txns
        /\ \A x \in manifest.attempts : x.txn # op.txn
    BY <1>1 DEF OpInv, UnderWay, Pending, TypeOK, Operation, Txns
  <1>3. op'.pc = "close" /\ op'.kind = op.kind /\ op'.txn = op.txn
        /\ op'.key = op.key /\ op'.job = op.job /\ op'.bounded = op.bounded
    BY <1>1 DEF TypeOK, Operation
  <1>4. /\ manifest'.attempts = manifest.attempts \union {Attempted}
        /\ manifest'.rounds = IF op.kind \in Restarts THEN manifest.rounds + 1
                                                      ELSE manifest.rounds
    <2>0. manifest \in Manifest
      BY DEF TypeOK
    <2>1. CASE SubmitCommitted
      BY <2>0, <2>1 DEF SubmitCommitted, Manifest, Attempted, Restarts
    <2>2. CASE CancelCommitted
      BY <2>0, <2>2 DEF CancelCommitted, Manifest, Attempted, Restarts
    <2>3. CASE RestartCommitted
      <3>1. /\ Renewed(manifest).attempts = manifest.attempts
            /\ Renewed(manifest).rounds = manifest.rounds + 1
            /\ DOMAIN Renewed(manifest) = DOMAIN manifest
        BY <2>0 DEF Renewed, Manifest
      <3>2. "attempts" \in DOMAIN manifest /\ "rounds" \in DOMAIN manifest
        BY <2>0 DEF Manifest
      <3>3. manifest' = [Renewed(manifest) EXCEPT !.state = "SUBMITTED", !.job = op.job,
                           !.attempts = @ \union {Attempted}]
            /\ op.kind \in Restarts
        BY <2>3 DEF RestartCommitted, Attempted
      <3> QED
        BY <3>1, <3>2, <3>3
    <2> QED
      BY <2>1, <2>2, <2>3
  <1> QED
    BY <1>1, <1>2, <1>3, <1>4

\* A step aside adds at most an adoption to the attempts.
LEMMA AsideAttempts ==
  ASSUME IInv, Aside
  PROVE  /\ manifest.attempts \subseteq manifest'.attempts
         /\ \A x \in manifest'.attempts :
              \/ x \in manifest.attempts
              \/ x.txn = 0 /\ x.action = "adopt" /\ x.key = NoKey
  <1>1. ASSUME NEW j \in Ids, Adopt(j)
        PROVE  manifest'.attempts = manifest.attempts \union
                 {[action |-> "adopt", job |-> j, txn |-> 0, key |-> NoKey]}
    BY <1>1 DEF Adopt, IInv, TypeOK, Manifest
  <1> QED
    BY <1>1 DEF Aside

-----------------------------------------------------------------------------
(* The keys.                                                                 *)

\* A command that begins has a key that no executed command of its kind has, unless
\* that was a cancellation of which no record is left.
LEMMA BegunKeyIsFresh ==
  ASSUME IInv, KeyInv, NEW a \in Actions, NEW k \in AnyKey, NEW b \in BOOLEAN,
         NEW pc \in {"prepare", "issue"}, Begins(a, k, b, pc),
         NEW e \in effects, e.action = a, k # NoKey, e.key = k
  PROVE  a = "cancel" /\ Forgotten(e)
  <1>1. Gate = {} /\ KeyIsFresh(k, a)
    BY BeginsFacts
  <1>2. Forgotten(e)
    <2>1. \A r \in journal : r.txn # e.txn
      BY <1>1 DEF KeyIsFresh, KeyInv
    <2>2. \A x \in manifest.attempts : x.txn = e.txn => x.key = k /\ x.action = a
      BY DEF KeyInv, IInv, TxnInv
    <2> QED
      BY <1>1, <2>1, <2>2 DEF KeyIsFresh, Forgotten
  <1>3. e.action # "submit"
    BY DEF Actions, Restarts
  <1>4. ~Accounted(e)
    BY <1>1, <1>2, <1>3 DEF Accounted, Forgotten
  <1> QED
    BY <1>2, <1>4 DEF IInv, NoOrphan

\* What has been forgotten of a cancellation does not come back.
LEMMA ForgottenStays ==
  ASSUME IInv, [Next]_vars, NEW e \in effects, e.action = "cancel", Forgotten(e)
  PROVE  Forgotten(e)'
  <1>0. e.txn # 0 /\ (e.txn = op.txn /\ op.pc = "commit" => FALSE)
    <2>1. e.txn # 0
      BY DEF IInv, TypeOK, Effect, Txns
    <2>2. e.txn = op.txn /\ op.pc = "commit" => \E r \in Gate : r.txn = op.txn
      BY DEF IInv, OpInv, UnderWay, Pending, Actions
    <2> QED
      BY <2>1, <2>2 DEF Forgotten, Gate
  <1>1. ASSUME NEW k \in AnyKey, StartSubmit(k) PROVE Forgotten(e)'
    BY <1>1 DEF StartSubmit, Forgotten
  <1>2. ASSUME NEW a \in Actions, NEW k \in AnyKey, NEW b \in BOOLEAN,
               NEW pc \in {"prepare", "issue"}, Begins(a, k, b, pc)
        PROVE  Forgotten(e)'
    BY <1>2, BeginsFacts DEF Forgotten
  <1>3. CASE SubmitExecuted \/ RestartExecuted \/ CancelExecuted
    BY <1>3, ExecutedFacts DEF Forgotten, journals
  <1>4. CASE SubmitCommitted \/ CancelCommitted \/ RestartCommitted
    <2>1. Attempted.txn = op.txn
      BY DEF Attempted
    <2> QED
      BY <1>0, <1>4, <2>1, CommittedFacts DEF Forgotten, journals
  <1>5. CASE Aside
    BY <1>0, <1>5, AsideAttempts DEF Aside, SameCommands, Forgotten
  <1> QED
    BY <1>1, <1>2, <1>3, <1>4, <1>5, StepKinds

\* Every step keeps a key from being executed twice.
LEMMA KeyStep == ASSUME IInv, KeyInv, [Next]_vars PROVE KeyInv'
  <1>0. \A e \in effects : e.action = "cancel" /\ Forgotten(e) => Forgotten(e)'
    BY ForgottenStays
  <1>1. ASSUME NEW k \in AnyKey, StartSubmit(k) PROVE KeyInv'
    <2>1. /\ UNCHANGED <<manifest, journal, effects>> /\ manifest.attempts = {}
          /\ op'.txn = lastTxn' /\ op'.kind = "submit"
          /\ \A r \in journal : r.txn # lastTxn'
          /\ \A e \in effects : e.txn # lastTxn' /\ e.action # "submit"
      BY <1>1, StartSubmitFacts
    <2> QED
      BY <2>1 DEF KeyInv, KeyAtMostOnce, Forgotten, Submitted
  <1>2. ASSUME NEW a \in Actions, NEW k \in AnyKey, NEW b \in BOOLEAN,
               NEW pc \in {"prepare", "issue"}, Begins(a, k, b, pc)
        PROVE  KeyInv'
    <2>1. a # "submit"
      BY DEF Actions, Restarts
    <2>2. \A e \in effects : e.action = a /\ e.key = k /\ k # NoKey =>
            a = "cancel" /\ Forgotten(e)'
      BY <1>0, <1>2, BegunKeyIsFresh
    <2>3. KeyAtMostOnce'
      BY <1>0, <1>2, BeginsFacts DEF KeyInv, KeyAtMostOnce
    <2> QED
      BY <1>2, <2>1, <2>2, <2>3, BeginsFacts DEF KeyInv, Submitted
  <1>3. CASE SubmitExecuted \/ RestartExecuted \/ CancelExecuted
    <2>1. PICK j \in Ids :
            /\ effects' = effects \union {Effected(j)}
            /\ op.pc = "issue" /\ op.kind \in Actions \union {"submit"}
            /\ op'.pc = "reply" /\ op'.kind = op.kind /\ op'.txn = op.txn
            /\ op'.key = op.key
            /\ UNCHANGED <<manifest, journals>>
            /\ op.txn \in Txns /\ op.txn <= lastTxn
            /\ \A x \in manifest.attempts : x.txn # op.txn
            /\ \A e \in effects : e.txn # op.txn
      BY <1>3, ExecutedFacts
    <2>2. Effected(j).txn = op.txn /\ Effected(j).key = op.key
          /\ Effected(j).action = op.kind
      BY DEF Effected
    <2>3. KeyAtMostOnce'
      <3>1. \A e \in effects : e.action = op.kind /\ e.key = op.key /\ op.key # NoKey =>
              op.kind = "cancel" /\ Forgotten(e)'
        BY <1>0, <2>1 DEF KeyInv
      <3>2. \A e \in effects : ~(op.txn <= e.txn)
        BY <2>1 DEF KeyInv, IInv, TypeOK, TxnInv, Effect, Txns
      <3>3. ASSUME NEW e \in effects', NEW f \in effects', e # f, e.txn <= f.txn,
                   e.key = f.key, e.key # NoKey, e.action = f.action
            PROVE  e.action = "cancel" /\ Forgotten(e)'
        <4>1. e \in effects
          BY <2>1, <2>2, <3>2, <3>3
        <4>2. CASE f \in effects
          BY <1>0, <3>3, <4>1, <4>2 DEF KeyInv, KeyAtMostOnce
        <4>3. CASE f = Effected(j)
          BY <2>2, <3>1, <3>3, <4>1, <4>3
        <4> QED
          BY <2>1, <4>2, <4>3
      <3> QED
        BY <3>3 DEF KeyAtMostOnce
    <2>4. \A r \in journal : r.txn = op.txn => r.key = op.key /\ r.action = op.kind
      BY <2>1 DEF KeyInv, UnderWay, Pending
    <2>5. \A e, f \in Submitted' : e = f
      BY <2>1, <2>2 DEF KeyInv, Submitted
    <2>6. op'.kind = "submit" /\ op'.pc \in Pending => manifest'.attempts = {}
      BY <2>1 DEF KeyInv, Pending
    <2>7. op'.pc \notin {"prepare", "issue"}
      BY <2>1
    <2> QED
      BY <2>1, <2>2, <2>3, <2>4, <2>5, <2>6, <2>7 DEF KeyInv, journals
  <1>4. CASE SubmitCommitted \/ CancelCommitted \/ RestartCommitted
    <2>1. /\ manifest'.attempts = manifest.attempts \union {Attempted}
          /\ op.pc = "commit" /\ op'.pc = "close"
          /\ op'.kind = op.kind /\ op'.txn = op.txn /\ op'.key = op.key
          /\ UNCHANGED <<journals, effects>>
      BY <1>4, CommittedFacts
    <2>2. Attempted.txn = op.txn /\ Attempted.key = op.key
      BY DEF Attempted
    <2>3. KeyAtMostOnce'
      BY <1>0, <2>1 DEF KeyInv, KeyAtMostOnce
    <2> QED
      BY <2>1, <2>2, <2>3 DEF KeyInv, Submitted, UnderWay, Pending, journals
  <1>5. CASE Aside
    <2>1. \A x \in manifest'.attempts : x \in manifest.attempts \/ x.txn = 0
      BY <1>5, AsideAttempts
    <2>2. \A e \in effects : e.txn # 0
      BY DEF IInv, TypeOK, Effect, Txns
    <2>3. UNCHANGED effects /\ SameCommands /\ SameOperation
      BY <1>5 DEF Aside
    <2>4. /\ KeyAtMostOnce'
          /\ \A e, f \in effects' : e.txn = f.txn => e = f
          /\ \A e, f \in Submitted' : e = f
      BY <1>0, <2>3 DEF KeyInv, KeyAtMostOnce, Submitted
    <2>5. \A e \in effects', x \in manifest'.attempts : x.txn = e.txn => x.key = e.key
      BY <2>1, <2>2, <2>3 DEF KeyInv
    <2>6. \A e \in effects', r \in journal' :
            r.txn = e.txn => r.key = e.key /\ r.action = e.action
      BY <2>3 DEF KeyInv, SameCommands
    <2>7. op'.pc \in UnderWay =>
            /\ \A e \in effects' : e.txn = op'.txn => e.key = op'.key
            /\ \A r \in journal' :
                 r.txn = op'.txn => r.key = op'.key /\ r.action = op'.kind
      BY <2>3 DEF KeyInv, SameCommands, SameOperation
    <2>8. op'.pc \in {"prepare", "issue"} =>
            /\ op'.txn = lastTxn'
            /\ \A e \in effects' : e.action = op'.kind =>
                 /\ op'.kind # "submit"
                 /\ e.key = op'.key /\ op'.key # NoKey =>
                      op'.kind = "cancel" /\ Forgotten(e)'
      BY <1>0, <1>5, <2>3 DEF KeyInv, Aside, SameOperation, UnderWay, Pending
    <2>9. op'.kind = "submit" /\ op'.pc \in Pending => manifest'.attempts = {}
      <3>1. ASSUME NEW j \in Ids, Adopt(j) PROVE op.pc \notin UnderWay
        BY <3>1 DEF Adopt, Idle, UnderWay, Pending
      <3>2. op'.pc \in Pending => op.pc \in UnderWay /\ op.pc \in Pending /\ op'.kind = op.kind
        BY <2>3 DEF SameOperation, UnderWay
      <3> QED
        BY <1>5, <3>1, <3>2 DEF KeyInv, Aside
    <2> QED
      BY <2>4, <2>5, <2>6, <2>7, <2>8, <2>9 DEF KeyInv
  <1> QED
    BY <1>1, <1>2, <1>3, <1>4, <1>5, StepKinds

\* The keys of journal, job.yaml and scheduler agree in every reachable state.
LEMMA KeyInvariance == Spec => []KeyInv
  <1>1. Init => KeyInv
    BY DEF Init, KeyInv, KeyAtMostOnce, Submitted, Idle, UnderWay, Pending
  <1>2. IInv /\ KeyInv /\ [Next]_vars => KeyInv'
    BY KeyStep
  <1> QED
    BY <1>1, <1>2, Invariance, PTL DEF Spec

\* A request key reaches the scheduler at most once per action, however long ago the
\* journal forgot it, but for cancellations that acted and whose record, which says
\* that they failed, has left the journal.
THEOREM KeysAreUsedOnce == Spec => []KeyAtMostOnce
  <1>1. KeyInv => KeyAtMostOnce
    BY DEF KeyInv
  <1> QED
    BY <1>1, KeyInvariance, PTL

-----------------------------------------------------------------------------
(* What was answered and what job.yaml says was done.                        *)

\* An answered request is either this step's or has stood, with the job it names.
LEMMA ReplayKinds ==
  ASSUME IInv, [Next]_vars, op'.pc = "replayed"
  PROVE  \/ \E k \in AnyKey : ReplaySubmit(k)
         \/ \E a \in Actions, k \in Keys : ReplayAction(a, k)
         \/ /\ op' = op /\ manifest'.job = manifest.job
            /\ effects' = effects
  <1>1. CASE Request
    <2>1. CASE \E k \in AnyKey : StartSubmit(k)
      BY <2>1 DEF StartSubmit, Idle
    <2>2. CASE \E a \in Actions, k \in AnyKey, b \in BOOLEAN, pc \in {"prepare", "issue"} :
                 StartAction(a, k, b, pc)
      BY <2>2 DEF StartAction
    <2>3. CASE op = Idle /\ op' = op
      BY <2>3 DEF Idle
    <2>4. \/ \E k \in AnyKey : ReplaySubmit(k) \/ StartSubmit(k)
          \/ \E a \in Actions, k \in AnyKey, b \in BOOLEAN, pc \in {"prepare", "issue"} :
               StartAction(a, k, b, pc)
          \/ op = Idle /\ op' = op
          \/ \E a \in Actions, k \in Keys : ReplayAction(a, k)
      BY <1>1 DEF Request, StartCancel, StartContinue, StartTune, RefuseOverlap, Reconcile,
             FetchResults, Adopt, Actions, Restarts
    <2> QED
      BY <2>1, <2>2, <2>3, <2>4
  <1>2. CASE Proceed
    <2>1. op \in Operation /\ Idle.pc # "replayed"
      BY DEF IInv, TypeOK, Idle
    <2> QED
      BY <1>2, <2>1 DEF Proceed, Upload, SubmitExecuted, SubmitAcknowledged, SubmitUnanswered,
             SubmitCommitted, SubmitClosed, Archive, RestartExecuted, CancelExecuted, Launched,
             Refused, ActionAcknowledged, CancelRefused, ActionUnanswered, CancelCommitted,
             RestartCommitted, ActionClosed, Abort, Operation
  <1>3. CASE Scheduler
    BY <1>3 DEF Scheduler, Register, Start, Write, End, ForeignLaunch
  <1>4. CASE \E c \in Clients : Select(c) \/ Refresh(c) \/ SkipRefresh(c)
    BY <1>4, RefreshWrites DEF Select, Refresh, Query, RefreshJob, SkipRefresh
  <1>5. CASE UNCHANGED vars
    BY <1>5 DEF vars
  <1> QED
    BY <1>1, <1>2, <1>3, <1>4, <1>5 DEF Next

\* The recovery record of a submission is opened by its request, keeps its transaction,
\* and goes when job.yaml carries the job.
LEMMA SubmissionKinds ==
  ASSUME IInv, [Next]_vars
  PROVE  \/ \E k \in AnyKey : StartSubmit(k)
         \/ /\ submission'.status = "none" <=> submission.status = "none"
            /\ submission'.txn = submission.txn
         \/ /\ submission.status # "none" /\ submission'.status = "none"
            /\ UNCHANGED <<manifest, effects>>
            /\ \A e \in Submitted : e.txn = submission.txn => Taken(e)
  <1> USE DEF IInv
  <1>1. CASE UNCHANGED submission
    BY <1>1
  <1>2. CASE \E k \in AnyKey : ReplaySubmit(k) /\ submission' # submission
    <2>1. /\ submission.status = "remote_accepted" /\ submission' = NoSubmission
          /\ \E a \in Launches : a.job = submission.job
          /\ UNCHANGED <<manifest, effects>>
      BY <1>2 DEF ReplaySubmit
    <2> QED
      BY <2>1 DEF SubmissionInv, NoSubmission, Taken
  <1>3. CASE Upload \/ SubmitAcknowledged \/ SubmitUnanswered
    <2>1. submission.status # "none"
      BY <1>3 DEF Upload, SubmitAcknowledged, SubmitUnanswered, OpInv, UnderWay, Pending
    <2>2. submission'.status # "none" /\ submission'.txn = submission.txn
      BY <1>3, <2>1 DEF Upload, SubmitAcknowledged, SubmitUnanswered, TypeOK, Submission
    <2> QED
      BY <2>1, <2>2
  <1>4. CASE SubmitClosed
    <2>1. /\ submission.status # "none" /\ submission.txn = op.txn
          /\ \E x \in manifest.attempts : x.action = "submit" /\ x.job = op.job
          /\ \A e \in effects : e.txn = op.txn => e.job = op.job
      BY <1>4 DEF SubmitClosed, OpInv, UnderWay, Pending
    <2>2. \A e \in Submitted : e.txn = submission.txn => Taken(e)
      BY <2>1 DEF Taken, Launches, Submitted
    <2> QED
      BY <1>4, <2>1, <2>2 DEF SubmitClosed, NoSubmission
  <1>5. CASE Request
    <2>1. CASE \E k \in AnyKey : ReplaySubmit(k) \/ StartSubmit(k)
      BY <1>1, <1>2, <2>1
    <2>2. CASE \E k \in AnyKey, b \in BOOLEAN :
                 StartCancel(k) \/ StartContinue(k, b) \/ StartTune(k, b) \/ RefuseOverlap(k, b)
      BY <1>1, <2>2 DEF StartCancel, StartContinue, StartTune, StartAction, RefuseOverlap,
             journals
    <2>3. CASE \/ Reconcile \/ FetchResults \/ \E j \in Ids : Adopt(j)
               \/ \E a \in Actions, k \in Keys : ReplayAction(a, k)
      BY <1>1, <2>3 DEF Reconcile, FetchResults, Adopt, ReplayAction, journals
    <2> QED
      BY <1>5, <2>1, <2>2, <2>3 DEF Request
  <1>6. CASE Proceed
    <2>1. CASE \/ SubmitExecuted \/ SubmitCommitted \/ Archive \/ RestartExecuted
               \/ CancelExecuted \/ Refused \/ ActionAcknowledged \/ CancelRefused
               \/ ActionUnanswered \/ CancelCommitted \/ RestartCommitted \/ ActionClosed
               \/ Abort
      BY <1>1, <2>1 DEF SubmitExecuted, SubmitCommitted, Archive, RestartExecuted,
             CancelExecuted, Launched, Refused, ActionAcknowledged, CancelRefused,
             ActionUnanswered, CancelCommitted, RestartCommitted, ActionClosed, Abort,
             journals
    <2> QED
      BY <1>3, <1>4, <1>6, <2>1 DEF Proceed
  <1>7. CASE Scheduler \/ UNCHANGED vars
    BY <1>1, <1>7 DEF Scheduler, Register, Start, Write, End, ForeignLaunch, journals, vars
  <1>8. CASE \E c \in Clients : Select(c) \/ Refresh(c) \/ SkipRefresh(c)
    BY <1>1, <1>8 DEF Select, Refresh, Query, RefreshJob, SkipRefresh, journals
  <1> QED
    BY <1>5, <1>6, <1>7, <1>8 DEF Next

\* Only the scheduler's answer makes a recovery record say that a job was accepted.
LEMMA AcceptedKinds ==
  ASSUME IInv, [Next]_vars
  PROVE  \/ submission' = submission
         \/ submission'.status # "remote_accepted"
         \/ SubmitAcknowledged
  <1> USE DEF IInv
  <1>1. CASE \E k \in AnyKey : ReplaySubmit(k) \/ StartSubmit(k)
    BY <1>1 DEF ReplaySubmit, StartSubmit, NoSubmission
  <1>2. CASE Upload \/ SubmitUnanswered \/ SubmitClosed
    BY <1>2 DEF Upload, SubmitUnanswered, SubmitClosed, NoSubmission, TypeOK, Submission
  <1>3. CASE Request
    <2>1. CASE \E k \in AnyKey, b \in BOOLEAN :
                 StartCancel(k) \/ StartContinue(k, b) \/ StartTune(k, b) \/ RefuseOverlap(k, b)
      BY <2>1 DEF StartCancel, StartContinue, StartTune, StartAction, RefuseOverlap, journals
    <2>2. CASE \/ Reconcile \/ FetchResults \/ \E j \in Ids : Adopt(j)
               \/ \E a \in Actions, k \in Keys : ReplayAction(a, k)
      BY <2>2 DEF Reconcile, FetchResults, Adopt, ReplayAction, journals
    <2> QED
      BY <1>1, <1>3, <2>1, <2>2 DEF Request
  <1>4. CASE Proceed
    <2>1. CASE \/ SubmitExecuted \/ SubmitCommitted \/ Archive \/ RestartExecuted
               \/ CancelExecuted \/ Refused \/ ActionAcknowledged \/ CancelRefused
               \/ ActionUnanswered \/ CancelCommitted \/ RestartCommitted \/ ActionClosed
               \/ Abort
      BY <2>1 DEF SubmitExecuted, SubmitCommitted, Archive, RestartExecuted,
             CancelExecuted, Launched, Refused, ActionAcknowledged, CancelRefused,
             ActionUnanswered, CancelCommitted, RestartCommitted, ActionClosed, Abort,
             journals
    <2> QED
      BY <1>2, <1>4, <2>1 DEF Proceed
  <1>5. CASE Scheduler \/ UNCHANGED vars
    BY <1>5 DEF Scheduler, Register, Start, Write, End, ForeignLaunch, journals, vars
  <1>6. CASE \E c \in Clients : Select(c) \/ Refresh(c) \/ SkipRefresh(c)
    BY <1>6 DEF Select, Refresh, Query, RefreshJob, SkipRefresh, journals
  <1> QED
    BY <1>3, <1>4, <1>5, <1>6 DEF Next

\* A replayed answer describes a command that was executed.
LEMMA ReplayStep ==
  ASSUME IInv, KeyInv, DoneInv, [Next]_vars
  PROVE  ReplayIsCurrent'
  <1> SUFFICES ASSUME op'.pc = "replayed"
               PROVE  /\ op'.job = manifest'.job
                      /\ \E e \in effects' :
                           /\ e.job = manifest'.job
                           /\ op'.kind # "submit" => e.action = op'.kind /\ e.key = op'.key
                           /\ op'.kind = "submit" => e.action # "cancel"
    BY DEF ReplayIsCurrent
  <1>1. CASE \E k \in AnyKey : ReplaySubmit(k)
    <2>1. /\ UNCHANGED <<manifest, effects>>
          /\ op'.kind = "submit" /\ op'.job = manifest.job
      BY <1>1 DEF ReplaySubmit, Idle
    <2>2. \E e \in effects : e.action # "cancel" /\ e.job = manifest.job
      <3>1. CASE submission.status = "remote_accepted" /\ submission.job = manifest.job
        BY <3>1 DEF DoneInv, Submitted
      <3>2. ASSUME NEW x \in Launches, x.key # NoKey, x.job = manifest.job
            PROVE  \E e \in effects : e.action # "cancel" /\ e.job = manifest.job
        BY <3>2 DEF DoneInv, Launches
      <3> QED
        BY <1>1, <3>1, <3>2 DEF ReplaySubmit
    <2> QED
      BY <2>1, <2>2
  <1>2. ASSUME NEW a \in Actions, NEW k \in Keys, ReplayAction(a, k)
        PROVE  \E e \in effects : e.job = manifest.job /\ e.action = a /\ e.key = k
    <2>1. a # "adopt"
      BY DEF Actions, Restarts
    <2>2. ASSUME NEW t, GenerationMatches(t, a)
          PROVE  \E e \in effects : e.txn = t /\ e.job = manifest.job /\ e.action = a
      BY <2>1, <2>2 DEF GenerationMatches, DoneInv
    <2>3. \/ \E r \in journal : r.key = k /\ GenerationMatches(r.txn, a)
          \/ \E x \in manifest.attempts : x.key = k /\ GenerationMatches(x.txn, a)
      BY <1>2 DEF ReplayAction
    <2> QED
      BY <2>2, <2>3 DEF KeyInv
  <1>3. CASE \E a \in Actions, k \in Keys : ReplayAction(a, k)
    <2>1. PICK a \in Actions, k \in Keys : ReplayAction(a, k)
      BY <1>3
    <2>2. /\ UNCHANGED <<manifest, effects>>
          /\ op'.kind = a /\ op'.key = k /\ op'.job = manifest.job
      BY <2>1 DEF ReplayAction, Idle
    <2>3. a # "submit"
      BY DEF Actions, Restarts
    <2> QED
      BY <1>2, <2>1, <2>2, <2>3
  <1>4. CASE op' = op /\ manifest'.job = manifest.job /\ effects' = effects
    BY <1>4 DEF DoneInv, ReplayIsCurrent
  <1> QED
    BY <1>1, <1>3, <1>4, ReplayKinds

\* Every step keeps job.yaml, the scheduler's history and the gates in agreement.
LEMMA DoneStep == ASSUME IInv, IInv', KeyInv, DoneInv, [Next]_vars PROVE DoneInv'
  <1>0. ReplayIsCurrent'
    BY ReplayStep
  <1>1. submission'.status # "none" => submission'.txn \in 1..lastTxn'
    <2>1. lastTxn \in Nat /\ lastTxn' \in Nat /\ lastTxn' >= lastTxn
      <3>1. lastTxn \in Nat /\ lastTxn' \in Nat
        BY BoundsAssumption DEF IInv, TypeOK
      <3>2. lastTxn' = lastTxn \/ lastTxn' = lastTxn + 1
        BY StepKinds, StartSubmitFacts, BeginsFacts, ExecutedFacts, CommittedFacts
           DEF Aside, journals
      <3> QED
        BY <3>1, <3>2
    <2>2. \/ submission'.status = "none"
          \/ submission.status # "none" /\ submission'.txn = submission.txn
          \/ submission'.txn = lastTxn' /\ lastTxn' \in Txns
      BY SubmissionKinds, StartSubmitFacts
    <2> QED
      BY <2>1, <2>2 DEF DoneInv, Txns
  <1> DEFINE Backed(x) == /\ x.action = "adopt" => x.key = NoKey
                          /\ x.action # "adopt" =>
                               \E e \in effects : /\ e.txn = x.txn /\ e.action = x.action
                                                  /\ e.job = x.job
  <1>2. effects \subseteq effects'
    BY StepKinds, StartSubmitFacts, BeginsFacts, ExecutedFacts, CommittedFacts DEF Aside
  <1>10. submission'.status = "remote_accepted" =>
           \E e \in Submitted' : e.job = submission'.job
    <2>1. CASE submission' = submission
      BY <1>2, <2>1 DEF DoneInv, Submitted
    <2>2. CASE SubmitAcknowledged
      <3>1. submission'.job = op.job /\ effects' = effects
        BY <2>2 DEF SubmitAcknowledged, IInv, TypeOK, Submission
      <3>2. PICK e \in effects : e.txn = op.txn
        BY <2>2 DEF SubmitAcknowledged, DoneInv, Pending
      <3>3. e.action = "submit" /\ e.job = op.job
        BY <2>2, <3>2 DEF SubmitAcknowledged, IInv, OpInv, UnderWay, Pending
      <3> QED
        BY <3>1, <3>2, <3>3 DEF Submitted
    <2> QED
      BY <2>1, <2>2, AcceptedKinds
  <1>3. \A x \in manifest.attempts : Backed(x)'
    BY <1>2 DEF DoneInv
  <1>4. ASSUME \A x \in manifest'.attempts : Backed(x)',
               op'.pc \in Pending /\ op'.job # 0 => \E e \in effects' : e.txn = op'.txn,
               \A r, s \in Gate' : r.txn = s.txn,
               op'.kind \in Actions /\ op'.pc \in UnderWay => \A r \in Gate' : r.txn = op'.txn
        PROVE  DoneInv'
    <2>1. \A r, s \in Gate' : r = s
      BY <1>4 DEF IInv, TxnInv, Gate
    <2> QED
      BY <1>0, <1>1, <1>4, <1>10, <2>1 DEF DoneInv
  <1>5. ASSUME NEW k \in AnyKey, StartSubmit(k) PROVE DoneInv'
    <2>1. UNCHANGED <<manifest, journal, effects>> /\ op'.kind = "submit" /\ op'.job = 0
      BY <1>5, StartSubmitFacts
    <2>2. Gate' = Gate
      BY <2>1 DEF Gate
    <2> HIDE DEF Backed
    <2> QED
      BY <1>3, <1>4, <2>1, <2>2 DEF DoneInv, Actions, Restarts
  <1>6. ASSUME NEW a \in Actions, NEW k \in AnyKey, NEW b \in BOOLEAN,
               NEW pc \in {"prepare", "issue"}, Begins(a, k, b, pc)
        PROVE  DoneInv'
    <2>1. /\ UNCHANGED <<manifest, effects>> /\ op'.job = 0 /\ op'.txn = lastTxn'
          /\ \A r \in journal' : r \in journal \ Gate' \/ r.txn = lastTxn'
      BY <1>6, BeginsFacts
    <2>2. \A r \in Gate' : r.txn = lastTxn'
      BY <2>1 DEF Gate
    <2> HIDE DEF Backed
    <2> QED
      BY <1>3, <1>4, <2>1, <2>2
  <1>7. CASE SubmitExecuted \/ RestartExecuted \/ CancelExecuted
    <2>1. PICK j \in Ids :
            /\ effects' = effects \union {Effected(j)} /\ op.pc = "issue"
            /\ op'.kind = op.kind /\ op'.txn = op.txn
            /\ UNCHANGED <<manifest, journals>>
      BY <1>7, ExecutedFacts
    <2>2. Effected(j) \in effects' /\ Effected(j).txn = op.txn
      BY <2>1 DEF Effected
    <2>3. Gate' = Gate
      BY <2>1 DEF Gate, journals
    <2>4. /\ \A r, s \in Gate' : r.txn = s.txn
          /\ op'.kind \in Actions => \A r \in Gate' : r.txn = op'.txn
      BY <2>1, <2>3 DEF DoneInv, UnderWay, Pending
    <2> HIDE DEF Backed
    <2> QED
      BY <1>3, <1>4, <2>1, <2>2, <2>4
  <1>8. CASE SubmitCommitted \/ CancelCommitted \/ RestartCommitted
    <2>1. /\ manifest'.attempts = manifest.attempts \union {Attempted}
          /\ op.pc = "commit" /\ op.kind \in Actions \union {"submit"} /\ op.job \in Ids
          /\ op'.pc = "close" /\ op'.kind = op.kind /\ op'.txn = op.txn
          /\ UNCHANGED <<journals, effects>>
      BY <1>8, CommittedFacts
    <2>2. PICK e \in effects : e.txn = op.txn
      BY <2>1 DEF DoneInv, Pending, Ids
    <2>3. e.action = op.kind /\ e.job = op.job
      BY <2>1, <2>2 DEF IInv, OpInv, UnderWay, Pending
    <2>4. PICK y : y = Attempted
      OBVIOUS
    <2>5. Backed(y)'
      <3>1. y.txn = op.txn /\ y.action = op.kind /\ y.job = op.job
        BY <2>4 DEF Attempted
      <3>2. y.action # "adopt"
        BY <2>1, <3>1 DEF Actions, Restarts
      <3> QED
        BY <2>1, <2>2, <2>3, <3>1, <3>2
    <2>6. Gate' = Gate
      BY <2>1 DEF Gate, journals
    <2>7. /\ \A r, s \in Gate' : r.txn = s.txn
          /\ op'.kind \in Actions => \A r \in Gate' : r.txn = op'.txn
      BY <2>1, <2>6 DEF DoneInv, UnderWay, Pending
    <2> HIDE DEF Backed
    <2> QED
      BY <1>3, <1>4, <2>1, <2>4, <2>5, <2>7 DEF Pending
  <1>9. CASE Aside
    <2>1. UNCHANGED effects /\ SameCommands /\ SameOperation
      BY <1>9 DEF Aside
    <2>2. \A x \in manifest'.attempts : Backed(x)'
      BY <1>3, <1>9, AsideAttempts
    <2>3. \A m \in Gate' : \E r \in Gate : m.txn = r.txn
      BY <2>1 DEF SameCommands, Gate
    <2>4. /\ \A r, s \in Gate' : r.txn = s.txn
          /\ op'.kind \in Actions /\ op'.pc \in UnderWay => \A r \in Gate' : r.txn = op'.txn
      BY <2>1, <2>3 DEF DoneInv, SameOperation
    <2>5. op'.pc \in Pending /\ op'.job # 0 => \E e \in effects' : e.txn = op'.txn
      BY <2>1 DEF DoneInv, SameOperation, UnderWay
    <2> HIDE DEF Backed
    <2> QED
      BY <1>4, <2>2, <2>4, <2>5
  <1> HIDE DEF Backed
  <1> QED
    BY <1>5, <1>6, <1>7, <1>8, <1>9, StepKinds

\* What job.yaml says was done the scheduler did, in every reachable state.
LEMMA DoneInvariance == Spec => []DoneInv
  <1>1. Init => DoneInv
    BY DEF Init, DoneInv, ReplayIsCurrent, Idle, NoSubmission, Gate, UnderWay, Pending
  <1>2. IInv /\ IInv' /\ KeyInv /\ DoneInv /\ [Next]_vars => DoneInv'
    BY DoneStep
  <1> QED
    BY <1>1, <1>2, Invariance, KeyInvariance, PTL DEF Spec

\* A repeated request is answered only with a command that was executed, that is its own
\* by key, and whose scheduler job is still the one job.yaml names.
THEOREM ReplaysAreCurrent == Spec => []ReplayIsCurrent
  <1>1. DoneInv => ReplayIsCurrent
    BY DEF DoneInv
  <1> QED
    BY <1>1, DoneInvariance, PTL

-----------------------------------------------------------------------------
(* The rounds.                                                               *)

\* Every step keeps the automatic restarts within the rounds.
LEMMA RoundsStep ==
  ASSUME IInv, IInv', KeyInv, DoneInv, RoundsInv, [Next]_vars
  PROVE  RoundsInv'
  <1>1. /\ IsFiniteSet(effects) /\ IsFiniteSet(Bounded) /\ IsFiniteSet(Counted)
        /\ Cardinality(Bounded) \in Nat /\ Cardinality(Counted) \in Nat
        /\ Cardinality(Bounded) <= MaxRounds /\ Cardinality(Counted) <= manifest.rounds
        /\ manifest.rounds \in Nat
    BY FS_Subset, FS_CardinalityType DEF RoundsInv, AutoRoundsBounded, Bounded, Counted, IInv, TypeOK,
       Manifest
  <1>2. ASSUME UNCHANGED effects, manifest'.rounds >= manifest.rounds,
               \/ Counted' = Counted
               \/ /\ manifest'.rounds = manifest.rounds + 1
                  /\ \E e : Counted' \subseteq Counted \union {e}
        PROVE  /\ AutoRoundsBounded' /\ IsFiniteSet(effects)'
               /\ Bounded' = Bounded
               /\ Cardinality(Counted') <= manifest'.rounds
    <2>1. Bounded' = Bounded /\ AutoRoundsBounded' /\ IsFiniteSet(effects)'
      BY <1>2 DEF Bounded, AutoRoundsBounded, RoundsInv
    <2>2. manifest'.rounds \in Nat
      BY DEF IInv, TypeOK, Manifest
    <2>3. CASE Counted' = Counted
      BY <1>1, <1>2, <2>1, <2>2, <2>3
    <2>4. CASE manifest'.rounds = manifest.rounds + 1
               /\ \E e : Counted' \subseteq Counted \union {e}
      <3>1. PICK e : Counted' \subseteq Counted \union {e}
        BY <2>4
      <3>2. IsFiniteSet(Counted \union {e})
            /\ Cardinality(Counted \union {e}) <= Cardinality(Counted) + 1
        <4>1. /\ IsFiniteSet(Counted \union {e})
              /\ \/ Cardinality(Counted \union {e}) = Cardinality(Counted)
                 \/ Cardinality(Counted \union {e}) = Cardinality(Counted) + 1
          BY <1>1, FS_AddElement, Zenon
        <4> QED
          BY <1>1, <4>1
      <3>3. Cardinality(Counted') \in Nat /\ Cardinality(Counted \union {e}) \in Nat
            /\ Cardinality(Counted') <= Cardinality(Counted \union {e})
        BY <3>1, <3>2, FS_Subset, FS_CardinalityType
      <3> QED
        BY <1>1, <2>1, <2>2, <2>4, <3>2, <3>3
    <2> QED
      BY <1>2, <2>1, <2>3, <2>4
  <1>3. ASSUME NEW k \in AnyKey, StartSubmit(k) PROVE RoundsInv'
    <2>1. /\ UNCHANGED <<manifest, effects>> /\ op'.bounded = FALSE /\ op'.txn = lastTxn'
          /\ \A e \in effects : e.txn # lastTxn'
      BY <1>3, StartSubmitFacts
    <2>2. Counted' = Counted
      BY <2>1 DEF Counted, Bounded
    <2> QED
      BY <1>1, <1>2, <2>1, <2>2 DEF RoundsInv
  <1>4. ASSUME NEW a \in Actions, NEW k \in AnyKey, NEW b \in BOOLEAN,
               NEW pc \in {"prepare", "issue"}, Begins(a, k, b, pc)
        PROVE  RoundsInv'
    <2>1. /\ UNCHANGED <<manifest, submission, effects>> /\ op'.bounded = b /\ op'.kind = a
          /\ op'.txn = lastTxn' /\ Gate = {}
          /\ \A e \in effects : e.txn # lastTxn'
      BY <1>4, BeginsFacts
    <2>2. Counted' = Counted
      BY <2>1 DEF Counted, Bounded
    <2>3. b => a \in Restarts /\ manifest.rounds < MaxRounds
      BY <1>4 DEF Begins
    <2>4. Bounded = Counted
      <3>1. \A e \in effects : e.bounded => \E x \in manifest.attempts : x.txn = e.txn
        <4> SUFFICES ASSUME NEW e \in effects, e.bounded
                     PROVE  \E x \in manifest.attempts : x.txn = e.txn
          OBVIOUS
        <4>1. e.action # "submit" /\ e.action # "cancel"
          BY DEF RoundsInv, Bounded, Restarts
        <4> QED
          BY <2>1, <4>1 DEF IInv, NoOrphan, Accounted, Taken, Launches
      <3> QED
        BY <3>1 DEF Bounded, Counted
    <2>5. b => Cardinality(Bounded) < MaxRounds
      BY <1>1, <2>3, <2>4, BoundsAssumption
    <2> QED
      BY <1>1, <1>2, <2>1, <2>2, <2>3, <2>5 DEF RoundsInv
  <1>5. CASE SubmitExecuted \/ RestartExecuted \/ CancelExecuted
    <2>1. PICK j \in Ids :
            /\ effects' = effects \union {Effected(j)} /\ op.pc = "issue"
            /\ op'.pc = "reply" /\ op'.kind = op.kind /\ op'.txn = op.txn
            /\ op'.bounded = op.bounded
            /\ UNCHANGED <<manifest, journals>>
            /\ \A x \in manifest.attempts : x.txn # op.txn
            /\ \A e \in effects : e.txn # op.txn
      BY <1>5, ExecutedFacts
    <2>2. PICK f : f = Effected(j)
      OBVIOUS
    <2>3. f.txn = op.txn /\ f.bounded = op.bounded /\ f.action = op.kind
          /\ effects' = effects \union {f}
      BY <2>1, <2>2 DEF Effected
    <2>4. Counted' = Counted
      BY <2>1, <2>3 DEF Counted, Bounded
    <2>5. Bounded' = IF op.bounded THEN Bounded \union {f} ELSE Bounded
      BY <2>3 DEF Bounded
    <2>6. IsFiniteSet(effects')
      BY <1>1, <2>3, FS_AddElement
    <2>7. Cardinality(Bounded') <= MaxRounds
      <3>1. CASE ~op.bounded
        BY <1>1, <2>5, <3>1
      <3>2. CASE op.bounded
        <4>1. Cardinality(Bounded) < MaxRounds
          BY <2>1, <3>2 DEF RoundsInv
        <4>2. \/ Cardinality(Bounded') = Cardinality(Bounded)
              \/ Cardinality(Bounded') = Cardinality(Bounded) + 1
          BY <1>1, <2>5, <3>2, FS_AddElement, Zenon
        <4> QED
          BY <1>1, <4>1, <4>2, BoundsAssumption
      <3> QED
        BY <3>1, <3>2
    <2>8. /\ op.bounded => op.kind \in Restarts
          /\ \A e \in Bounded' : e.action \in Restarts
          /\ \A e \in effects' : e.txn = op'.txn => e.bounded = op'.bounded
      BY <2>1, <2>3, <2>5 DEF RoundsInv, UnderWay, Pending
    <2> QED
      BY <1>1, <2>1, <2>4, <2>6, <2>7, <2>8 DEF RoundsInv, AutoRoundsBounded, Bounded
  <1>6. CASE SubmitCommitted \/ CancelCommitted \/ RestartCommitted
    <2>1. /\ manifest'.attempts = manifest.attempts \union {Attempted}
          /\ manifest'.rounds = IF op.kind \in Restarts THEN manifest.rounds + 1
                                                        ELSE manifest.rounds
          /\ op.pc = "commit" /\ op'.pc = "close" /\ op'.kind = op.kind /\ op'.txn = op.txn
          /\ op'.bounded = op.bounded
          /\ UNCHANGED <<journals, effects>>
      BY <1>6, CommittedFacts
    <2>2. Attempted.txn = op.txn
      BY DEF Attempted
    <2>3. \A e \in effects : e.txn = op.txn => e.bounded = op.bounded
      BY <2>1 DEF RoundsInv, UnderWay, Pending
    <2>4. CASE op.bounded
      <3>1. op.kind \in Restarts
        BY <2>1, <2>4 DEF RoundsInv, UnderWay, Pending
      <3>2. PICK f \in effects : f.txn = op.txn
        BY <2>1 DEF DoneInv, IInv, OpInv, UnderWay, Pending
      <3>3. \A e \in effects : e.txn = op.txn => e = f
        BY <3>2 DEF KeyInv
      <3>4. Counted' \subseteq Counted \union {f}
        BY <2>1, <2>2, <3>3 DEF Counted, Bounded
      <3>5. manifest'.rounds = manifest.rounds + 1
        BY <2>1, <3>1
      <3> QED
        BY <1>1, <1>2, <2>1, <2>3, <3>4, <3>5 DEF RoundsInv
    <2>5. CASE ~op.bounded
      <3>1. Counted' = Counted
        BY <2>1, <2>2, <2>3, <2>5 DEF Counted, Bounded
      <3>2. manifest'.rounds >= manifest.rounds
        BY <1>1, <2>1
      <3> QED
        BY <1>1, <1>2, <2>1, <2>3, <2>5, <3>1, <3>2 DEF RoundsInv, UnderWay, Pending
    <2> QED
      BY <2>4, <2>5 DEF IInv, TypeOK, Operation
  <1>7. CASE Aside
    <2>1. /\ UNCHANGED effects /\ SameOperation /\ manifest'.rounds = manifest.rounds
          /\ \A e \in effects : e.txn # 0
      BY <1>7 DEF Aside, IInv, TypeOK, Effect, Txns
    <2>2. Counted' = Counted
      BY <1>7, <2>1, AsideAttempts DEF Counted, Bounded
    <2>3. /\ AutoRoundsBounded' /\ IsFiniteSet(effects)' /\ Bounded' = Bounded
          /\ Cardinality(Counted') <= manifest'.rounds
      BY <1>1, <1>2, <2>1, <2>2
    <2>4. CASE op'.pc \in UnderWay
      BY <2>1, <2>3, <2>4 DEF RoundsInv, SameOperation, UnderWay, Pending
    <2>5. CASE op'.pc \notin UnderWay
      <3> QED
        BY <2>1, <2>3, <2>5 DEF RoundsInv, UnderWay, Pending
    <2> QED
      BY <2>4, <2>5
  <1> QED
    BY <1>3, <1>4, <1>5, <1>6, <1>7, StepKinds

\* The rounds counted bound the automatic restarts in every reachable state.
LEMMA RoundsInvariance == Spec => []RoundsInv
  <1>1. Init => RoundsInv
    <2> SUFFICES ASSUME Init PROVE RoundsInv
      OBVIOUS
    <2>1. effects = {} /\ manifest.rounds = 0 /\ op.pc = "idle"
      BY DEF Init, Idle
    <2>2. Bounded = {} /\ Counted = {}
      BY <2>1 DEF Bounded, Counted
    <2>3. IsFiniteSet({}) /\ Cardinality({}) = 0
      BY FS_EmptySet
    <2> QED
      BY <2>1, <2>2, <2>3, BoundsAssumption
         DEF RoundsInv, AutoRoundsBounded, Bounded, UnderWay, Pending
  <1>2. IInv /\ IInv' /\ KeyInv /\ DoneInv /\ RoundsInv /\ [Next]_vars => RoundsInv'
    BY RoundsStep
  <1> QED
    BY <1>1, <1>2, Invariance, KeyInvariance, DoneInvariance, PTL DEF Spec

\* Automatic restarts stop at CONTINUE_MAX_ROUNDS, over the whole life of the job, lost
\* replies and crashes included.
THEOREM RoundsAreBounded == Spec => []AutoRoundsBounded
  <1>1. RoundsInv => AutoRoundsBounded
    BY DEF RoundsInv
  <1> QED
    BY <1>1, RoundsInvariance, PTL

-----------------------------------------------------------------------------
(* Both journals implement the at-most-once channel.                         *)

\* What the two channels see of a state, by name.
SubmitGate == IF submission.status = "none" THEN {} ELSE {submission.txn}
SubmitAccepted == {e.txn : e \in Submitted}
SubmitRecorded == {e.txn : e \in {s \in Submitted : Taken(s)}}

ActionGate == {r.txn : r \in Gate}
ActionAccepted == {e.txn : e \in Restarted}
ActionRecorded == {a.txn : a \in {x \in manifest.attempts : x.action \in Restarts}}

\* What job.yaml gains can only be the one submission.
LEMMA SubmissionIsRecorded ==
  ASSUME IInv, KeyInv, SubmitGate' = SubmitGate, effects' = effects,
         manifest.attempts \subseteq manifest'.attempts
  PROVE  [SubmitChannel!Next]_(SubmitChannel!channel)
  <1> USE DEF SubmitGate, SubmitAccepted, SubmitRecorded
  <1>1. SubmitAccepted' = SubmitAccepted
    BY DEF Submitted
  <1>2. CASE SubmitRecorded' = SubmitRecorded
    BY <1>1, <1>2 DEF SubmitChannel!channel
  <1>3. CASE SubmitRecorded' # SubmitRecorded
    <2>1. \A e \in Submitted : Taken(e) => Taken(e)'
      BY DEF Taken, Launches
    <2>2. PICK e \in Submitted : Taken(e)' /\ e.txn \notin SubmitRecorded
      BY <1>3, <2>1 DEF Submitted
    <2>3. \A f \in Submitted : f = e
      BY DEF KeyInv
    <2>4. PICK t \in Txns : t = e.txn
      BY DEF IInv, TypeOK, Effect, Submitted
    <2>5. SubmitRecorded = {} /\ SubmitRecorded' = {t} /\ t \in SubmitAccepted
      BY <2>2, <2>3, <2>4 DEF Submitted
    <2>6. SubmitChannel!Record(t)
      BY <1>1, <2>5 DEF SubmitChannel!Record
    <2> QED
      BY <2>6 DEF SubmitChannel!Next
  <1> QED
    BY <1>2, <1>3

\* A step is one of the submission channel, or leaves it alone.
LEMMA SubmitChannelStep ==
  ASSUME IInv, KeyInv, DoneInv, [Next]_vars
  PROVE  [SubmitChannel!Next]_(SubmitChannel!channel)
  <1> USE DEF SubmitGate, SubmitAccepted, SubmitRecorded
  <1>1. CASE UNCHANGED <<SubmitGate, SubmitAccepted, SubmitRecorded>>
    BY <1>1 DEF SubmitChannel!channel
  <1>2. ASSUME NEW k \in AnyKey, StartSubmit(k)
        PROVE  SubmitChannel!Open(lastTxn') /\ lastTxn' \in Txns
    <2>1. /\ submission.status = "none" /\ submission'.status = "preparing"
          /\ submission'.txn = lastTxn' /\ lastTxn' \in Txns
          /\ UNCHANGED <<manifest, effects>>
          /\ \A e \in effects : e.txn # lastTxn'
      BY <1>2, StartSubmitFacts
    <2>2. SubmitGate = {} /\ SubmitGate' = {lastTxn'}
      BY <2>1
    <2>3. UNCHANGED <<SubmitAccepted, SubmitRecorded>> /\ lastTxn' \notin SubmitAccepted
      BY <2>1 DEF Submitted, Taken, Launches
    <2> QED
      BY <2>1, <2>2, <2>3 DEF SubmitChannel!Open
  <1>3. ASSUME NEW a \in Actions, NEW k \in AnyKey, NEW b \in BOOLEAN,
               NEW pc \in {"prepare", "issue"}, Begins(a, k, b, pc)
        PROVE  UNCHANGED <<SubmitGate, SubmitAccepted, SubmitRecorded>>
    <2>1. UNCHANGED <<manifest, submission, effects>>
      BY <1>3, BeginsFacts
    <2> QED
      BY <2>1 DEF Submitted, Taken, Launches
  <1>4. CASE SubmitExecuted \/ RestartExecuted \/ CancelExecuted
    <2>1. PICK j \in Ids :
            /\ effects' = effects \union {Effected(j)} /\ op.pc = "issue"
            /\ UNCHANGED <<manifest, journals>>
            /\ op.txn \in Txns /\ \A e \in effects : e.txn # op.txn
      BY <1>4, ExecutedFacts
    <2>2. PICK f : f = Effected(j)
      OBVIOUS
    <2>3. f.txn = op.txn /\ f.action = op.kind /\ effects' = effects \union {f}
      BY <2>1, <2>2 DEF Effected
    <2>4. SubmitGate' = SubmitGate /\ manifest' = manifest
      BY <2>1 DEF journals
    <2>5. CASE op.kind # "submit"
      <3>1. UNCHANGED <<SubmitAccepted, SubmitRecorded>>
        BY <2>3, <2>4, <2>5 DEF Submitted, Taken, Launches
      <3> QED
        BY <1>1, <2>4, <3>1
    <2>6. CASE op.kind = "submit"
      <3>1. op.txn \in SubmitGate
        BY <2>1, <2>6 DEF IInv, OpInv, UnderWay, Pending
      <3>2. op.txn \notin SubmitAccepted
        BY <2>1 DEF Submitted
      <3>3. SubmitAccepted' = SubmitAccepted \union {op.txn}
        BY <2>3, <2>6 DEF Submitted
      <3>4. SubmitRecorded' = SubmitRecorded
        BY <2>1, <2>4, <2>6 DEF KeyInv, Pending, Submitted, Taken, Launches
      <3>5. PICK t \in Txns : t = op.txn
        BY <2>1
      <3>6. SubmitChannel!Accept(t)
        BY <2>4, <3>1, <3>2, <3>3, <3>4, <3>5 DEF SubmitChannel!Accept
      <3> QED
        BY <3>6 DEF SubmitChannel!Next
    <2> QED
      BY <2>5, <2>6
  <1>5. CASE SubmitCommitted \/ CancelCommitted \/ RestartCommitted
    <2>1. /\ manifest.attempts \subseteq manifest'.attempts
          /\ UNCHANGED <<journals, effects>>
      BY <1>5, CommittedFacts
    <2> QED
      BY <2>1, SubmissionIsRecorded DEF journals
  <1>6. CASE Aside /\ ~\E k \in AnyKey : StartSubmit(k)
    <2>1. effects' = effects /\ manifest.attempts \subseteq manifest'.attempts
      BY <1>6, AsideAttempts DEF Aside
    <2>2. CASE /\ submission'.status = "none" <=> submission.status = "none"
               /\ submission'.txn = submission.txn
      BY <2>1, <2>2, SubmissionIsRecorded
    <2>3. CASE /\ submission.status # "none" /\ submission'.status = "none"
               /\ UNCHANGED <<manifest, effects>>
               /\ \A e \in Submitted : e.txn = submission.txn => Taken(e)
      <3>1. submission.txn \in Txns
        BY <2>3, BoundsAssumption DEF DoneInv, IInv, TypeOK, Txns
      <3>2. UNCHANGED <<SubmitAccepted, SubmitRecorded>>
        BY <2>3 DEF Submitted, Taken, Launches
      <3>3. SubmitChannel!Release(submission.txn)
        BY <2>3, <3>2 DEF SubmitChannel!Release
      <3> QED
        BY <3>1, <3>3 DEF SubmitChannel!Next
    <2> QED
      BY <1>6, <2>2, <2>3, SubmissionKinds
  <1> QED
    BY <1>1, <1>2, <1>3, <1>4, <1>5, <1>6, StepKinds DEF SubmitChannel!Next

\* The recovery record of submit_job is an at-most-once channel: a submission is written
\* before it is sent, sent once, and forgotten only when job.yaml has it.
THEOREM SubmissionsAreSentOnce == Spec => SubmitAtMostOnce
  <1>1. Init => SubmitChannel!Init
    BY DEF Init, SubmitChannel!Init, NoSubmission, Submitted
  <1>2. IInv /\ KeyInv /\ DoneInv /\ [Next]_vars => [SubmitChannel!Next]_(SubmitChannel!channel)
    BY SubmitChannelStep
  <1> QED
    BY <1>1, <1>2, Invariance, KeyInvariance, DoneInvariance, PTL
       DEF Spec, SubmitAtMostOnce, SubmitChannel!Spec

\* A step is one of the channel of the restarts, or leaves it alone.
LEMMA ActionChannelStep ==
  ASSUME IInv, IInv', DoneInv, [Next]_vars
  PROVE  [ActionChannel!Next]_(ActionChannel!channel)
  <1> USE DEF ActionGate, ActionAccepted, ActionRecorded
  <1>0. "submit" \notin Restarts /\ "adopt" \notin Restarts /\ Restarts \subseteq Actions
    BY DEF Actions, Restarts
  <1>1. CASE UNCHANGED <<ActionGate, ActionAccepted, ActionRecorded>>
    BY <1>1 DEF ActionChannel!channel
  <1>2. ASSUME NEW k \in AnyKey, StartSubmit(k)
        PROVE  UNCHANGED <<ActionGate, ActionAccepted, ActionRecorded>>
    BY <1>2, StartSubmitFacts DEF Restarted, Gate
  <1>3. ASSUME NEW a \in Actions, NEW k \in AnyKey, NEW b \in BOOLEAN,
               NEW pc \in {"prepare", "issue"}, Begins(a, k, b, pc)
        PROVE  [ActionChannel!Next]_(ActionChannel!channel)
    <2>1. /\ UNCHANGED <<manifest, effects>> /\ lastTxn' \in Txns /\ Gate = {}
          /\ \A r \in journal' : r \in journal \ Gate' \/ r.txn = lastTxn'
          /\ \E r \in Gate' : r.txn = lastTxn'
          /\ \A e \in effects : e.txn # lastTxn'
      BY <1>3, BeginsFacts
    <2>2. PICK t \in Txns : t = lastTxn'
      BY <2>1
    <2>3. ActionGate = {} /\ ActionGate' = {t}
      <3>1. \A r \in Gate' : r.txn = t
        BY <2>1, <2>2 DEF Gate
      <3> QED
        BY <2>1, <2>2, <3>1
    <2>4. UNCHANGED <<ActionAccepted, ActionRecorded>> /\ t \notin ActionAccepted
      BY <2>1, <2>2 DEF Restarted
    <2>5. ActionChannel!Open(t)
      BY <2>3, <2>4 DEF ActionChannel!Open
    <2> QED
      BY <2>5 DEF ActionChannel!Next
  <1>4. CASE SubmitExecuted \/ RestartExecuted \/ CancelExecuted
    <2>1. PICK j \in Ids :
            /\ effects' = effects \union {Effected(j)} /\ op.pc = "issue"
            /\ op.kind \in Actions \union {"submit"}
            /\ UNCHANGED <<manifest, journals>>
            /\ op.txn \in Txns /\ \A e \in effects : e.txn # op.txn
      BY <1>4, ExecutedFacts
    <2>2. PICK f : f = Effected(j)
      OBVIOUS
    <2>3. f.txn = op.txn /\ f.action = op.kind /\ effects' = effects \union {f}
      BY <2>1, <2>2 DEF Effected
    <2>4. UNCHANGED <<ActionGate, ActionRecorded>>
      BY <2>1 DEF journals, Gate
    <2>5. CASE op.kind \notin Restarts
      <3>1. ActionAccepted' = ActionAccepted
        BY <2>3, <2>5 DEF Restarted
      <3> QED
        BY <1>1, <2>4, <3>1
    <2>6. CASE op.kind \in Restarts
      <3>1. op.txn \in ActionGate
        BY <1>0, <2>1, <2>6 DEF IInv, OpInv, UnderWay, Pending
      <3>2. op.txn \notin ActionAccepted
        BY <2>1 DEF Restarted
      <3>3. ActionAccepted' = ActionAccepted \union {op.txn}
        BY <2>3, <2>6 DEF Restarted
      <3>4. PICK t \in Txns : t = op.txn
        BY <2>1
      <3>5. ActionChannel!Accept(t)
        BY <2>4, <3>1, <3>2, <3>3, <3>4 DEF ActionChannel!Accept
      <3> QED
        BY <3>5 DEF ActionChannel!Next
    <2> QED
      BY <2>5, <2>6
  <1>5. CASE SubmitCommitted \/ CancelCommitted \/ RestartCommitted
    <2>1. /\ manifest'.attempts = manifest.attempts \union {Attempted}
          /\ op.pc = "commit" /\ op.job \in Ids /\ op.txn \in Txns
          /\ op.kind \in Actions \union {"submit"}
          /\ UNCHANGED <<journals, effects>>
          /\ \A x \in manifest.attempts : x.txn # op.txn
      BY <1>5, CommittedFacts
    <2>2. PICK y : y = Attempted
      OBVIOUS
    <2>3. y.txn = op.txn /\ y.action = op.kind
          /\ manifest'.attempts = manifest.attempts \union {y}
      BY <2>1, <2>2 DEF Attempted
    <2>4. UNCHANGED <<ActionGate, ActionAccepted>>
      BY <2>1 DEF journals, Restarted, Gate
    <2>5. CASE op.kind \notin Restarts
      <3>1. ActionRecorded' = ActionRecorded
        BY <1>0, <2>3, <2>5
      <3> QED
        BY <1>1, <2>4, <3>1
    <2>6. CASE op.kind \in Restarts
      <3>1. op.txn \in ActionAccepted
        <4>1. PICK e \in effects : e.txn = op.txn
          BY <2>1 DEF DoneInv, Pending, Ids
        <4>2. e.action = op.kind
          BY <2>1, <2>6, <4>1 DEF IInv, OpInv, UnderWay, Pending
        <4> QED
          BY <2>6, <4>1, <4>2 DEF Restarted
      <3>2. op.txn \notin ActionRecorded
        BY <2>1
      <3>3. ActionRecorded' = ActionRecorded \union {op.txn}
        BY <2>1, <2>3, <2>6
      <3>4. PICK t \in Txns : t = op.txn
        BY <2>1
      <3>5. ActionChannel!Record(t)
        BY <2>4, <3>1, <3>2, <3>3, <3>4 DEF ActionChannel!Record
      <3> QED
        BY <3>5 DEF ActionChannel!Next
    <2> QED
      BY <2>5, <2>6
  <1>6. CASE Aside
    <2>1. /\ effects' = effects
          /\ \A m \in Gate' : \E r \in Gate : m.txn = r.txn
      BY <1>6 DEF Aside, SameCommands, Gate
    <2>2. UNCHANGED <<ActionAccepted, ActionRecorded>>
      BY <1>0, <1>6, <2>1, AsideAttempts DEF Restarted
    <2>3. CASE ActionGate' = ActionGate
      BY <1>1, <2>2, <2>3
    <2>4. CASE ActionGate' # ActionGate
      <3>1. PICK g \in Gate : Gate = {g}
        BY <2>1, <2>4 DEF DoneInv
      <3>2. ActionGate = {g.txn} /\ Gate' = {} /\ ActionGate' = {}
        BY <2>1, <2>4, <3>1
      <3>3. PICK t \in Txns : t = g.txn
        BY DEF IInv, TypeOK, Record, Gate
      <3>4. t \in ActionAccepted => t \in ActionRecorded
        <4> SUFFICES ASSUME NEW e \in Restarted, e.txn = t
                     PROVE  t \in ActionRecorded'
          BY <2>2
        <4>1. e.action \in Restarts /\ e.action # "submit" /\ e.action # "cancel"
          BY DEF Restarted, Restarts
        <4>2. \E x \in manifest'.attempts : x.txn = e.txn /\ x.action = e.action
          BY <2>1, <3>2, <4>1 DEF IInv, NoOrphan, Accounted, Restarted
        <4> QED
          BY <4>1, <4>2
      <3>5. ActionChannel!Release(t)
        BY <2>2, <3>2, <3>3, <3>4 DEF ActionChannel!Release
      <3> QED
        BY <3>5 DEF ActionChannel!Next
    <2> QED
      BY <2>3, <2>4
  <1> QED
    BY <1>1, <1>2, <1>3, <1>4, <1>5, <1>6, StepKinds

\* The journal that restarts share with cancellations is an at-most-once channel for the
\* restarts: one is written before it is sent, sent once and only when no record of
\* either kind is unresolved, and its record is resolved only when job.yaml has it or it
\* never reached the scheduler.
THEOREM ActionsAreSentOnce == Spec => ActionAtMostOnce
  <1>1. Init => ActionChannel!Init
    BY DEF Init, ActionChannel!Init, Gate, Restarted
  <1>2. IInv /\ IInv' /\ DoneInv /\ [Next]_vars => [ActionChannel!Next]_(ActionChannel!channel)
    BY ActionChannelStep
  <1> QED
    BY <1>1, <1>2, Invariance, DoneInvariance, PTL DEF Spec, ActionAtMostOnce, ActionChannel!Spec

-----------------------------------------------------------------------------
(* Steps by what they do to job.yaml, the jobs and their output.             *)

\* Only the journals and the operation move, and no restart comes past its archiving.
Calm ==
  /\ UNCHANGED <<manifest, external, view, effects>>
  /\ SameOperation
  /\ op'.kind \in Restarts /\ op'.pc \in {"issue", "reply", "commit"} =>
       op.pc \in {"issue", "reply", "commit"}

\* The steps that leave job.yaml, the jobs, their output and the listings alone.
LEMMA CalmSteps ==
  ASSUME IInv,
         \/ Reconcile
         \/ \E k \in AnyKey : ReplaySubmit(k)
         \/ \E a \in Actions, k \in Keys : ReplayAction(a, k)
         \/ Upload \/ SubmitAcknowledged \/ SubmitClosed \/ Refused \/ Abort
         \/ ActionAcknowledged \/ CancelRefused \/ ActionUnanswered \/ ActionClosed
  PROVE  Calm
  <1>1. SameOperation
    BY OtherRequests, OtherProgress DEF Aside
  <1>2. UNCHANGED <<manifest, external, view, effects>>
    BY DEF Reconcile, ReplaySubmit, ReplayAction, Upload, SubmitAcknowledged, SubmitClosed,
           Refused, Abort, ActionAcknowledged, CancelRefused, ActionUnanswered, ActionClosed
  <1>3. ASSUME op'.pc \in {"issue", "reply", "commit"}, op'.kind \in Restarts
        PROVE  op.pc \in {"issue", "reply", "commit"}
    <2>0. op \in Operation /\ Idle.pc = "idle" /\ Idle.kind = "none"
      BY DEF IInv, TypeOK, Idle
    <2>1. CASE \/ Reconcile
               \/ \E k \in AnyKey : ReplaySubmit(k)
               \/ \E a \in Actions, k \in Keys : ReplayAction(a, k)
      BY <1>3, <2>1 DEF Reconcile, ReplaySubmit, ReplayAction, Idle
    <2>2. CASE Upload \/ SubmitAcknowledged \/ SubmitClosed
      BY <1>3, <2>0, <2>2 DEF Upload, SubmitAcknowledged, SubmitClosed, Operation, Restarts
    <2>3. CASE \/ Refused \/ Abort \/ ActionAcknowledged \/ CancelRefused
               \/ ActionUnanswered \/ ActionClosed
      BY <1>3, <2>0, <2>3 DEF Refused, Abort, ActionAcknowledged, CancelRefused,
             ActionUnanswered, ActionClosed, Operation
    <2> QED
      BY <2>1, <2>2, <2>3
  <1> QED
    BY <1>1, <1>2, <1>3 DEF Calm

\* Every step is of one of these kinds.
LEMMA DeedKinds ==
  ASSUME IInv, [Next]_vars
  PROVE  \/ \E k \in AnyKey : StartSubmit(k)
         \/ \E a \in Actions, k \in AnyKey, b \in BOOLEAN, pc \in {"prepare", "issue"} :
              Begins(a, k, b, pc)
         \/ SubmitExecuted \/ RestartExecuted \/ CancelExecuted
         \/ SubmitCommitted \/ CancelCommitted \/ RestartCommitted
         \/ \E j \in Ids : Adopt(j)
         \/ FetchResults \/ \E k \in AnyKey, b \in BOOLEAN : RefuseOverlap(k, b)
         \/ SubmitUnanswered \/ Archive
         \/ Scheduler
         \/ \E c \in Clients : Select(c) \/ Refresh(c) \/ SkipRefresh(c)
         \/ Calm
  <1>1. CASE Request
    <2>1. CASE \E k \in AnyKey : StartCancel(k)
      BY <2>1 DEF StartCancel, Begins, Actions, Restarts
    <2>2. CASE \E k \in AnyKey, b \in BOOLEAN : StartContinue(k, b) \/ StartTune(k, b)
      BY <2>2 DEF StartContinue, StartTune, Begins, Restartable, RoundsLeft, Actions, Restarts
    <2> QED
      BY <1>1, <2>1, <2>2, CalmSteps DEF Request
  <1>2. CASE Proceed
    BY <1>2, CalmSteps DEF Proceed
  <1>3. CASE UNCHANGED vars
    BY <1>3 DEF vars, Calm, SameOperation, external
  <1> QED
    BY <1>1, <1>2, <1>3 DEF Next

\* The scheduler's steps but for a launch of another program: no job is born, none rises
\* again, and a directory's output changes only by a job alive in it.
LEMMA SchedulerFacts ==
  ASSUME IInv, Scheduler
  PROVE  /\ UNCHANGED <<manifest, journals, op, view, effects>>
         /\ \/ \E f \in Foreign : /\ ~Born(f) /\ UNCHANGED out
                                  /\ sched' = [sched EXCEPT ![f] = "queued"]
                                  /\ where' = [where EXCEPT ![f] = Elsewhere]
            \/ /\ UNCHANGED where
               /\ \A j \in Ids : /\ sched'[j] = "registering" => sched[j] = "registering"
                                 /\ sched'[j] = "unborn" <=> sched[j] = "unborn"
               /\ Alive' \subseteq Alive
               /\ \A d \in Dirs : \/ out'[d] = out[d]
                                  \/ \E j \in Alive : where[j] = d /\ out'[d].job = j
  <1> USE DEF IInv
  <1>1. UNCHANGED <<manifest, journals, op, view, effects>>
    BY DEF Scheduler, Register, Start, Write, End, ForeignLaunch
  <1>2. CASE \E f \in Foreign : ForeignLaunch(f)
    BY <1>1, <1>2 DEF ForeignLaunch, Born
  <1>3. ASSUME NEW j \in Ids, Register(j) \/ Start(j) \/ Write(j) \/ End(j)
        PROVE  /\ UNCHANGED where
               /\ \A i \in Ids : /\ sched'[i] = "registering" => sched[i] = "registering"
                                 /\ sched'[i] = "unborn" <=> sched[i] = "unborn"
               /\ Alive' \subseteq Alive
    BY <1>3 DEF Register, Start, Write, End, Alive, TypeOK
  <1>4. ASSUME NEW j \in Ids, Register(j) \/ Start(j) \/ Write(j) \/ End(j), NEW d \in Dirs
        PROVE  \/ out'[d] = out[d]
               \/ \E i \in Alive : where[i] = d /\ out'[d].job = i
    BY <1>4 DEF Register, Start, Write, End, Alive, TypeOK
  <1> QED
    BY <1>1, <1>2, <1>3, <1>4 DEF Scheduler

\* What a poller's step does to listings and job.yaml.
LEMMA PollerFacts ==
  ASSUME IInv, NEW c \in Clients, Select(c) \/ Refresh(c) \/ SkipRefresh(c)
  PROVE  /\ UNCHANGED <<journals, op, external, effects>>
         /\ manifest'.attempts = manifest.attempts /\ manifest'.job = manifest.job
         /\ manifest'.dir = manifest.dir
         /\ manifest'.basis \in {manifest.basis, 0, out[manifest.dir].job}
         /\ manifest' # manifest => op = Idle /\ manifest.job # 0
         /\ manifest'.state \in Terminal =>
              \/ manifest.state \in Terminal
              \/ /\ view[c].pc = "loaded"
                 /\ manifest.job \notin view[c].queued \union view[c].running
         /\ \A d \in Clients : view'[d].pc = "loaded" =>
              \/ view'[d] = view[d]
              \/ /\ view'[d].queued = {j \in Ids : sched[j] = "queued"}
                 /\ view'[d].running = {j \in Ids : sched[j] = "running"}
  <1> USE DEF IInv
  <1>1. UNCHANGED <<journals, op, external, effects>>
    BY DEF Select, Refresh, Query, RefreshJob, SkipRefresh
  <1>2. CASE Select(c)
    BY <1>1, <1>2 DEF Select, TypeOK, View
  <1>3. CASE Query(c)
    BY <1>1, <1>3 DEF Query, TypeOK, View
  <1>4. CASE SkipRefresh(c)
    BY <1>1, <1>4 DEF SkipRefresh, TypeOK, View, NoView
  <1>5. CASE RefreshJob(c)
    <2>1. \A d \in Clients : view'[d].pc = "loaded" => view'[d] = view[d]
      BY <1>5 DEF RefreshJob, TypeOK, View, NoView
    <2>2. op = Idle /\ view[c].pc = "loaded" /\ manifest.job # 0
      BY <1>5 DEF RefreshJob, PlaceInv
    <2> QED
      BY <1>1, <1>5, <2>1, <2>2, RefreshWrites
  <1> QED
    BY <1>2, <1>3, <1>4, <1>5 DEF Refresh

\* What a launch does: the next job number is queued in its directory.
LEMMA LaunchFacts ==
  ASSUME Prompt, IInv, SubmitExecuted \/ RestartExecuted
  PROVE  \E j \in Ids \ Foreign, d \in Dirs :
           /\ ~Born(j) /\ \A i \in Ids \ Foreign : i < j => Born(i)
           /\ sched' = [sched EXCEPT ![j] = "queued"]
           /\ where' = [where EXCEPT ![j] = d]
           /\ d = IF op.kind = "submit" THEN Leaf ELSE manifest.dir
           /\ effects' = effects \union {Effected(j)}
           /\ op.pc = "issue" /\ op.kind \in Restarts \union {"submit"}
           /\ op'.pc = "reply" /\ op'.kind = op.kind /\ op'.txn = op.txn /\ op'.job = j
           /\ UNCHANGED <<manifest, journals, out, view>>
           /\ op.kind \in Restarts =>
                manifest.job # 0 /\ \A c \in Clients : view[c].pc # "loaded"
  <1> USE DEF IInv
  <1>1. PICK d \in Dirs : Launched(d) /\ d = IF op.kind = "submit" THEN Leaf ELSE manifest.dir
    BY DEF SubmitExecuted, RestartExecuted, Launched, PlaceInv, Dirs, Actions, Restarts,
           UnderWay, Pending
  <1>2. PICK j \in Launchable :
          /\ \A i \in Launchable : j <= i
          /\ sched' = [sched EXCEPT ![j] = "queued"]
          /\ where' = [where EXCEPT ![j] = d]
          /\ Executed(j)
          /\ op.pc = "issue" /\ op' = [op EXCEPT !.pc = "reply", !.job = j]
          /\ UNCHANGED <<manifest, journals, out, view>>
    BY <1>1 DEF Launched, Prompt
  <1>3. j \in Ids \ Foreign /\ ~Born(j) /\ \A i \in Ids \ Foreign : i < j => Born(i)
    <2>1. j \in Ids \ Foreign /\ ~Born(j)
      BY DEF Launchable, Born
    <2>2. \A i \in Ids \ Foreign : ~Born(i) => j <= i
      BY <1>2 DEF Launchable, Born
    <2> QED
      BY <2>1, <2>2 DEF Ids
  <1>4. op'.pc = "reply" /\ op'.kind = op.kind /\ op'.txn = op.txn /\ op'.job = j
    BY <1>2 DEF TypeOK, Operation
  <1>5. /\ op.kind \in Restarts \union {"submit"}
        /\ op.kind \in Restarts =>
             manifest.job # 0 /\ \A c \in Clients : view[c].pc # "loaded"
    BY <1>2 DEF SubmitExecuted, RestartExecuted, Prompt, PlaceInv, Actions, Restarts,
                UnderWay, Pending
  <1>6. effects' = effects \union {Effected(j)}
    BY <1>2 DEF Executed, Effected
  <1> QED
    BY <1>1, <1>2, <1>3, <1>4, <1>5, <1>6

\* What a cancellation does: the job that job.yaml names ends.
LEMMA CancelFacts ==
  ASSUME Prompt, IInv, CancelExecuted
  PROVE  /\ manifest.job \in Alive /\ manifest.job \in Ids
         /\ sched' = [sched EXCEPT ![manifest.job] = "ended"]
         /\ effects' = effects \union {Effected(manifest.job)}
         /\ op.pc = "issue" /\ op.kind = "cancel"
         /\ op'.pc = "reply" /\ op'.kind = op.kind /\ op'.txn = op.txn
         /\ op'.job = manifest.job
         /\ UNCHANGED <<manifest, journals, where, out, view>>
  BY DEF CancelExecuted, Alive, Executed, Effected, Prompt, IInv, TypeOK, Operation

-----------------------------------------------------------------------------
(* Where jobs come from.                                                     *)

\* What leaves the jobs, the commands and the place that job.yaml names alone.
LEMMA BirthQuiet ==
  ASSUME BirthInv, UNCHANGED <<sched, where, effects>>, manifest'.job = manifest.job,
         manifest.job # 0 => manifest'.dir = manifest.dir,
         op'.kind = "submit" /\ op'.pc \in Pending => manifest.job = 0
  PROVE  BirthInv'
  BY DEF BirthInv, Born, Submitted

\* A cancellation gives birth to no job.
LEMMA BirthCancelled ==
  ASSUME Prompt, IInv, BirthInv, CancelExecuted
  PROVE  BirthInv'
  <1>1. PICK f : f = Effected(manifest.job)
    OBVIOUS
  <1>2. /\ f.action = "cancel" /\ effects' = effects \union {f}
        /\ UNCHANGED <<manifest, where>> /\ op'.kind = "cancel"
        /\ sched' = [sched EXCEPT ![manifest.job] = "ended"] /\ Born(manifest.job)
    BY <1>1, CancelFacts DEF Effected, Alive, Born
  <1>3. \A i \in Ids : Born(i)' <=> Born(i)
    BY <1>2 DEF Born, IInv, TypeOK
  <1>4. \A i \in Ids : sched'[i] # "registering"
    BY <1>2 DEF BirthInv, IInv, TypeOK
  <1>5. Submitted' = Submitted /\ f.action \notin Restarts
    BY <1>2 DEF Submitted, Restarts
  <1>6. /\ \A e \in effects : e.job \in Ids
        /\ manifest.job \in Ids \union {0} /\ Foreign \subseteq Ids
    BY ForeignAssumption DEF IInv, TypeOK, Effect, Manifest, Ids
  <1> QED
    BY <1>2, <1>3, <1>4, <1>5, <1>6 DEF BirthInv

\* A job is launched where it belongs.
LEMMA BirthLaunched ==
  ASSUME Prompt, IInv, KeyInv, BirthInv, SubmitExecuted \/ RestartExecuted
  PROVE  BirthInv'
  <1>1. PICK j \in Ids \ Foreign, d \in Dirs :
          /\ ~Born(j)
          /\ sched' = [sched EXCEPT ![j] = "queued"]
          /\ where' = [where EXCEPT ![j] = d]
          /\ d = IF op.kind = "submit" THEN Leaf ELSE manifest.dir
          /\ effects' = effects \union {Effected(j)}
          /\ op.pc = "issue" /\ op.kind \in Restarts \union {"submit"}
          /\ op'.pc = "reply" /\ op'.kind = op.kind
          /\ UNCHANGED manifest
          /\ op.kind \in Restarts => manifest.job # 0
    BY LaunchFacts
  <1>2. PICK f : f = Effected(j)
    OBVIOUS
  <1>3. f.action = op.kind /\ f.job = j /\ effects' = effects \union {f}
    BY <1>1, <1>2 DEF Effected
  <1>4. \A i \in Ids \ {j} : (Born(i)' <=> Born(i)) /\ where'[i] = where[i]
    BY <1>1 DEF Born, IInv, TypeOK
  <1>5. Born(j)' /\ where'[j] = d /\ \A i \in Ids : sched'[i] # "registering"
    BY <1>1 DEF Born, IInv, TypeOK, BirthInv
  <1>6. /\ \A e \in effects : e.job \in Ids
        /\ manifest.job \in Ids \union {0} /\ Foreign \subseteq Ids
    BY ForeignAssumption DEF IInv, TypeOK, Effect, Manifest, Ids
  <1>7. manifest.job # j
    BY <1>1 DEF BirthInv, Ids
  <1>8. \A e \in effects : e.action # "cancel" => e.job # j
    BY <1>1 DEF BirthInv
  <1>9. CASE op.kind = "submit"
    <2>1. Submitted = {} /\ manifest.job = 0 /\ f.action \notin Restarts /\ d = Leaf
      BY <1>1, <1>3, <1>9 DEF KeyInv, Submitted, BirthInv, Pending, Restarts
    <2>2. Submitted' = {f}
      BY <1>3, <1>9, <2>1 DEF Submitted
    <2>3. \A e \in effects : e.action \notin Restarts
      BY <2>1 DEF BirthInv
    <2>4. Leaf # Elsewhere
      BY DEF Leaf, Elsewhere
    <2>5. \A i \in Ids \ Foreign : Born(i) => i = j
      BY <2>1 DEF BirthInv
    <2> QED
      BY <1>1, <1>3, <1>4, <1>5, <1>6, <1>7, <1>8, <2>1, <2>2, <2>3, <2>4, <2>5 DEF BirthInv
  <1>10. CASE op.kind \in Restarts
    <2>1. Submitted' = Submitted /\ d = manifest.dir /\ manifest.job # 0
          /\ op.kind # "submit" /\ op.kind # "cancel"
      BY <1>1, <1>3, <1>10 DEF Submitted, Restarts
    <2>2. Submitted \subseteq effects /\ \A e \in Submitted : e.action # "cancel"
      BY DEF Submitted
    <2>3. d = Elsewhere => \A g \in Foreign : Born(g)
      BY <1>6, <2>1 DEF BirthInv
    <2> QED
      BY <1>1, <1>3, <1>4, <1>5, <1>6, <1>7, <1>8, <2>1, <2>2, <2>3 DEF BirthInv
  <1> QED
    BY <1>1, <1>9, <1>10

\* The scheduler launches only what another program sent.
LEMMA BirthScheduled == ASSUME Prompt, IInv, BirthInv, Scheduler PROVE BirthInv'
  <1>0. UNCHANGED <<manifest, op, effects>>
    BY SchedulerFacts
  <1>1. /\ \A e \in effects : e.job \in Ids
        /\ manifest.job \in Ids \union {0} /\ Foreign \subseteq Ids
        /\ Submitted' = Submitted
    BY <1>0, ForeignAssumption DEF IInv, TypeOK, Effect, Manifest, Ids, Submitted
  <1>2. ASSUME NEW f \in Foreign, ~Born(f), sched' = [sched EXCEPT ![f] = "queued"],
               where' = [where EXCEPT ![f] = Elsewhere]
        PROVE  BirthInv'
    <2>1. \A i \in Ids \ {f} : (Born(i)' <=> Born(i)) /\ where'[i] = where[i]
      BY <1>2 DEF Born, IInv, TypeOK
    <2>2. Born(f)' /\ where'[f] = Elsewhere /\ \A i \in Ids : sched'[i] # "registering"
      BY <1>1, <1>2 DEF Born, IInv, TypeOK, BirthInv
    <2>3. \A g \in Foreign : g = f
      BY DEF Prompt
    <2>4. manifest.job # f
      BY <1>2, <1>1 DEF BirthInv, Ids
    <2>5. \A j \in Ids \ Foreign : j # f /\ j \in Ids
      BY <1>1
    <2>6. \A e \in effects : e.action # "cancel" =>
            Born(e.job)' /\ e.job \notin Foreign /\ where'[e.job] = where[e.job]
      BY <1>1, <2>1 DEF BirthInv
    <2>7. \A e \in effects : e.action \in Restarts => e.action # "cancel"
      BY DEF Restarts
    <2>8. manifest.job # 0 => Born(manifest.job)' /\ where'[manifest.job] = manifest.dir
      BY <1>0, <1>1, <2>1, <2>4 DEF BirthInv
    <2>9. \A j \in Ids \ Foreign : Born(j)' =>
            \/ where'[j] = Leaf /\ \E e \in Submitted : e.job = j
            \/ manifest.job # 0 /\ where'[j] = manifest.dir
      BY <2>1, <2>5 DEF BirthInv
    <2> QED
      BY <1>0, <1>1, <2>2, <2>3, <2>6, <2>7, <2>8, <2>9 DEF BirthInv
  <1>3. ASSUME UNCHANGED where,
               \A j \in Ids : /\ sched'[j] = "registering" => sched[j] = "registering"
                              /\ sched'[j] = "unborn" <=> sched[j] = "unborn"
        PROVE  BirthInv'
    BY <1>0, <1>1, <1>3 DEF BirthInv, Born
  <1> QED
    BY <1>2, <1>3, SchedulerFacts

\* The scheduler job that a commit names is the operation's own, and an answered command
\* has the one effect of its transaction.
LEMMA CommittedEffect ==
  ASSUME IInv, DoneInv, SubmitCommitted \/ CancelCommitted \/ RestartCommitted
  PROVE  \E e \in effects : e.txn = op.txn /\ e.action = op.kind /\ e.job = op.job
  <1>1. op.pc = "commit" /\ op.job # 0
    BY CommittedFacts DEF Ids
  <1> QED
    BY <1>1 DEF DoneInv, IInv, OpInv, UnderWay, Pending

\* What a commit says of the job, its place and its state.
LEMMA CommittedPlace ==
  ASSUME IInv, SubmitCommitted \/ CancelCommitted \/ RestartCommitted
  PROVE  /\ op.kind = "submit" =>
              /\ manifest'.job = op.job /\ manifest'.dir = Leaf
              /\ manifest'.state = "SUBMITTED" /\ manifest'.basis = manifest.basis
         /\ op.kind = "cancel" =>
              /\ manifest'.job = manifest.job /\ manifest'.dir = manifest.dir
              /\ manifest'.basis = manifest.basis
         /\ op.kind \in Restarts =>
              /\ manifest'.job = op.job /\ manifest'.dir = manifest.dir
              /\ manifest'.state = "SUBMITTED" /\ manifest'.basis = 0
  <1>0. manifest \in Manifest
    BY DEF IInv, TypeOK
  <1>1. CASE SubmitCommitted
    BY <1>0, <1>1 DEF SubmitCommitted, Manifest, Restarts
  <1>2. CASE CancelCommitted
    BY <1>0, <1>2 DEF CancelCommitted, Manifest, Restarts
  <1>3. CASE RestartCommitted
    <2>1. /\ Renewed(manifest).dir = manifest.dir /\ Renewed(manifest).basis = 0
          /\ DOMAIN Renewed(manifest) = DOMAIN manifest
      BY <1>0 DEF Renewed, Manifest
    <2>2. \A d \in {"job", "state", "dir", "basis"} : d \in DOMAIN manifest
      BY <1>0 DEF Manifest
    <2> QED
      BY <1>3, <2>1, <2>2 DEF RestartCommitted, Restarts
  <1> QED
    BY <1>1, <1>2, <1>3

\* job.yaml names a job that was born where it says.
LEMMA BirthCommitted ==
  ASSUME Prompt, IInv, DoneInv, BirthInv,
         SubmitCommitted \/ CancelCommitted \/ RestartCommitted
  PROVE  BirthInv'
  <1>1. /\ UNCHANGED <<sched, where, effects>> /\ op.pc = "commit" /\ op'.pc = "close"
        /\ op.kind \in Actions \union {"submit"} /\ op.job \in Ids
    BY CommittedFacts DEF external
  <1>2. PICK e \in effects : e.txn = op.txn /\ e.action = op.kind /\ e.job = op.job
    BY CommittedEffect
  <1>3. CASE op.kind = "cancel"
    BY <1>1, <1>3, CommittedPlace, BirthQuiet DEF Pending
  <1>4. CASE op.kind = "submit"
    <2>1. manifest.job = 0
      BY <1>1, <1>4 DEF BirthInv, Pending
    <2>2. Born(op.job) /\ where[op.job] = Leaf
      BY <1>1, <1>2, <1>4, <2>1 DEF BirthInv
    <2>3. manifest'.job = op.job /\ manifest'.dir = Leaf /\ op.job # 0
      BY <1>1, <1>4, CommittedPlace DEF Ids
    <2>4. Submitted' = Submitted /\ \A j : Born(j)' <=> Born(j)
      BY <1>1 DEF Submitted, Born
    <2> QED
      BY <1>1, <2>1, <2>2, <2>3, <2>4 DEF BirthInv, Pending
  <1>5. CASE op.kind \in Restarts
    <2>1. manifest.job # 0 /\ Born(op.job) /\ where[op.job] = manifest.dir
      BY <1>2, <1>5 DEF BirthInv, Restarts
    <2>2. manifest'.job = op.job /\ manifest'.dir = manifest.dir /\ op.job # 0
      BY <1>1, <1>5, CommittedPlace DEF Ids
    <2>3. Submitted' = Submitted /\ \A j : Born(j)' <=> Born(j)
      BY <1>1 DEF Submitted, Born
    <2> QED
      BY <1>1, <2>1, <2>2, <2>3 DEF BirthInv, Pending
  <1> QED
    BY <1>1, <1>3, <1>4, <1>5 DEF Actions

\* What an adoption writes.
LEMMA AdoptFacts ==
  ASSUME IInv, NEW j \in Ids, Adopt(j)
  PROVE  /\ op = Idle /\ manifest.job = 0 /\ Born(j)
         /\ manifest'.job = j /\ manifest'.dir = where[j] /\ where[j] \in Dirs
         /\ manifest'.state = "SUBMITTED" /\ manifest'.basis = manifest.basis
         /\ manifest'.attempts = manifest.attempts \union
              {[action |-> "adopt", job |-> j, txn |-> 0, key |-> NoKey]}
         /\ UNCHANGED <<journals, op, external, view, effects>>
  BY DEF Adopt, IInv, TypeOK, Manifest, PlaceInv, Born

\* An adopted job is where it was found.
LEMMA BirthAdopted ==
  ASSUME IInv, BirthInv, NEW j \in Ids, Adopt(j)
  PROVE  BirthInv'
  <1>1. /\ op' = Idle /\ manifest.job = 0 /\ Born(j) /\ j # 0
        /\ manifest'.job = j /\ manifest'.dir = where[j]
        /\ UNCHANGED <<sched, where, effects>>
    BY AdoptFacts DEF external, Ids
  <1>2. Submitted' = Submitted /\ \A i : Born(i)' <=> Born(i)
    BY <1>1 DEF Submitted, Born
  <1>3. op'.pc \notin Pending
    BY <1>1 DEF Idle, Pending
  <1> QED
    BY <1>1, <1>2, <1>3 DEF BirthInv

\* Every step keeps the jobs where they belong.
LEMMA BirthStep ==
  ASSUME Prompt, IInv, KeyInv, DoneInv, BirthInv, [Next]_vars
  PROVE  BirthInv'
  <1>1. ASSUME NEW k \in AnyKey, StartSubmit(k) PROVE BirthInv'
    BY <1>1, StartSubmitFacts, BirthQuiet DEF external
  <1>2. ASSUME NEW a \in Actions, NEW k \in AnyKey, NEW b \in BOOLEAN,
               NEW pc \in {"prepare", "issue"}, Begins(a, k, b, pc)
        PROVE  BirthInv'
    BY <1>2, BeginsFacts, BirthQuiet DEF external, Actions, Restarts
  <1>3. CASE FetchResults \/ \E k \in AnyKey, b \in BOOLEAN : RefuseOverlap(k, b)
    <2>1. /\ UNCHANGED <<sched, where, effects, op>>
          /\ manifest'.job = manifest.job /\ manifest'.dir = manifest.dir
      BY <1>3 DEF FetchResults, RefuseOverlap, external, IInv, TypeOK, Manifest
    <2> QED
      BY <2>1, BirthQuiet DEF BirthInv
  <1>4. CASE SubmitUnanswered
    <2>1. UNCHANGED <<sched, where, effects>> /\ op' = Idle /\ manifest'.job = manifest.job
      BY <1>4 DEF SubmitUnanswered, external, IInv, TypeOK, Manifest
    <2>2. manifest.job = 0
      BY <1>4 DEF SubmitUnanswered, BirthInv, Pending
    <2> QED
      BY <2>1, <2>2, BirthQuiet DEF Idle
  <1>5. CASE Archive
    <2>1. UNCHANGED <<sched, where, effects, manifest>> /\ op'.kind = op.kind /\ op.kind # "submit"
      BY <1>5 DEF Archive, IInv, TypeOK, Operation, Restarts
    <2> QED
      BY <2>1, BirthQuiet
  <1>6. ASSUME NEW c \in Clients, Select(c) \/ Refresh(c) \/ SkipRefresh(c)
        PROVE  BirthInv'
    BY <1>6, PollerFacts, BirthQuiet DEF external, BirthInv
  <1>7. CASE Calm
    <2>1. UNCHANGED <<sched, where, effects, manifest>> /\ SameOperation
      BY <1>7 DEF Calm, external
    <2> QED
      BY <2>1, BirthQuiet DEF BirthInv, SameOperation, UnderWay
  <1> QED
    BY <1>1, <1>2, <1>3, <1>4, <1>5, <1>6, <1>7, DeedKinds, BirthScheduled, BirthCancelled,
       BirthLaunched, BirthCommitted, BirthAdopted

\* In the environment of Prompt the jobs are where they belong in every reachable state.
LEMMA BirthInvariance == ASSUME Prompt PROVE Spec => []BirthInv
  <1>1. Init => BirthInv
    BY ForeignAssumption DEF Init, BirthInv, Born, Submitted, Idle, Pending, Ids
  <1>2. IInv /\ KeyInv /\ DoneInv /\ BirthInv /\ [Next]_vars => BirthInv'
    BY BirthStep
  <1> QED
    BY <1>1, <1>2, Invariance, KeyInvariance, DoneInvariance, PTL DEF Spec

-----------------------------------------------------------------------------
(* One live job.                                                             *)

\* A restart that job.yaml does not carry bars every other command, so there is one.
LEMMA UnrecordedIsGated ==
  ASSUME IInv, NEW e \in effects, Unrecorded(e)
  PROVE  \E r \in Gate : r.txn = e.txn /\ r.action = e.action
  BY DEF IInv, NoOrphan, Accounted, Taken, Launches, Unrecorded, Restarts

\* Two of them are the same.
LEMMA OneUnrecorded ==
  ASSUME IInv, KeyInv, DoneInv, NEW e \in effects, NEW f \in effects,
         Unrecorded(e), Unrecorded(f)
  PROVE  e = f
  BY UnrecordedIsGated DEF DoneInv, KeyInv

\* While an action is under way it is that of the action.
LEMMA UnrecordedIsUnderWay ==
  ASSUME IInv, DoneInv, op.kind \in Actions, op.pc \in UnderWay,
         NEW e \in effects, Unrecorded(e)
  PROVE  e.txn = op.txn /\ e.action = op.kind /\ e.job = op.job
  <1>1. e.txn = op.txn
    BY UnrecordedIsGated DEF DoneInv
  <1> QED
    BY <1>1 DEF IInv, OpInv

\* Two jobs of ours in one directory that are not where job.yaml names a job, or before
\* it names one, are the one submission.
LEMMA SubmittedAreOne ==
  ASSUME Prompt, BirthInv, NEW i \in Ids, NEW j \in Ids, Born(i), Born(j),
         where[i] = where[j],
         manifest.job = 0 \/ where[i] # manifest.dir
  PROVE  i = j
  <1>1. Leaf # Elsewhere
    BY DEF Leaf, Elsewhere
  <1>2. CASE i \in Foreign \/ j \in Foreign
    <2>1. where[i] = Elsewhere
      BY <1>2 DEF BirthInv
    <2>2. i \in Foreign /\ j \in Foreign
      BY <1>1, <2>1 DEF BirthInv
    <2> QED
      BY <2>2 DEF Prompt
  <1>3. CASE i \notin Foreign /\ j \notin Foreign
    <2>1. /\ \E e \in Submitted : e.job = i
          /\ \E e \in Submitted : e.job = j
      BY <1>3 DEF BirthInv
    <2> QED
      BY <2>1 DEF BirthInv
  <1> QED
    BY <1>2, <1>3

\* The invariants leave room for one live job a directory.
LEMMA LiveIsOne ==
  ASSUME Prompt, IInv, KeyInv, DoneInv, BirthInv, LiveInv
  PROVE  AtMostOneLive
  <1> SUFFICES ASSUME NEW i \in Alive, NEW j \in Alive, where[i] = where[j], i # j
               PROVE  FALSE
    BY DEF AtMostOneLive
  <1>1. i \in Ids /\ j \in Ids /\ Born(i) /\ Born(j)
    BY DEF Alive, Born
  <1>2. manifest.job # 0 /\ where[i] = manifest.dir
    BY <1>1, SubmittedAreOne
  <1>3. i # manifest.job /\ j # manifest.job
    BY <1>2 DEF LiveInv
  <1>4. PICK e \in effects : e.job = i /\ Unrecorded(e)
    BY <1>2, <1>3 DEF LiveInv
  <1>5. PICK f \in effects : f.job = j /\ Unrecorded(f)
    BY <1>2, <1>3 DEF LiveInv
  <1> QED
    BY <1>4, <1>5, OneUnrecorded

\* What gives birth to no job, changes neither place nor attempts, and makes no state
\* terminal but that of a job at its end.
LEMMA LiveQuiet ==
  ASSUME IInv, LiveInv, UNCHANGED <<where, effects>>, Alive' \subseteq Alive,
         manifest'.job = manifest.job, manifest'.attempts = manifest.attempts,
         manifest.job # 0 => manifest'.dir = manifest.dir,
         manifest'.state \in Terminal =>
           manifest.state \in Terminal \/ manifest.job \notin Alive,
         op'.kind \in Restarts /\ op'.pc \in Pending => manifest'.state \in Terminal,
         op'.kind = "cancel" /\ op'.pc \in {"reply", "commit"} /\ op'.job # 0 =>
           op'.job = manifest.job /\ op'.job \notin Alive,
         \A c \in Clients : view'[c].pc = "loaded" =>
           \/ view'[c] = view[c]
           \/ Alive \subseteq view'[c].queued \union view'[c].running
  PROVE  LiveInv'
  <1>1. \A e : Unrecorded(e)' <=> Unrecorded(e)
    BY DEF Unrecorded
  <1>2. manifest'.state \in Terminal => manifest'.job \notin Alive'
    BY DEF LiveInv
  <1>3. manifest'.job # 0 => \A j \in Alive' \ {manifest'.job} : where'[j] = manifest'.dir =>
          manifest'.job \notin Alive' /\ \E e \in effects' : e.job = j /\ Unrecorded(e)'
    BY <1>1 DEF LiveInv
  <1>4. \A c \in Clients : view'[c].pc = "loaded" =>
          \A j \in Alive' : j \notin Foreign \/ j = manifest'.job =>
            j \in view'[c].queued \union view'[c].running
    BY DEF LiveInv
  <1> QED
    BY <1>2, <1>3, <1>4 DEF LiveInv

\* A launch: of the submission there is no listing yet, and a restart waits for the end of
\* the job it continues and for the listings in hand.
LEMMA LiveLaunched ==
  ASSUME Prompt, IInv, DoneInv, BirthInv, LiveInv, SubmitExecuted \/ RestartExecuted
  PROVE  LiveInv'
  <1>1. PICK j \in Ids \ Foreign, d \in Dirs :
          /\ ~Born(j)
          /\ sched' = [sched EXCEPT ![j] = "queued"]
          /\ where' = [where EXCEPT ![j] = d]
          /\ d = IF op.kind = "submit" THEN Leaf ELSE manifest.dir
          /\ effects' = effects \union {Effected(j)}
          /\ op.pc = "issue" /\ op.kind \in Restarts \union {"submit"}
          /\ op'.pc = "reply" /\ op'.kind = op.kind
          /\ UNCHANGED <<manifest, view>>
          /\ op.kind \in Restarts =>
               manifest.job # 0 /\ \A c \in Clients : view[c].pc # "loaded"
    BY LaunchFacts
  <1>2. PICK f : f = Effected(j)
    OBVIOUS
  <1>3. f.txn = op.txn /\ f.action = op.kind /\ f.job = j /\ effects' = effects \union {f}
    BY <1>1, <1>2 DEF Effected
  <1>4. Alive' = Alive \union {j} /\ j \notin Alive
    BY <1>1 DEF Alive, Born, IInv, TypeOK
  <1>5. \A i \in Ids \ {j} : where'[i] = where[i]
    BY <1>1 DEF IInv, TypeOK
  <1>6. manifest.job # j /\ Alive \subseteq Ids
    BY <1>1 DEF BirthInv, Ids, Alive
  <1>7. \A e : Unrecorded(e)' <=> Unrecorded(e)
    BY <1>1 DEF Unrecorded
  <1>8. CASE op.kind = "submit"
    <2>1. manifest.job = 0
      BY <1>1, <1>8 DEF BirthInv, Pending
    <2>2. \A c \in Clients : view[c].pc # "loaded"
      BY <2>1 DEF IInv, PlaceInv
    <2>3. 0 \notin Alive'
      BY <1>4, <1>6 DEF Ids
    <2> QED
      BY <1>1, <1>8, <2>1, <2>2, <2>3 DEF LiveInv, Restarts
  <1>9. CASE op.kind \in Restarts
    <2>1. manifest.state \in Terminal /\ manifest.job \notin Alive
      BY <1>1, <1>9 DEF LiveInv, Pending
    <2>2. Unrecorded(f)
      BY <1>1, <1>3, <1>9 DEF Unrecorded, IInv, OpInv, UnderWay, Pending
    <2>3. \A i \in Alive \ {manifest.job} : where[i] = manifest.dir =>
            \E e \in effects : e.job = i /\ Unrecorded(e)
      BY <1>1, <1>9 DEF LiveInv
    <2>4. \A i \in Alive' \ {manifest.job} : where'[i] = manifest.dir =>
            \E e \in effects' : e.job = i /\ Unrecorded(e)
      BY <1>3, <1>4, <1>5, <1>6, <2>2, <2>3
    <2>5. op.kind # "cancel"
      BY <1>9 DEF Restarts
    <2> QED
      BY <1>1, <1>4, <1>6, <1>7, <1>9, <2>1, <2>4, <2>5 DEF LiveInv
  <1> QED
    BY <1>1, <1>8, <1>9

\* A launch of another program.
LEMMA LiveForeign ==
  ASSUME Prompt, IInv, BirthInv, LiveInv, NEW f \in Foreign, ~Born(f),
         sched' = [sched EXCEPT ![f] = "queued"],
         where' = [where EXCEPT ![f] = Elsewhere],
         UNCHANGED <<manifest, op, view, effects>>
  PROVE  LiveInv'
  <1>0. f \in Ids /\ f # manifest.job
    BY ForeignAssumption DEF Ids, BirthInv
  <1>1. Alive' = Alive \union {f} /\ f \notin Alive
    BY <1>0 DEF Alive, Born, IInv, TypeOK
  <1>2. \A i \in Ids \ {f} : where'[i] = where[i]
    BY DEF IInv, TypeOK
  <1>3. \A e : Unrecorded(e)' <=> Unrecorded(e)
    BY DEF Unrecorded
  <1>4. manifest.job # 0 => manifest.dir # Elsewhere
    <2>1. manifest.job \in Ids \union {0}
      BY DEF IInv, TypeOK, Manifest
    <2> QED
      BY <2>1 DEF BirthInv
  <1>5. where'[f] = Elsewhere
    BY <1>0 DEF IInv, TypeOK
  <1>6. op.job # f \/ op.job # manifest.job
    BY <1>0
  <1>7. manifest.job # 0 => \A j \in Alive' \ {manifest.job} : where'[j] = manifest.dir =>
          manifest.job \notin Alive' /\ \E e \in effects : e.job = j /\ Unrecorded(e)
    BY <1>0, <1>1, <1>2, <1>4, <1>5 DEF LiveInv, Alive
  <1> QED
    BY <1>0, <1>1, <1>3, <1>6, <1>7 DEF LiveInv

\* A cancellation ends the job that job.yaml names.
LEMMA LiveCancelled ==
  ASSUME Prompt, IInv, BirthInv, LiveInv, CancelExecuted
  PROVE  LiveInv'
  <1>1. PICK f : f = Effected(manifest.job)
    OBVIOUS
  <1>2. /\ f.action = "cancel" /\ effects' = effects \union {f}
        /\ UNCHANGED <<manifest, where, view>>
        /\ op'.kind = "cancel" /\ op'.job = manifest.job
        /\ sched' = [sched EXCEPT ![manifest.job] = "ended"] /\ manifest.job \in Ids
    BY <1>1, CancelFacts DEF Effected
  <1>3. Alive' = Alive \ {manifest.job}
    BY <1>2 DEF Alive, IInv, TypeOK
  <1>4. \A e : Unrecorded(e)' <=> Unrecorded(e)
    BY <1>2 DEF Unrecorded
  <1>5. \A j \in Alive' \ {manifest.job} : where[j] = manifest.dir =>
          \E e \in effects : e.job = j /\ Unrecorded(e)
    BY <1>2, <1>3 DEF LiveInv, Ids
  <1> QED
    BY <1>2, <1>3, <1>4, <1>5 DEF LiveInv, Restarts

\* A commit: job.yaml names the only job that may be alive in its directory.
LEMMA LiveCommitted ==
  ASSUME Prompt, IInv, KeyInv, DoneInv, BirthInv, LiveInv,
         SubmitCommitted \/ CancelCommitted \/ RestartCommitted
  PROVE  LiveInv'
  <1>1. /\ UNCHANGED <<sched, where, effects, view>> /\ op.pc = "commit" /\ op'.pc = "close"
        /\ op.kind \in Actions \union {"submit"} /\ op.job \in Ids
        /\ manifest'.attempts = manifest.attempts \union {Attempted}
    BY CommittedFacts DEF external
  <1>2. PICK e \in effects : e.txn = op.txn /\ e.action = op.kind /\ e.job = op.job
    BY CommittedEffect
  <1>3. Alive' = Alive /\ Alive \subseteq Ids
    BY <1>1 DEF Alive
  <1>4. op'.pc \notin Pending
    BY <1>1 DEF Pending
  <1>5. "SUBMITTED" \notin Terminal
    BY DEF Terminal
  <1>6. CASE op.kind = "submit"
    <2>1. manifest.job = 0
      BY <1>1, <1>6 DEF BirthInv, Pending
    <2>2. manifest'.job = op.job /\ manifest'.dir = Leaf /\ manifest'.state = "SUBMITTED"
      BY <1>6, CommittedPlace
    <2>3. op.job \notin Foreign /\ Born(op.job) /\ where[op.job] = Leaf
      BY <1>1, <1>2, <1>6, <2>1 DEF BirthInv
    <2>4. \A j \in Alive : where[j] = Leaf => j = op.job
      BY <1>1, <1>3, <2>1, <2>3, SubmittedAreOne DEF Alive, Born
    <2> QED
      BY <1>1, <1>3, <1>4, <1>5, <2>2, <2>3, <2>4 DEF LiveInv
  <1>7. CASE op.kind = "cancel"
    <2>1. manifest'.job = manifest.job /\ manifest'.dir = manifest.dir
          /\ manifest.job \notin Alive
      BY <1>1, <1>7, CommittedPlace DEF LiveInv, Ids
    <2>2. \A g \in effects : Unrecorded(g) => g.txn # op.txn
      BY <1>1, <1>7 DEF IInv, OpInv, UnderWay, Pending, Unrecorded, Restarts
    <2>3. Attempted.txn = op.txn
      BY DEF Attempted
    <2>4. \A g \in effects : Unrecorded(g) => Unrecorded(g)'
      BY <1>1, <2>2, <2>3 DEF Unrecorded
    <2>5. op'.kind = "cancel"
      BY <1>7, CommittedFacts
    <2> QED
      BY <1>1, <1>3, <1>4, <2>1, <2>4, <2>5 DEF LiveInv
  <1>8. CASE op.kind \in Restarts
    <2>1. manifest'.job = op.job /\ manifest'.dir = manifest.dir
          /\ manifest'.state = "SUBMITTED"
      BY <1>8, CommittedPlace
    <2>2. op.job \notin Foreign
      BY <1>2, <1>8 DEF BirthInv, Restarts
    <2>3. manifest.job # 0 /\ manifest.job \notin Alive
      BY <1>1, <1>2, <1>8 DEF LiveInv, BirthInv, Pending
    <2>4. \A j \in Alive : where[j] = manifest.dir => j = op.job
      <3> SUFFICES ASSUME NEW j \in Alive, where[j] = manifest.dir PROVE j = op.job
        OBVIOUS
      <3>1. PICK g \in effects : g.job = j /\ Unrecorded(g)
        BY <2>3 DEF LiveInv
      <3> QED
        BY <1>1, <1>8, <3>1, UnrecordedIsUnderWay DEF Actions, UnderWay, Pending
    <2> QED
      BY <1>1, <1>3, <1>4, <1>5, <2>1, <2>2, <2>4 DEF LiveInv
  <1> QED
    BY <1>1, <1>6, <1>7, <1>8 DEF Actions

\* An adopted job is alone in its directory: we have restarted nothing there.
LEMMA LiveAdopted ==
  ASSUME Prompt, IInv, BirthInv, LiveInv, NEW j \in Ids, Adopt(j)
  PROVE  LiveInv'
  <1>1. /\ op' = Idle /\ manifest.job = 0 /\ Born(j)
        /\ manifest'.job = j /\ manifest'.dir = where[j] /\ manifest'.state = "SUBMITTED"
        /\ UNCHANGED <<sched, where, effects, view>>
    BY AdoptFacts DEF external
  <1>2. Alive' = Alive /\ Alive \subseteq Ids
    BY <1>1 DEF Alive
  <1>3. Idle.pc = "idle" /\ "SUBMITTED" \notin Terminal
    BY DEF Idle, Terminal
  <1>4. \A c \in Clients : view[c].pc # "loaded"
    BY <1>1 DEF IInv, PlaceInv
  <1>5. \A i \in Alive : where[i] = where[j] => i = j
    BY <1>1, <1>2, SubmittedAreOne DEF Alive, Born
  <1> QED
    BY <1>1, <1>2, <1>3, <1>4, <1>5 DEF LiveInv, Pending

\* A listing taken is complete, and a verdict written on one finds the job at its end.
LEMMA LivePolled ==
  ASSUME IInv, BirthInv, LiveInv, NEW c \in Clients, Select(c) \/ Refresh(c) \/ SkipRefresh(c)
  PROVE  LiveInv'
  <1>1. /\ UNCHANGED <<op, sched, where, effects>>
        /\ manifest'.attempts = manifest.attempts /\ manifest'.job = manifest.job
        /\ manifest'.dir = manifest.dir
        /\ manifest' # manifest => op = Idle
        /\ manifest'.state \in Terminal =>
             \/ manifest.state \in Terminal
             \/ /\ view[c].pc = "loaded"
                /\ manifest.job \notin view[c].queued \union view[c].running
        /\ \A d \in Clients : view'[d].pc = "loaded" =>
             \/ view'[d] = view[d]
             \/ /\ view'[d].queued = {j \in Ids : sched[j] = "queued"}
                /\ view'[d].running = {j \in Ids : sched[j] = "running"}
    BY PollerFacts DEF external
  <1>2. Alive = {j \in Ids : sched[j] = "queued"} \union {j \in Ids : sched[j] = "running"}
    BY DEF Alive, BirthInv
  <1>3. Alive' = Alive
    BY <1>1 DEF Alive
  <1>4. manifest'.state \in Terminal => manifest.state \in Terminal \/ manifest.job \notin Alive
    BY <1>1 DEF LiveInv
  <1>5. op'.kind \in Restarts /\ op'.pc \in Pending => manifest'.state \in Terminal
    BY <1>1 DEF LiveInv, Idle, Pending
  <1>6. op'.kind = "cancel" /\ op'.pc \in {"reply", "commit"} /\ op'.job # 0 =>
          op'.job = manifest.job /\ op'.job \notin Alive
    BY <1>1 DEF LiveInv
  <1> QED
    BY <1>1, <1>2, <1>3, <1>4, <1>5, <1>6, LiveQuiet

\* The scheduler's own steps.
LEMMA LiveScheduled == ASSUME Prompt, IInv, BirthInv, LiveInv, Scheduler PROVE LiveInv'
  <1>1. UNCHANGED <<manifest, op, view, effects>>
    BY SchedulerFacts
  <1>2. CASE UNCHANGED where /\ Alive' \subseteq Alive
    BY <1>1, <1>2, LiveQuiet DEF LiveInv
  <1> QED
    BY <1>1, <1>2, SchedulerFacts, LiveForeign

\* Every step keeps one job alive in the directory of job.yaml.
LEMMA LiveStep ==
  ASSUME Prompt, IInv, KeyInv, DoneInv, BirthInv, LiveInv, [Next]_vars
  PROVE  LiveInv'
  <1>1. UNCHANGED <<sched, where, out>> => Alive' = Alive
    BY DEF Alive
  <1>2. ASSUME NEW k \in AnyKey, StartSubmit(k) PROVE LiveInv'
    BY <1>1, <1>2, StartSubmitFacts, LiveQuiet DEF external, Restarts
  <1>3. ASSUME NEW a \in Actions, NEW k \in AnyKey, NEW b \in BOOLEAN,
               NEW pc \in {"prepare", "issue"}, Begins(a, k, b, pc)
        PROVE  LiveInv'
    <2>1. a \in Restarts => manifest.state \in Terminal
      BY <1>3 DEF Begins
    <2> QED
      BY <1>1, <1>3, <2>1, BeginsFacts, LiveQuiet DEF external
  <1>4. CASE FetchResults \/ \E k \in AnyKey, b \in BOOLEAN : RefuseOverlap(k, b)
    <2>1. /\ UNCHANGED <<external, effects, op, view>> /\ op = Idle
          /\ manifest'.job = manifest.job /\ manifest'.dir = manifest.dir
          /\ manifest'.attempts = manifest.attempts /\ manifest.state \in Terminal
      BY <1>4 DEF FetchResults, RefuseOverlap, Restartable, IInv, TypeOK, Manifest, Terminal
    <2>2. op'.pc \notin Pending /\ op'.pc \notin {"reply", "commit"}
      BY <2>1 DEF Idle, Pending
    <2> QED
      BY <1>1, <2>1, <2>2, LiveQuiet DEF external
  <1>5. CASE SubmitUnanswered
    <2>1. /\ UNCHANGED <<external, effects, view>> /\ op' = Idle
          /\ manifest'.job = manifest.job /\ manifest'.attempts = manifest.attempts
          /\ manifest'.state \in Terminal => manifest.state \in Terminal
      <3>1. /\ UNCHANGED <<external, effects, view>> /\ op' = Idle
            /\ manifest' \in {manifest, [manifest EXCEPT !.state = "UPLOADED", !.dir = Leaf]}
        BY <1>5 DEF SubmitUnanswered
      <3>2. manifest \in Manifest /\ "UPLOADED" \notin Terminal
        BY DEF IInv, TypeOK, Terminal
      <3> QED
        BY <3>1, <3>2 DEF Manifest
    <2>2. manifest.job = 0
      BY <1>5 DEF SubmitUnanswered, BirthInv, Pending
    <2>3. op'.pc \notin Pending /\ op'.pc \notin {"reply", "commit"}
      BY <2>1 DEF Idle, Pending
    <2> QED
      BY <1>1, <2>1, <2>2, <2>3, LiveQuiet DEF external
  <1>6. CASE Archive
    <2>1. /\ UNCHANGED <<sched, where, effects, manifest, view>>
          /\ op'.kind = op.kind /\ op.kind \in Restarts /\ op.pc \in Pending
          /\ Alive' = Alive
      BY <1>6 DEF Archive, IInv, TypeOK, Operation, Pending, Alive
    <2>2. manifest.state \in Terminal /\ op.kind # "cancel"
      BY <2>1 DEF LiveInv, Restarts
    <2> QED
      BY <2>1, <2>2, LiveQuiet
  <1>7. CASE Calm
    <2>1. UNCHANGED <<external, effects, manifest, view>> /\ SameOperation
      BY <1>7 DEF Calm
    <2>2. op'.kind \in Restarts /\ op'.pc \in Pending => manifest'.state \in Terminal
      BY <2>1 DEF LiveInv, SameOperation, UnderWay
    <2>3. op'.kind = "cancel" /\ op'.pc \in {"reply", "commit"} /\ op'.job # 0 =>
            op'.job = manifest.job /\ op'.job \notin Alive
      <3> SUFFICES ASSUME op'.kind = "cancel", op'.pc \in {"reply", "commit"}, op'.job # 0
                   PROVE  op'.job = manifest.job /\ op'.job \notin Alive
        OBVIOUS
      <3>1. op.kind = "cancel" /\ op.job = op'.job /\ op.pc \in Pending
        BY <2>1 DEF SameOperation, UnderWay, Pending
      <3>2. op.pc \notin {"prepare", "issue"}
        BY <3>1 DEF IInv, OpInv, UnderWay
      <3> QED
        BY <3>1, <3>2 DEF LiveInv, Pending
    <2> QED
      BY <1>1, <2>1, <2>2, <2>3, LiveQuiet DEF external
  <1> QED
    BY <1>2, <1>3, <1>4, <1>5, <1>6, <1>7, DeedKinds, LiveScheduled, LiveCancelled,
       LiveLaunched, LiveCommitted, LiveAdopted, LivePolled

\* One live job a directory, in every reachable state.
LEMMA LiveInvariance == ASSUME Prompt PROVE Spec => []LiveInv
  <1>1. Init => LiveInv
    BY DEF Init, LiveInv, Alive, Idle, Pending, NoView, Terminal
  <1>2. IInv /\ KeyInv /\ DoneInv /\ BirthInv /\ LiveInv /\ [Next]_vars => LiveInv'
    BY LiveStep
  <1> QED
    BY <1>1, <1>2, Invariance, KeyInvariance, DoneInvariance, BirthInvariance, PTL DEF Spec

\* Two VASP runs never share a directory, if the scheduler lists a job once it has accepted
\* it, ends one at once when told to, and no listing is held across a restart.
THEOREM OneLiveJob == ASSUME Prompt PROVE Spec => []AtMostOneLive
  <1>1. IInv /\ KeyInv /\ DoneInv /\ BirthInv /\ LiveInv => AtMostOneLive
    BY LiveIsOne
  <1> QED
    BY <1>1, Invariance, KeyInvariance, DoneInvariance, BirthInvariance, LiveInvariance, PTL

-----------------------------------------------------------------------------
(* No stale verdict.                                                         *)

\* In a directory where job.yaml names an ended job, or a job that is alive, whatever is
\* alive is that job or a later one.
LEMMA AliveIsLater ==
  ASSUME IInv, BirthInv, LiveInv, OutputInv, manifest.job # 0,
         NEW j \in Alive, where[j] = manifest.dir
  PROVE  j >= manifest.job
  <1>1. j \in Ids /\ manifest.job \in Ids
    BY DEF Alive, IInv, TypeOK, Manifest
  <1>2. CASE j = manifest.job
    BY <1>1, <1>2 DEF Ids
  <1>3. CASE j # manifest.job
    <2>1. PICK e \in effects : e.job = j /\ Unrecorded(e)
      BY <1>3 DEF LiveInv
    <2>2. j > manifest.job
      BY <2>1 DEF OutputInv
    <2> QED
      BY <1>1, <2>2 DEF Ids
  <1> QED
    BY <1>2, <1>3

\* What leaves jobs, commands and output alone and writes no verdict.
LEMMA OutputQuiet ==
  ASSUME OutputInv, UNCHANGED <<sched, where, out, effects>>,
         manifest'.job = manifest.job, manifest'.attempts = manifest.attempts,
         manifest.job # 0 => manifest'.dir = manifest.dir,
         manifest'.basis = manifest.basis,
         op'.kind \in Restarts /\ op'.pc \in {"issue", "reply", "commit"} =>
           manifest'.dir = manifest.dir /\ out[manifest.dir].job \in {0, op'.job}
  PROVE  OutputInv'
  BY DEF OutputInv, NoStaleVerdict, Born, Unrecorded

\* The output of a directory changes by the job alive in it, which is not an older one.
LEMMA OutputScheduled ==
  ASSUME Prompt, IInv, DoneInv, BirthInv, LiveInv, OutputInv, Scheduler
  PROVE  OutputInv'
  <1>0. /\ UNCHANGED <<manifest, op, effects>>
        /\ \A e : Unrecorded(e)' <=> Unrecorded(e)
    BY SchedulerFacts DEF Unrecorded
  <1>1. ASSUME NEW f \in Foreign, ~Born(f), UNCHANGED out,
               sched' = [sched EXCEPT ![f] = "queued"],
               where' = [where EXCEPT ![f] = Elsewhere]
        PROVE  OutputInv'
    <2>0. f \in Ids
      BY ForeignAssumption DEF Ids
    <2>1. \A i \in Ids \ {f} : (Born(i)' <=> Born(i)) /\ where'[i] = where[i]
      BY <1>1 DEF Born, IInv, TypeOK
    <2>2. \A i, j \in Ids \ Foreign : i < j /\ Born(j)' => Born(i)'
      BY <1>1, <2>1 DEF OutputInv
    <2>3. \A d \in Dirs, j \in Ids : out'[d].job = j => Born(j)' /\ where'[j] = d
      BY <1>1, <2>1 DEF OutputInv
    <2> QED
      BY <1>0, <1>1, <2>2, <2>3 DEF OutputInv, NoStaleVerdict
  <1>2. ASSUME UNCHANGED where,
               \A j \in Ids : sched'[j] = "unborn" <=> sched[j] = "unborn",
               \A d \in Dirs : \/ out'[d] = out[d]
                               \/ \E j \in Alive : where[j] = d /\ out'[d].job = j
        PROVE  OutputInv'
    <2>1. \A i, j \in Ids \ Foreign : i < j /\ Born(j)' => Born(i)'
      BY <1>2 DEF OutputInv, Born
    <2>2. \A d \in Dirs, j \in Ids : out'[d].job = j => Born(j)' /\ where'[j] = d
      BY <1>2 DEF OutputInv, Alive, Born
    <2>3. manifest.job # 0 =>
            out'[manifest.dir].job = 0 \/ out'[manifest.dir].job >= manifest.job
      BY <1>2, AliveIsLater DEF OutputInv, IInv, PlaceInv
    <2>4. op.kind \in Restarts /\ op.pc \in {"issue", "reply", "commit"} =>
            out'[manifest.dir].job \in {0, op.job}
      <3> SUFFICES ASSUME op.kind \in Restarts, op.pc \in {"issue", "reply", "commit"}
                   PROVE  out'[manifest.dir].job \in {0, op.job}
        OBVIOUS
      <3>1. op.kind \in Actions /\ op.pc \in UnderWay /\ op.pc \in Pending
        BY DEF Actions, UnderWay, Pending
      <3>2. manifest.job # 0 /\ manifest.dir \in Dirs /\ manifest.job \notin Alive
        BY <3>1 DEF IInv, PlaceInv, LiveInv
      <3>3. \A j \in Alive : where[j] = manifest.dir => j = op.job
        <4> SUFFICES ASSUME NEW j \in Alive, where[j] = manifest.dir PROVE j = op.job
          OBVIOUS
        <4>1. PICK g \in effects : g.job = j /\ Unrecorded(g)
          BY <3>2 DEF LiveInv
        <4> QED
          BY <3>1, <4>1, UnrecordedIsUnderWay
      <3> QED
        BY <1>2, <3>2, <3>3 DEF OutputInv
    <2> QED
      BY <1>0, <2>1, <2>2, <2>3, <2>4 DEF OutputInv, NoStaleVerdict
  <1> QED
    BY <1>1, <1>2, SchedulerFacts

\* A restart is numbered after the job it continues; a cancellation launches nothing.
LEMMA OutputExecuted ==
  ASSUME Prompt, Foreign \subseteq {1}, IInv, BirthInv, OutputInv,
         SubmitExecuted \/ RestartExecuted \/ CancelExecuted
  PROVE  OutputInv'
  <1>0. manifest.job \in Ids \union {0} /\ op \in Operation
    BY DEF IInv, TypeOK, Manifest
  <1>1. CASE SubmitExecuted \/ RestartExecuted
    <2>1. PICK j \in Ids \ Foreign, d \in Dirs :
            /\ ~Born(j) /\ \A i \in Ids \ Foreign : i < j => Born(i)
            /\ sched' = [sched EXCEPT ![j] = "queued"]
            /\ where' = [where EXCEPT ![j] = d]
            /\ effects' = effects \union {Effected(j)}
            /\ op.pc = "issue" /\ op.kind \in Restarts \union {"submit"}
            /\ op'.kind = op.kind
            /\ UNCHANGED <<manifest, out>>
            /\ op.kind \in Restarts => manifest.job # 0
      BY <1>1, LaunchFacts
    <2>2. PICK f : f = Effected(j)
      OBVIOUS
    <2>3. f.action = op.kind /\ f.job = j /\ effects' = effects \union {f}
      BY <2>1, <2>2 DEF Effected
    <2>4. \A i \in Ids \ {j} : (Born(i)' <=> Born(i)) /\ where'[i] = where[i]
      BY <2>1 DEF Born, IInv, TypeOK
    <2>5. \A e : Unrecorded(e)' <=> Unrecorded(e)
      BY <2>1 DEF Unrecorded
    <2>6. op.kind \in Restarts => j > manifest.job
      <3> SUFFICES ASSUME op.kind \in Restarts PROVE j > manifest.job
        OBVIOUS
      <3>1. manifest.job # 0 /\ Born(manifest.job) /\ manifest.job # j
        BY <2>1 DEF BirthInv
      <3>2. j < manifest.job => manifest.job \in Ids \ Foreign
        BY <1>0, <2>1, <3>1 DEF Ids
      <3>3. ~(j < manifest.job)
        BY <2>1, <3>1, <3>2 DEF OutputInv
      <3> QED
        BY <1>0, <2>1, <3>1, <3>3 DEF Ids
    <2>7. \A e \in effects' : Unrecorded(e)' => e.job > manifest.job
      BY <2>3, <2>5, <2>6 DEF OutputInv, Unrecorded
    <2>8. \A i, k \in Ids \ Foreign : i < k /\ Born(k)' => Born(i)'
      <3>1. Born(j)'
        BY <2>1 DEF Born, IInv, TypeOK
      <3> QED
        BY <2>1, <2>4, <3>1 DEF OutputInv
    <2>9. \A c \in Dirs, i \in Ids : out[c].job = i => Born(i)' /\ where'[i] = c
      BY <2>1, <2>4 DEF OutputInv
    <2>10. op.kind \in Restarts => out[manifest.dir].job = 0
      BY <2>1 DEF OutputInv, IInv, OpInv, UnderWay, Pending
    <2> QED
      BY <2>1, <2>7, <2>8, <2>9, <2>10 DEF OutputInv, NoStaleVerdict
  <1>2. CASE CancelExecuted
    <2>1. PICK f : f = Effected(manifest.job)
      OBVIOUS
    <2>2. /\ f.action = "cancel" /\ effects' = effects \union {f}
          /\ UNCHANGED <<manifest, where, out>> /\ op'.kind = "cancel"
          /\ sched' = [sched EXCEPT ![manifest.job] = "ended"] /\ manifest.job \in Alive
      BY <1>2, <2>1, CancelFacts DEF Effected
    <2>3. \A i \in Ids : Born(i)' <=> Born(i)
      BY <2>2 DEF Born, Alive, IInv, TypeOK
    <2>4. \A e \in effects' : Unrecorded(e)' => e \in effects /\ Unrecorded(e)
      BY <2>2 DEF Unrecorded, Restarts
    <2>5. op'.kind \notin Restarts
      BY <2>2 DEF Restarts
    <2> QED
      BY <2>2, <2>3, <2>4, <2>5 DEF OutputInv, NoStaleVerdict
  <1> QED
    BY <1>1, <1>2

\* A commit: the output in the directory is by the very job that job.yaml now names.
LEMMA OutputCommitted ==
  ASSUME Prompt, IInv, DoneInv, BirthInv, OutputInv,
         SubmitCommitted \/ CancelCommitted \/ RestartCommitted
  PROVE  OutputInv'
  <1>1. /\ UNCHANGED <<sched, where, out, effects>> /\ op.pc = "commit" /\ op'.pc = "close"
        /\ op.kind \in Actions \union {"submit"} /\ op.job \in Ids
        /\ manifest'.attempts = manifest.attempts \union {Attempted}
    BY CommittedFacts DEF external
  <1>2. PICK e \in effects : e.txn = op.txn /\ e.action = op.kind /\ e.job = op.job
    BY CommittedEffect
  <1>3. \A j : Born(j)' <=> Born(j)
    BY <1>1 DEF Born
  <1>4. PICK t : t = Attempted
    OBVIOUS
  <1>5. t.txn = op.txn /\ manifest'.attempts = manifest.attempts \union {t}
    BY <1>1, <1>4 DEF Attempted
  <1>6. \A g \in effects : Unrecorded(g)' => Unrecorded(g) /\ g.txn # op.txn
    BY <1>1, <1>5 DEF Unrecorded
  <1>7. \A d \in Dirs : out[d].job \in Ids \union {0}
    BY DEF IInv, TypeOK, Output
  <1>8. CASE op.kind = "submit"
    <2>1. manifest.job = 0
      BY <1>1, <1>8 DEF BirthInv, Pending
    <2>2. /\ manifest'.job = op.job /\ manifest'.dir = Leaf /\ manifest'.basis = 0
          /\ Leaf \in Dirs
      BY <1>8, <2>1, CommittedPlace DEF OutputInv, Dirs
    <2>3. Born(op.job) /\ where[op.job] = Leaf
      BY <1>1, <1>2, <1>8, <2>1 DEF BirthInv
    <2>4. out[Leaf].job \in {0, op.job}
      BY <1>1, <1>7, <2>1, <2>2, <2>3, SubmittedAreOne DEF OutputInv
    <2>5. \A g \in effects : ~Unrecorded(g)
      BY <2>1 DEF BirthInv, Unrecorded
    <2> QED
      BY <1>1, <1>3, <1>6, <2>2, <2>4, <2>5 DEF OutputInv, NoStaleVerdict, Ids
  <1>9. CASE op.kind = "cancel"
    <2>1. /\ manifest'.job = manifest.job /\ manifest'.dir = manifest.dir
          /\ manifest'.basis = manifest.basis
      BY <1>9, CommittedPlace
    <2> QED
      BY <1>1, <1>3, <1>6, <2>1 DEF OutputInv, NoStaleVerdict
  <1>10. CASE op.kind \in Restarts
    <2>1. /\ manifest'.job = op.job /\ manifest'.dir = manifest.dir /\ manifest'.basis = 0
          /\ manifest.job # 0
      BY <1>2, <1>10, CommittedPlace DEF BirthInv
    <2>2. out[manifest.dir].job \in {0, op.job}
      BY <1>1, <1>10 DEF OutputInv
    <2>3. \A g \in effects : ~Unrecorded(g)'
      BY <1>1, <1>6, <1>10, UnrecordedIsUnderWay DEF Actions, UnderWay, Pending
    <2> QED
      BY <1>1, <1>3, <2>1, <2>2, <2>3 DEF OutputInv, NoStaleVerdict, Ids
  <1> QED
    BY <1>1, <1>8, <1>9, <1>10 DEF Actions

\* Whatever stands in the directory of an adopted job is by that job.
LEMMA OutputAdopted ==
  ASSUME Prompt, IInv, BirthInv, OutputInv, NEW j \in Ids, Adopt(j)
  PROVE  OutputInv'
  <1>1. /\ op' = Idle /\ manifest.job = 0 /\ Born(j) /\ where[j] \in Dirs
        /\ manifest'.job = j /\ manifest'.dir = where[j] /\ manifest'.basis = manifest.basis
        /\ UNCHANGED <<sched, where, out, effects>>
    BY AdoptFacts DEF external
  <1>2. \A i : Born(i)' <=> Born(i)
    BY <1>1 DEF Born
  <1>3. manifest.basis = 0
    BY <1>1 DEF OutputInv
  <1>4. out[where[j]].job \in Ids \union {0}
    BY <1>1 DEF IInv, TypeOK, Output
  <1>5. out[where[j]].job \in {0, j}
    BY <1>1, <1>4, SubmittedAreOne DEF OutputInv
  <1>6. \A g \in effects : g.action \notin Restarts
    BY <1>1 DEF BirthInv
  <1>7. op'.kind \notin Restarts
    BY <1>1 DEF Idle, Restarts
  <1> QED
    BY <1>1, <1>2, <1>3, <1>5, <1>6, <1>7 DEF OutputInv, NoStaleVerdict, Unrecorded, Ids
\* A verdict rests on the output it was read from, which is not older than the job.
LEMMA OutputPolled ==
  ASSUME IInv, OutputInv, NEW c \in Clients, Select(c) \/ Refresh(c) \/ SkipRefresh(c)
  PROVE  OutputInv'
  <1>1. /\ UNCHANGED <<op, sched, where, out, effects>>
        /\ manifest'.attempts = manifest.attempts /\ manifest'.job = manifest.job
        /\ manifest'.dir = manifest.dir
        /\ manifest'.basis \in {manifest.basis, 0, out[manifest.dir].job}
        /\ manifest' # manifest => op = Idle /\ manifest.job # 0
    BY PollerFacts DEF external
  <1>2. manifest.job # 0 => manifest'.basis = 0 \/ manifest'.basis >= manifest.job
    BY <1>1 DEF OutputInv, NoStaleVerdict
  <1>3. manifest.job = 0 => manifest'.basis = 0
    BY <1>1 DEF OutputInv
  <1> QED
    BY <1>1, <1>2, <1>3 DEF OutputInv, NoStaleVerdict, Born, Unrecorded

\* The previous output is out of the way before a restart is sent.
LEMMA OutputArchived ==
  ASSUME IInv, OutputInv, Archive
  PROVE  OutputInv'
  <1>1. UNCHANGED <<manifest, sched, where, effects>>
        /\ out' = [out EXCEPT ![manifest.dir] = NoOutput]
        /\ op.kind \in Restarts /\ op.pc = "prepare"
    BY DEF Archive
  <1>2. manifest.dir \in Dirs /\ NoOutput.job = 0
    BY <1>1 DEF IInv, PlaceInv, Actions, UnderWay, Pending, NoOutput
  <1>3. out'[manifest.dir].job = 0 /\ \A d \in Dirs : out'[d].job \in {0, out[d].job}
    BY <1>1, <1>2 DEF IInv, TypeOK
  <1>4. \A d \in Dirs, j \in Ids : out'[d].job = j => out[d].job = j
    BY <1>3 DEF Ids
  <1> QED
    BY <1>1, <1>3, <1>4 DEF OutputInv, NoStaleVerdict, Born, Unrecorded

\* Every step keeps the output by the right job.
LEMMA OutputStep ==
  ASSUME Prompt, Foreign \subseteq {1}, IInv, KeyInv, DoneInv, BirthInv, LiveInv, OutputInv,
         [Next]_vars
  PROVE  OutputInv'
  <1>1. ASSUME NEW k \in AnyKey, StartSubmit(k) PROVE OutputInv'
    BY <1>1, StartSubmitFacts, OutputQuiet DEF external, Restarts
  <1>2. ASSUME NEW a \in Actions, NEW k \in AnyKey, NEW b \in BOOLEAN,
               NEW pc \in {"prepare", "issue"}, Begins(a, k, b, pc)
        PROVE  OutputInv'
    <2>1. a \in Restarts => pc = "prepare"
      BY <1>2 DEF Begins
    <2> QED
      BY <1>2, <2>1, BeginsFacts, OutputQuiet DEF external
  <1>3. CASE FetchResults \/ \E k \in AnyKey, b \in BOOLEAN : RefuseOverlap(k, b)
    <2>1. /\ UNCHANGED <<external, effects, op>> /\ op = Idle
          /\ manifest'.job = manifest.job /\ manifest'.dir = manifest.dir
          /\ manifest'.attempts = manifest.attempts /\ manifest'.basis = manifest.basis
      BY <1>3 DEF FetchResults, RefuseOverlap, IInv, TypeOK, Manifest
    <2>2. op'.kind \notin Restarts
      BY <2>1 DEF Idle, Restarts
    <2> QED
      BY <2>1, <2>2, OutputQuiet DEF external
  <1>4. CASE SubmitUnanswered
    <2>1. /\ UNCHANGED <<external, effects>> /\ op' = Idle /\ manifest.job = 0
          /\ manifest'.job = manifest.job /\ manifest'.attempts = manifest.attempts
          /\ manifest'.basis = manifest.basis
      BY <1>4 DEF SubmitUnanswered, IInv, TypeOK, Manifest, BirthInv, Pending
    <2>2. op'.kind \notin Restarts
      BY <2>1 DEF Idle, Restarts
    <2> QED
      BY <2>1, <2>2, OutputQuiet DEF external
  <1>5. CASE Calm
    <2>1. UNCHANGED <<external, effects, manifest>> /\ SameOperation
      BY <1>5 DEF Calm
    <2>2. op'.kind \in Restarts /\ op'.pc \in {"issue", "reply", "commit"} =>
            out[manifest.dir].job \in {0, op'.job}
      BY <1>5 DEF Calm, SameOperation, UnderWay, Pending, OutputInv
    <2> QED
      BY <2>1, <2>2, OutputQuiet DEF external
  <1> QED
    BY <1>1, <1>2, <1>3, <1>4, <1>5, DeedKinds, OutputScheduled, OutputExecuted,
       OutputCommitted, OutputAdopted, OutputPolled, OutputArchived

\* The output belongs to the right job in every reachable state.
LEMMA OutputInvariance == ASSUME Prompt, Foreign \subseteq {1} PROVE Spec => []OutputInv
  <1>1. Init => OutputInv
    BY ForeignAssumption DEF Init, OutputInv, NoStaleVerdict, Born, Unrecorded, Idle, NoOutput,
       Restarts, Ids
  <1>2. IInv /\ KeyInv /\ DoneInv /\ BirthInv /\ LiveInv /\ OutputInv /\ [Next]_vars
          => OutputInv'
    BY OutputStep
  <1> QED
    BY <1>1, <1>2, Invariance, KeyInvariance, DoneInvariance, BirthInvariance,
       LiveInvariance, PTL DEF Spec

\* No verdict rests on the output of an earlier job, in the same environment and if the
\* job of another program, should there be one, is the first the scheduler numbers.
THEOREM NoVerdictIsStale ==
  ASSUME Prompt, Foreign \subseteq {1}
  PROVE  Spec => []NoStaleVerdict
  <1>1. OutputInv => NoStaleVerdict
    BY DEF OutputInv
  <1> QED
    BY <1>1, OutputInvariance, PTL
=============================================================================
