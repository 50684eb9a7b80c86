------------------------------ MODULE Campaign ------------------------------
(***************************************************************************)
(* One campaign directory: its task files, its decision ledger and its run *)
(* lock (src/vcstudio/campaign/schema.py, states.py, gates.py, ledger.py,  *)
(* lock.py, derive.py), worked on by calls of project/ai_paper.py          *)
(* autopilot_step, by reviewers who accept, waive, revoke and downgrade    *)
(* through the same functions, and by operators who clear the run lock of  *)
(* a caller that died.                                                     *)
(*                                                                         *)
(* Every write of a task file is a compare-and-swap on its revision under  *)
(* the task lock, and the accepting write also holds the ledger lock, so   *)
(* each is one step.  What a caller read before that step is not protected *)
(* by anything.                                                            *)
(***************************************************************************)
EXTENDS Naturals, Sequences, FiniteSets

CONSTANTS
  Tasks,
  DependsOn,       \* the dependency graph: [Tasks -> SUBSET Tasks]
  Drivers,         \* processes that call autopilot_step, again and again; one
                   \* that died stays dead, a restarted program is another driver
  Mortal,          \* those that may die at any point
  Operators,       \* who clears the run lock of a dead driver
  Reviewers,       \* who accepts, waives, revokes and downgrades by hand
  Nobody,
  MaxRevision,     \* bound: a reviewer downgrades below this revision only
  MaxLedger        \* bound: entries of the decision ledger

ASSUME GraphAssumption == DependsOn \in [Tasks -> SUBSET Tasks]
ASSUME ActorsAssumption == Mortal \subseteq Drivers /\ Nobody \notin Drivers
ASSUME BoundsAssumption == MaxRevision \in Nat /\ MaxLedger \in Nat

VARIABLES
  disk,       \* tasks/<id>.yaml
  ledger,     \* decisions.jsonl
  lock,       \* run.lock
  driver,     \* per driver, its autopilot_step call
  operator,   \* per operator, its release call
  reviewer,   \* per reviewer, the task in memory
  past        \* history: per task, who ran it and on what it was accepted

vars == <<disk, ledger, lock, driver, operator, reviewer, past>>
people == <<operator, reviewer>>

-----------------------------------------------------------------------------
(* Data. *)

Rungs == {"pending", "running", "failed", "completed", "validated", "accepted"}
Rank  == [pending |-> 0, failed |-> 0, running |-> 1, completed |-> 2,
          validated |-> 3, accepted |-> 4]
Satisfied == {"validated", "accepted"}             \* DEP_SATISFIED_RUNGS

Anybody == Drivers \union {Nobody}
Task == [rung : Rungs, rev : Nat]

\* waiver: a person lets this revision pass; gate: the verdict of accept_gate;
\* revoked: entry `ref' no longer counts.
Entry == [kind : {"waiver", "gate", "revoked"}, task : Tasks, rev : Nat,
          status : {"pass", "blocked", "waived", "none"}, ref : Nat]

NoLock == [by |-> Nobody, written |-> FALSE]
Lock   == [by : Anybody, written : BOOLEAN]

\* What execute() may report, as far as the step that follows tells it apart.
Outcomes == {"error", "unchecked", "contradicting", "blocked", "good"}

Counters == {"idle", "create", "load", "next", "execute", "report", "check",
             "gate", "accept", "leave", "unlink", "dead"}
Call == [pc : Counters,
         todo : SUBSET [task : Tasks, rev : Nat], task : Tasks \union {Nobody},
         rev : Nat, outcome : Outcomes \union {"none"}, verdict : Nat]
NoCall == [pc |-> "idle", todo |-> {}, task |-> Nobody, rev |-> 0,
           outcome |-> "none", verdict |-> 0]

Removal == [pc : {"idle", "release", "unlink"}, target : Anybody]
NoRemoval == [pc |-> "idle", target |-> Nobody]

\* seen: the length of the ledger when the task was loaded.
Review == [pc : {"idle", "loaded", "accept"}, task : Tasks \union {Nobody},
           rev : Nat, rung : Rungs, seen : Nat, verdict : Nat]
NoReview == [pc |-> "idle", task |-> Nobody, rev |-> 0, rung |-> "pending",
             seen |-> 0, verdict |-> 0]

Past == [runner : Anybody, source : Anybody, verdict : Nat, at : Nat]

TypeOK ==
  /\ disk \in [Tasks -> Task]
  /\ ledger \in Seq(Entry)
  /\ lock \in Lock
  /\ driver \in [Drivers -> Call]
  /\ operator \in [Operators -> Removal]
  /\ reviewer \in [Reviewers -> Review]
  /\ past \in [Tasks -> Past]

Init ==
  /\ disk = [t \in Tasks |-> [rung |-> "pending", rev |-> 0]]
  /\ ledger = <<>>
  /\ lock = NoLock
  /\ driver = [d \in Drivers |-> NoCall]
  /\ operator = [o \in Operators |-> NoRemoval]
  /\ reviewer = [r \in Reviewers |-> NoReview]
  /\ past = [t \in Tasks |-> [runner |-> Nobody, source |-> Nobody, verdict |-> 0,
                              at |-> 0]]

-----------------------------------------------------------------------------
(* derive.derive_ready and the decision ledger. *)

Ready(t) ==
  /\ disk[t].rung = "pending"
  /\ \A u \in DependsOn[t] : disk[u].rung \in Satisfied

\* is_decision_revoked, as the first n entries of the ledger tell.
Revoked(i, n) == \E j \in 1..n : ledger[j].kind = "revoked" /\ ledger[j].ref = i

\* Fault: whoever records a waiver may use it for every later revision.
WaiverHoldsForTask(w, t, rev, n) ==
  /\ w \in 1..n
  /\ ledger[w].kind = "waiver" /\ ledger[w].task = t
  /\ ~Revoked(w, n)

\* validate_waiver_decision: entry w lets revision `rev' of task t pass.
WaiverHolds(w, t, rev, n) ==
  /\ w \in 1..n
  /\ ledger[w].kind = "waiver" /\ ledger[w].task = t /\ ledger[w].rev = rev
  /\ ~Revoked(w, n)

\* verify_gate_decision, the part that reads the ledger.
VerdictHolds(g, t, rev, n) ==
  /\ g \in 1..n
  /\ ledger[g].kind = "gate" /\ ledger[g].task = t /\ ledger[g].rev = rev
  /\ ledger[g].status \in {"pass", "waived"}
  /\ ~Revoked(g, n)
  /\ ledger[g].status = "waived" => WaiverHolds(ledger[g].ref, t, rev, n)

\* Fault: the verdict is verified before the ledger lock is taken.
AcceptableEarlier(g, t, rev) ==
  /\ disk[t].rung = "validated" /\ disk[t].rev = rev
  /\ VerdictHolds(g, t, rev, g)

\* verify_gate_decision inside the locks that cover the accepting write.
Acceptable(g, t, rev) ==
  /\ disk[t].rung = "validated" /\ disk[t].rev = rev
  /\ VerdictHolds(g, t, rev, Len(ledger))

Append1(kind, t, rev, status, ref) ==
  /\ Len(ledger) < MaxLedger
  /\ ledger' = Append(ledger, [kind |-> kind, task |-> t, rev |-> rev,
                               status |-> status, ref |-> ref])

\* Fault: the revision on disk is not compared.
UnchangedSinceAny(t, rev) == disk[t].rev >= rev

\* The compare of persist_task and claim_task.
UnchangedSince(t, rev) == disk[t].rev = rev

\* The swap: every write makes the next revision.
Written(t, rung) == [disk EXCEPT ![t] = [rung |-> rung, rev |-> @.rev + 1]]

-----------------------------------------------------------------------------
(* autopilot_step.  Drivers that hold the lock go through the program        *)
(* counters from "create" to "unlink".                                       *)

Holding == {"create", "load", "next", "execute", "report", "check", "gate",
            "accept", "leave", "unlink"}

Go(d, pc) == driver' = [driver EXCEPT ![d].pc = pc]

\* Fault: the file is opened without O_EXCL.
AcquireOver(d) ==
  /\ driver[d].pc = "idle"
  /\ lock' = [by |-> d, written |-> FALSE]
  /\ Go(d, "create")
  /\ UNCHANGED <<disk, ledger, past, people>>

\* O_CREAT|O_EXCL; the file is empty until the next step.
Acquire(d) ==
  /\ driver[d].pc = "idle"
  /\ lock = NoLock
  /\ lock' = [by |-> d, written |-> FALSE]
  /\ Go(d, "create")
  /\ UNCHANGED <<disk, ledger, past, people>>

\* The write goes to the open file, which may have been unlinked since.
WriteOwner(d) ==
  /\ driver[d].pc = "create"
  /\ lock' = IF lock.by = d THEN [lock EXCEPT !.written = TRUE] ELSE lock
  /\ Go(d, "load")
  /\ UNCHANGED <<disk, ledger, past, people>>

LoadCampaign(d) ==
  /\ driver[d].pc = "load"
  /\ driver' = [driver EXCEPT ![d].pc = "next", ![d].todo =
                  {[task |-> t, rev |-> disk[t].rev] : t \in {u \in Tasks : Ready(u)}}]
  /\ UNCHANGED <<disk, ledger, lock, past, people>>

\* claim_task: the revision is compared, then the rung, under the task lock.
ClaimTask(d) ==
  /\ driver[d].pc = "next"
  /\ \E job \in driver[d].todo :
       IF UnchangedSince(job.task, job.rev) /\ disk[job.task].rung = "pending"
       THEN /\ disk' = Written(job.task, "running")
            /\ past' = [past EXCEPT ![job.task].runner = d, ![job.task].source = Nobody]
            /\ driver' = [driver EXCEPT ![d].pc = "execute", ![d].task = job.task,
                                        ![d].rev = job.rev + 1,
                                        ![d].todo = @ \ {job}]
       ELSE Go(d, "leave") /\ UNCHANGED <<disk, past>>
  /\ UNCHANGED <<ledger, lock, people>>

Execute(d) ==
  /\ driver[d].pc = "execute"
  /\ \E o \in Outcomes :
       driver' = [driver EXCEPT ![d].pc = "report", ![d].outcome = o]
  /\ UNCHANGED <<disk, ledger, lock, past, people>>

\* persist_task by a driver: the swap, or a conflict that ends the call.
Swap(d, rung, pc) ==
  LET t == driver[d].task IN
  IF UnchangedSince(t, driver[d].rev)
  THEN /\ disk' = Written(t, rung)
       /\ driver' = [driver EXCEPT ![d].pc = pc, ![d].rev = @ + 1]
  ELSE Go(d, "leave") /\ UNCHANGED disk

RecordFailed(d) ==
  /\ driver[d].pc = "report" /\ driver[d].outcome = "error"
  /\ Swap(d, "failed", "next")
  /\ UNCHANGED <<ledger, lock, past, people>>

RecordCompleted(d) ==
  /\ driver[d].pc = "report" /\ driver[d].outcome # "error"
  /\ Swap(d, "completed", "check")
  /\ past' = IF disk' = disk THEN past
             ELSE [past EXCEPT ![driver[d].task].source = d]
  /\ UNCHANGED <<ledger, lock, people>>

\* promote_validated refuses without checks that all passed.
LeaveUnchecked(d) ==
  /\ driver[d].pc = "check" /\ driver[d].outcome = "unchecked"
  /\ Go(d, "next")
  /\ UNCHANGED <<disk, ledger, lock, past, people>>

\* A contradiction of the literature ends the call after this write.
RecordValidated(d) ==
  /\ driver[d].pc = "check" /\ driver[d].outcome # "unchecked"
  /\ Swap(d, "validated",
          IF driver[d].outcome = "contradicting" THEN "leave" ELSE "gate")
  /\ UNCHANGED <<ledger, lock, past, people>>

\* accept_gate: the verdict is appended to the ledger.
AcceptGate(d) ==
  /\ driver[d].pc = "gate"
  /\ LET good == driver[d].outcome = "good" IN
     /\ Append1("gate", driver[d].task, driver[d].rev,
                IF good THEN "pass" ELSE "blocked", 0)
     /\ driver' = [driver EXCEPT ![d].pc = IF good THEN "accept" ELSE "next",
                                 ![d].verdict = Len(ledger) + 1]
  /\ UNCHANGED <<disk, lock, past, people>>

\* The accepting write of promote_accepted, under the task and ledger locks.
Accepting(g, t) ==
  /\ disk' = Written(t, "accepted")
  /\ past' = [past EXCEPT ![t].verdict = g, ![t].at = Len(ledger)]

PromoteAccepted(d) ==
  /\ driver[d].pc = "accept"
  /\ LET g == driver[d].verdict
         t == driver[d].task
     IN \/ /\ Acceptable(g, t, driver[d].rev)
           /\ Accepting(g, t)
           /\ Go(d, "next")
        \/ /\ ~Acceptable(g, t, driver[d].rev)
           /\ Go(d, "leave")
           /\ UNCHANGED <<disk, past>>
  /\ UNCHANGED <<ledger, lock, people>>

\* All ready tasks were tried.
Finish(d) ==
  /\ driver[d].pc = "next" /\ driver[d].todo = {}
  /\ Go(d, "leave")
  /\ UNCHANGED <<disk, ledger, lock, past, people>>

\* An event or a verdict that cannot be appended raises out of the loop.
Raise(d) ==
  /\ driver[d].pc \in {"execute", "next", "check", "gate"}
  /\ d \in Mortal \/ (driver[d].pc = "gate" /\ Len(ledger) = MaxLedger)
  /\ Go(d, "leave")
  /\ UNCHANGED <<disk, ledger, lock, past, people>>

\* release(owner): the file's owner is read ...
Mine(owner) == lock # NoLock /\ (lock.written => lock.by = owner)

\* Fault: a call halted by a contradiction returns without its finally clause.
ReleaseReadUnlessHalted(d) ==
  /\ driver[d].pc = "leave"
  /\ IF Mine(d) /\ driver[d].outcome # "contradicting"
     THEN Go(d, "unlink") ELSE driver' = [driver EXCEPT ![d] = NoCall]
  /\ UNCHANGED <<disk, ledger, lock, past, people>>

ReleaseRead(d) ==
  /\ driver[d].pc = "leave"
  /\ IF Mine(d) THEN Go(d, "unlink") ELSE driver' = [driver EXCEPT ![d] = NoCall]
  /\ UNCHANGED <<disk, ledger, lock, past, people>>

\* ... and whatever file has the name then is removed.
Unlink(d) ==
  /\ driver[d].pc = "unlink"
  /\ lock' = NoLock
  /\ driver' = [driver EXCEPT ![d] = NoCall]
  /\ UNCHANGED <<disk, ledger, past, people>>

\* The process ends; its run.lock stays.
Die(d) ==
  /\ d \in Mortal
  /\ driver[d].pc \in Holding
  /\ driver' = [driver EXCEPT ![d] = [NoCall EXCEPT !.pc = "dead"]]
  /\ UNCHANGED <<disk, ledger, lock, past, people>>

Drive(d) ==
  \/ Acquire(d) \/ WriteOwner(d) \/ LoadCampaign(d) \/ ClaimTask(d) \/ Execute(d)
  \/ RecordFailed(d) \/ RecordCompleted(d) \/ LeaveUnchecked(d)
  \/ RecordValidated(d) \/ AcceptGate(d) \/ PromoteAccepted(d) \/ Finish(d)
  \/ ReleaseRead(d) \/ Unlink(d)

-----------------------------------------------------------------------------
(* Operators: nothing in the program removes the lock of a dead driver.      *)

InspectLock(o) ==
  /\ operator[o].pc = "idle"
  /\ lock # NoLock /\ driver[lock.by].pc = "dead"
  /\ operator' = [operator EXCEPT ![o] = [pc |-> "release", target |-> lock.by]]
  /\ UNCHANGED <<disk, ledger, lock, driver, reviewer, past>>

OpReleaseRead(o) ==
  /\ operator[o].pc = "release"
  /\ operator' = [operator EXCEPT ![o] =
        IF Mine(operator[o].target) THEN [@ EXCEPT !.pc = "unlink"] ELSE NoRemoval]
  /\ UNCHANGED <<disk, ledger, lock, driver, reviewer, past>>

OpUnlink(o) ==
  /\ operator[o].pc = "unlink"
  /\ lock' = NoLock
  /\ operator' = [operator EXCEPT ![o] = NoRemoval]
  /\ UNCHANGED <<disk, ledger, driver, reviewer, past>>

Operate(o) == InspectLock(o) \/ OpReleaseRead(o) \/ OpUnlink(o)

-----------------------------------------------------------------------------
(* Reviewers use the same functions, without the run lock.                   *)

RecordWaiver ==
  /\ \E t \in Tasks : Append1("waiver", t, disk[t].rev, "none", 0)
  /\ UNCHANGED <<disk, lock, driver, past, people>>

\* revoke_decision of a decision that exists; once is enough.
RevokeDecision ==
  /\ \E i \in 1..Len(ledger) :
       /\ ledger[i].kind # "revoked" /\ ~Revoked(i, Len(ledger))
       /\ Append1("revoked", ledger[i].task, ledger[i].rev, "none", i)
  /\ UNCHANGED <<disk, lock, driver, past, people>>

LoadTask(r) ==
  /\ reviewer[r].pc = "idle"
  /\ \E t \in Tasks :
       reviewer' = [reviewer EXCEPT ![r] =
         [pc |-> "loaded", task |-> t, rev |-> disk[t].rev, rung |-> disk[t].rung,
          seen |-> Len(ledger), verdict |-> 0]]
  /\ UNCHANGED <<disk, ledger, lock, driver, operator, past>>

\* The waiver was valid at some moment since the task was loaded, which is all
\* that accept_gate looks at before it appends its verdict.
Waivable(r, w) ==
  \E n \in reviewer[r].seen..Len(ledger) :
    WaiverHolds(w, reviewer[r].task, reviewer[r].rev, n)

ReviewGate(r) ==
  /\ reviewer[r].pc = "loaded"
  /\ LET verdict(status, ref) ==
           Append1("gate", reviewer[r].task, reviewer[r].rev, status, ref)
     IN \/ verdict("pass", 0)
        \/ \E w \in 1..Len(ledger) : Waivable(r, w) /\ verdict("waived", w)
  /\ reviewer' = [reviewer EXCEPT ![r].pc = "accept", ![r].verdict = Len(ledger) + 1]
  /\ UNCHANGED <<disk, lock, driver, operator, past>>

ReviewAccept(r) ==
  /\ reviewer[r].pc = "accept"
  /\ LET g == reviewer[r].verdict
         t == reviewer[r].task
     IN \/ Acceptable(g, t, reviewer[r].rev) /\ Accepting(g, t)
        \/ ~Acceptable(g, t, reviewer[r].rev) /\ UNCHANGED <<disk, past>>
  /\ reviewer' = [reviewer EXCEPT ![r] = NoReview]
  /\ UNCHANGED <<ledger, lock, driver, operator>>

\* downgrade on the task in memory, then persist_task.
Downgrade(r) ==
  /\ reviewer[r].pc = "loaded" /\ reviewer[r].rev < MaxRevision
  /\ \E rung \in Rungs :
       /\ Rank[rung] < Rank[reviewer[r].rung]
       /\ IF UnchangedSince(reviewer[r].task, reviewer[r].rev)
          THEN disk' = Written(reviewer[r].task, rung)
          ELSE UNCHANGED disk
  /\ reviewer' = [reviewer EXCEPT ![r] = NoReview]
  /\ UNCHANGED <<ledger, lock, driver, operator, past>>

Next ==
  \/ \E d \in Drivers : Drive(d) \/ Raise(d) \/ Die(d)
  \/ \E o \in Operators : Operate(o)
  \/ Reviewers # {} /\ (RecordWaiver \/ RevokeDecision)
  \/ \E r \in Reviewers :
       LoadTask(r) \/ ReviewGate(r) \/ ReviewAccept(r) \/ Downgrade(r)

Spec == Init /\ [][Next]_vars

\* A call goes on, the program calls again, an operator clears a dead lock, and
\* the appends to the event log do not fail for ever.
Fairness ==
  /\ \A d \in Drivers : WF_vars(Drive(d) \/ (driver[d].pc = "gate" /\ Raise(d)))
  /\ \A o \in Operators : WF_vars(Operate(o))
  /\ <>[][\A d \in Drivers : driver[d].pc # "gate" => ~Raise(d)]_vars

FairSpec == Spec /\ Fairness

-----------------------------------------------------------------------------
(* Properties. *)

\* lock.py: at most one autopilot call of a campaign is under way.
RunLockMutex ==
  \A d, e \in Drivers :
    driver[d].pc \in Holding /\ driver[e].pc \in Holding => d = e

\* claim_task, the second line of defence when the run lock was lost: no two
\* calls execute the same claim of a task.
ExecutedOnce ==
  \A d, e \in Drivers :
    /\ driver[d].pc \in {"execute", "report"} /\ driver[e].pc \in {"execute", "report"}
    /\ driver[d].task = driver[e].task /\ driver[d].rev = driver[e].rev
    => d = e

\* A recorded result is that of the last call that claimed the task: a call
\* whose claim was taken away cannot publish what it computed.
ResultIsOwn ==
  \A t \in Tasks :
    Rank[disk[t].rung] >= Rank["completed"] => past[t].source = past[t].runner

\* Entry i is about the revision of t that was just replaced, and none of the
\* first n entries revokes it.
Stands(i, kind, t, n) ==
  /\ i \in 1..n
  /\ ledger[i].kind = kind /\ ledger[i].task = t
  /\ ledger[i].rev + 1 = disk[t].rev
  /\ \A j \in 1..n : ~(ledger[j].kind = "revoked" /\ ledger[j].ref = i)

\* states.py and gates.py: an accepted task was accepted on a gate verdict about
\* exactly the revision it replaced, and neither the verdict nor the waiver it
\* relies on had been revoked when it was written.
AcceptedIsAuthorised ==
  \A t \in Tasks : disk[t].rung = "accepted" =>
    LET g == past[t].verdict
        n == past[t].at
    IN /\ Stands(g, "gate", t, n)
       /\ ledger[g].status \in {"pass", "waived"}
       /\ ledger[g].status = "waived" => Stands(ledger[g].ref, "waiver", t, n)

\* Only a reviewer who loaded that very revision takes an acceptance back.
AcceptedIsFinal ==
  [][\A t \in Tasks :
       disk[t].rung = "accepted" /\ disk'[t] # disk[t] =>
         \E r \in Reviewers :
           /\ reviewer[r].pc = "loaded" /\ reviewer[r].task = t
           /\ reviewer[r].rev = disk[t].rev
           /\ reviewer'[r] = NoReview]_vars

-----------------------------------------------------------------------------
(* The inductive invariants behind ResultIsOwn, ExecutedOnce,                *)
(* AcceptedIsAuthorised and RunLockMutex.                                    *)

Claiming == {"execute", "report", "check", "gate", "accept"}

\* What a call that claimed a task knows of it, unless a later revision exists.
ClaimHolds(d) ==
  driver[d].pc \in Claiming =>
    LET t == driver[d].task IN
    /\ t \in Tasks
    /\ driver[d].rev <= disk[t].rev
    /\ driver[d].rev = disk[t].rev =>
         /\ driver[d].pc \in {"execute", "report"} =>
              disk[t].rung = "running" /\ past[t].runner = d
         /\ driver[d].pc = "check" => disk[t].rung = "completed"

\* What a reviewer has in memory is the task, unless a later revision exists.
SnapshotHolds(r) ==
  reviewer[r].pc # "idle" =>
    LET t == reviewer[r].task IN
    /\ t \in Tasks
    /\ reviewer[r].rev <= disk[t].rev
    /\ reviewer[r].pc = "loaded" /\ reviewer[r].rev = disk[t].rev =>
         disk[t].rung = reviewer[r].rung

ClaimsHold == \A d \in Drivers : ClaimHolds(d)
SnapshotsHold == \A r \in Reviewers : SnapshotHolds(r)
PastIsPast == \A t \in Tasks : past[t].at <= Len(ledger)

CInv ==
  /\ TypeOK /\ ClaimsHold /\ SnapshotsHold /\ PastIsPast
  /\ ExecutedOnce /\ ResultIsOwn /\ AcceptedIsAuthorised

\* Whoever is in an autopilot call owns the lock file, and whoever is about to
\* remove a lock file is about to remove that of the dead driver it looked at.
LockInv ==
  /\ lock = NoLock \/ lock \in [by : Drivers, written : BOOLEAN]
  /\ \A d \in Drivers : driver[d].pc \in Holding => lock.by = d
  /\ \A o \in Operators : operator[o].pc # "idle" =>
       /\ operator[o].target \in Drivers
       /\ lock.by = operator[o].target
       /\ driver[operator[o].target].pc = "dead"

-----------------------------------------------------------------------------
\* Every task that is ready is eventually started, withdrawn or blocked again.
Attended == \A t \in Tasks : Ready(t) ~> ~Ready(t)

=============================================================================
