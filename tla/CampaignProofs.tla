--------------------------- MODULE CampaignProofs ---------------------------
(***************************************************************************)
(* Proofs about Campaign for any tasks, dependency graph, drivers,         *)
(* reviewers and operators.                                                *)
(***************************************************************************)
EXTENDS Campaign, TLAPS

-----------------------------------------------------------------------------
(* Program counters.                                                         *)

\* Go moves one driver and nothing else of it.
LEMMA Gone ==
  ASSUME driver \in [Drivers -> Call], NEW d \in Drivers, NEW pc, Go(d, pc)
  PROVE  /\ driver'[d] = [driver[d] EXCEPT !.pc = pc]
         /\ driver'[d].pc = pc
         /\ \A e \in Drivers : e # d => driver'[e] = driver[e]
  BY DEF Go, Call

\* The steps of a call between taking the lock and leaving.
Working(d) ==
  \/ LoadCampaign(d) \/ ClaimTask(d) \/ Execute(d) \/ RecordFailed(d)
  \/ RecordCompleted(d) \/ LeaveUnchecked(d) \/ RecordValidated(d) \/ AcceptGate(d)
  \/ PromoteAccepted(d) \/ Finish(d) \/ Raise(d)

Reviewing ==
  \/ RecordWaiver \/ RevokeDecision
  \/ \E r \in Reviewers :
       LoadTask(r) \/ ReviewGate(r) \/ ReviewAccept(r) \/ Downgrade(r)

\* Such a step leaves the lock, the operators and the other drivers alone.
LEMMA WorkingHolds ==
  ASSUME driver \in [Drivers -> Call], NEW d \in Drivers, Working(d)
  PROVE  /\ driver[d].pc \in Holding
         /\ lock' = lock /\ operator' = operator
         /\ \A e \in Drivers : e # d => driver'[e] = driver[e]
<1> USE DEF Holding, people
<1>1. driver[d].pc \in Holding /\ lock' = lock /\ operator' = operator
  BY DEF Working, LoadCampaign, ClaimTask, Execute, RecordFailed, RecordCompleted,
         LeaveUnchecked, RecordValidated, AcceptGate, PromoteAccepted, Finish, Raise
<1>2. \A e \in Drivers : e # d => driver'[e] = driver[e]
  <2>1. CASE Execute(d) \/ LeaveUnchecked(d) \/ Finish(d) \/ Raise(d)
    BY <2>1 DEF Execute, LeaveUnchecked, Finish, Raise, Go
  <2>2. CASE LoadCampaign(d) \/ AcceptGate(d)
    BY <2>2 DEF LoadCampaign, AcceptGate
  <2>3. CASE ClaimTask(d)
    BY <2>3 DEF ClaimTask, Go
  <2>4. CASE RecordFailed(d) \/ RecordCompleted(d) \/ RecordValidated(d)
    BY <2>4 DEF RecordFailed, RecordCompleted, RecordValidated, Swap, Go
  <2>5. CASE PromoteAccepted(d)
    BY <2>5 DEF PromoteAccepted, Go
  <2>. QED BY <2>1, <2>2, <2>3, <2>4, <2>5 DEF Working
<1>. QED BY <1>1, <1>2

-----------------------------------------------------------------------------
(* The run lock.                                                             *)

\* A step of a driver or an operator keeps LockInv when one operator at most
\* clears locks (lock.py acquire, release).
LEMMA LockStep ==
  ASSUME LockInv, driver \in [Drivers -> Call], operator \in [Operators -> Removal],
         \A o, p \in Operators : o = p, [Next]_vars
  PROVE  LockInv'
<1> USE DEF LockInv, Holding, NoLock, people
<1>1. ASSUME NEW d \in Drivers, Acquire(d) PROVE LockInv'
  <2>1. /\ lock = [by |-> Nobody, written |-> FALSE]
        /\ lock' = [by |-> d, written |-> FALSE]
        /\ operator' = operator
    BY <1>1 DEF Acquire
  <2>2. /\ \A e \in Drivers : driver[e].pc \notin Holding
        /\ \A o \in Operators : operator[o].pc = "idle"
    BY <2>1, ActorsAssumption
  <2>3. \A e \in Drivers : e # d => driver'[e] = driver[e]
    BY <1>1, Gone DEF Acquire
  <2>. QED BY <2>1, <2>2, <2>3
<1>2. ASSUME NEW d \in Drivers, WriteOwner(d) PROVE LockInv'
  <2>1. driver[d].pc = "create" /\ lock.by = d /\ operator' = operator
    BY <1>2 DEF WriteOwner
  <2>2. lock' = [by |-> d, written |-> TRUE]
    BY <1>2, <2>1, ActorsAssumption DEF WriteOwner
  <2>3. \A o \in Operators : operator[o].pc = "idle"
    BY <2>1
  <2>4. \A e \in Drivers : e # d => driver'[e] = driver[e]
    BY <1>2, Gone DEF WriteOwner
  <2>. QED BY <2>1, <2>2, <2>3, <2>4
<1>3. ASSUME NEW d \in Drivers, ReleaseRead(d) PROVE LockInv'
  <2>1. driver[d].pc = "leave" /\ lock.by = d /\ operator' = operator /\ lock' = lock
    BY <1>3 DEF ReleaseRead
  <2>2. \A e \in Drivers : e # d => driver'[e] = driver[e]
    BY <1>3, Gone DEF ReleaseRead
  <2>. QED BY <2>1, <2>2
<1>4. ASSUME NEW d \in Drivers, Unlink(d) PROVE LockInv'
  BY <1>4, ActorsAssumption DEF Unlink, NoCall
<1>5. ASSUME NEW d \in Drivers, Die(d) PROVE LockInv'
  BY <1>5, ActorsAssumption DEF Die, NoCall
<1>6. ASSUME NEW o \in Operators, InspectLock(o) PROVE LockInv'
  BY <1>6, ActorsAssumption DEF InspectLock, Removal
<1>7. ASSUME NEW o \in Operators, OpReleaseRead(o) PROVE LockInv'
  BY <1>7, ActorsAssumption DEF OpReleaseRead, Removal, NoRemoval
<1>8. ASSUME NEW o \in Operators, OpUnlink(o) PROVE LockInv'
  BY <1>8, ActorsAssumption DEF OpUnlink, Removal, NoRemoval
<1>9. ASSUME NEW d \in Drivers, driver[d].pc \in Holding, lock' = lock,
             operator' = operator, \A e \in Drivers : e # d => driver'[e] = driver[e]
      PROVE  LockInv'
  BY <1>9
<1>10. ASSUME NEW d \in Drivers, Working(d) PROVE LockInv'
  BY <1>10, <1>9, WorkingHolds
<1>11. ASSUME Reviewing PROVE LockInv'
  BY <1>11 DEF Reviewing, RecordWaiver, RevokeDecision, LoadTask, ReviewGate,
               ReviewAccept, Downgrade
<1>12. CASE UNCHANGED vars
  BY <1>12 DEF vars
<1>. QED
  BY <1>1, <1>2, <1>3, <1>4, <1>5, <1>6, <1>7, <1>8, <1>10, <1>11, <1>12
  DEF Next, Drive, Operate, Working, Reviewing

-----------------------------------------------------------------------------
(* The task files.                                                           *)

\* A step that writes no task and no ledger entry, and that learns nothing
\* about a task it did not know before.
LEMMA QuietStep ==
  ASSUME CInv, NEW d \in Drivers, NEW c \in Call, driver' = [driver EXCEPT ![d] = c],
         UNCHANGED <<disk, ledger, past, people>>, lock' \in Lock,
         c.pc \in Claiming =>
           /\ driver[d].pc \in Claiming
           /\ c.task = driver[d].task /\ c.rev = driver[d].rev
           /\ c.pc \in {"execute", "report"} => driver[d].pc \in {"execute", "report"}
           /\ c.pc = "check" => driver[d].pc = "check"
  PROVE  CInv'
<1> USE DEF CInv
<1>1. /\ driver'[d] = c
      /\ \A e \in Drivers : e # d => driver'[e] = driver[e]
  BY DEF TypeOK
<1>2. TypeOK'
  BY DEF TypeOK, people
<1>3. ClaimsHold'
  BY <1>1 DEF ClaimsHold, ClaimHolds
<1>4. SnapshotsHold' /\ PastIsPast' /\ ResultIsOwn'
  BY DEF SnapshotsHold, SnapshotHolds, PastIsPast, ResultIsOwn, people
<1>5. ExecutedOnce'
  BY <1>1 DEF ExecutedOnce, Claiming
<1>6. AcceptedIsAuthorised'
  BY DEF AcceptedIsAuthorised, Stands
<1>. QED BY <1>2, <1>3, <1>4, <1>5, <1>6

\* Appending to the ledger leaves every past acceptance authorised.
LEMMA AppendStep ==
  ASSUME CInv, NEW e \in Entry, ledger' = Append(ledger, e), UNCHANGED <<disk, past>>
  PROVE  ledger' \in Seq(Entry) /\ PastIsPast' /\ AcceptedIsAuthorised'
<1> USE DEF CInv
<1>1. /\ ledger \in Seq(Entry) /\ ledger' \in Seq(Entry)
      /\ Len(ledger') = Len(ledger) + 1
      /\ \A i \in 1..Len(ledger) : ledger'[i] = ledger[i]
  BY DEF TypeOK
<1>2. \A t \in Tasks : past[t].at \in Nat /\ past[t].at <= Len(ledger)
  BY DEF TypeOK, Past, PastIsPast
<1>3. PastIsPast'
  BY <1>1, <1>2 DEF PastIsPast
<1>4. AcceptedIsAuthorised'
  <2> SUFFICES ASSUME NEW t \in Tasks, disk[t].rung = "accepted"
               PROVE  /\ Stands(past[t].verdict, "gate", t, past[t].at)'
                      /\ ledger'[past[t].verdict].status \in {"pass", "waived"}
                      /\ ledger'[past[t].verdict].status = "waived" =>
                           Stands(ledger[past[t].verdict].ref, "waiver", t, past[t].at)'
                      /\ ledger'[past[t].verdict] = ledger[past[t].verdict]
    BY DEF AcceptedIsAuthorised, Stands
  <2>1. \A i \in 1..past[t].at : ledger'[i] = ledger[i]
    BY <1>1, <1>2
  <2>2. ASSUME NEW i, NEW kind, Stands(i, kind, t, past[t].at)
        PROVE  Stands(i, kind, t, past[t].at)'
    BY <2>1, <2>2 DEF Stands
  <2>3. past[t].verdict \in 1..past[t].at
    BY DEF AcceptedIsAuthorised, Stands
  <2>. QED BY <2>1, <2>2, <2>3 DEF AcceptedIsAuthorised
<1>. QED BY <1>1, <1>3, <1>4

\* Writing the next revision of a task.
LEMMA WriteStep ==
  ASSUME CInv, NEW t \in Tasks, NEW rung \in Rungs, disk' = Written(t, rung),
         ledger' = ledger, past' \in [Tasks -> Past],
         \A u \in Tasks : u # t => past'[u] = past[u],
         past'[t].at <= Len(ledger),
         Rank[rung] >= 2 => past'[t].source = past'[t].runner,
         rung = "accepted" =>
           /\ Stands(past[t].verdict, "gate", t, past[t].at)'
           /\ ledger[past'[t].verdict].status \in {"pass", "waived"}
           /\ ledger[past'[t].verdict].status = "waived" =>
                Stands(ledger[past[t].verdict].ref, "waiver", t, past[t].at)'
  PROVE  /\ disk' \in [Tasks -> Task]
         /\ disk'[t] = [rung |-> rung, rev |-> disk[t].rev + 1]
         /\ PastIsPast' /\ ResultIsOwn' /\ AcceptedIsAuthorised'
         /\ \A e \in Drivers : driver'[e] = driver[e] => ClaimHolds(e)'
         /\ \A r \in Reviewers : reviewer'[r] = reviewer[r] => SnapshotHolds(r)'
         /\ \A e \in Drivers : driver[e].pc \in Claiming /\ driver[e].task = t =>
              driver[e].rev < disk[t].rev + 1
<1> USE DEF CInv
<1>1. /\ disk \in [Tasks -> Task] /\ disk' \in [Tasks -> Task]
      /\ disk'[t] = [rung |-> rung, rev |-> disk[t].rev + 1]
      /\ \A u \in Tasks : u # t => disk'[u] = disk[u]
  BY DEF TypeOK, Task, Written
<1>2. \A u \in Tasks : disk[u].rev \in Nat
  BY <1>1 DEF Task
<1>3. PastIsPast'
  BY DEF PastIsPast
<1>4. ResultIsOwn'
  BY <1>1 DEF ResultIsOwn, Rank
<1>5. AcceptedIsAuthorised'
  <2> SUFFICES ASSUME NEW u \in Tasks, u # t, disk'[u].rung = "accepted"
               PROVE  /\ Stands(past[u].verdict, "gate", u, past[u].at)'
                      /\ ledger[past[u].verdict].status \in {"pass", "waived"}
                      /\ ledger[past[u].verdict].status = "waived" =>
                           Stands(ledger[past[u].verdict].ref, "waiver", u, past[u].at)'
                      /\ past'[u] = past[u]
    BY <1>1 DEF AcceptedIsAuthorised
  <2>. QED BY <1>1 DEF AcceptedIsAuthorised, Stands
<1>6. \A e \in Drivers : driver[e].pc \in Claiming =>
        driver[e].task \in Tasks /\ driver[e].rev \in Nat
                                 /\ driver[e].rev <= disk[driver[e].task].rev
  BY DEF TypeOK, Call, ClaimsHold, ClaimHolds
<1>7. \A r \in Reviewers : reviewer[r].pc # "idle" =>
        reviewer[r].task \in Tasks /\ reviewer[r].rev \in Nat
                                   /\ reviewer[r].rev <= disk[reviewer[r].task].rev
  BY DEF TypeOK, Review, SnapshotsHold, SnapshotHolds
<1>8. ASSUME NEW e \in Drivers, driver'[e] = driver[e] PROVE ClaimHolds(e)'
  <2> SUFFICES ASSUME driver[e].pc \in Claiming PROVE ClaimHolds(e)'
    BY <1>8 DEF ClaimHolds
  <2> DEFINE u == driver[e].task
  <2>1. u \in Tasks /\ driver[e].rev \in Nat /\ driver[e].rev <= disk[u].rev
    BY <1>6
  <2>2. CASE u = t
    <3>1. disk'[u].rev = disk[u].rev + 1
      BY <1>1, <2>2
    <3>2. driver[e].rev <= disk'[u].rev /\ driver[e].rev # disk'[u].rev
      BY <1>2, <2>1, <3>1
    <3>. QED BY <1>8, <2>1, <3>2 DEF ClaimHolds
  <2>3. CASE u # t
    <3>1. disk'[u] = disk[u] /\ past'[u] = past[u]
      BY <1>1, <2>1, <2>3
    <3>2. ClaimHolds(e)
      BY DEF ClaimsHold
    <3>. QED BY <1>8, <3>1, <3>2 DEF ClaimHolds
  <2>. QED BY <2>2, <2>3
<1>9. ASSUME NEW r \in Reviewers, reviewer'[r] = reviewer[r] PROVE SnapshotHolds(r)'
  <2> SUFFICES ASSUME reviewer[r].pc # "idle" PROVE SnapshotHolds(r)'
    BY <1>9 DEF SnapshotHolds
  <2> DEFINE u == reviewer[r].task
  <2>1. u \in Tasks /\ reviewer[r].rev \in Nat /\ reviewer[r].rev <= disk[u].rev
    BY <1>7
  <2>2. CASE u = t
    <3>1. disk'[u].rev = disk[u].rev + 1
      BY <1>1, <2>2
    <3>2. reviewer[r].rev <= disk'[u].rev /\ reviewer[r].rev # disk'[u].rev
      BY <1>2, <2>1, <3>1
    <3>. QED BY <1>9, <2>1, <3>2 DEF SnapshotHolds
  <2>3. CASE u # t
    <3>1. disk'[u] = disk[u]
      BY <1>1, <2>1, <2>3
    <3>2. SnapshotHolds(r)
      BY DEF SnapshotsHold
    <3>. QED BY <1>9, <3>1, <3>2 DEF SnapshotHolds
  <2>. QED BY <2>2, <2>3
<1>. QED BY <1>1, <1>2, <1>3, <1>4, <1>5, <1>6, <1>8, <1>9

\* A driver that only moves on.
LEMMA GoStep ==
  ASSUME CInv, NEW d \in Drivers, NEW pc \in Counters, Go(d, pc),
         UNCHANGED <<disk, ledger, past, people>>, lock' \in Lock,
         pc \notin Claiming
  PROVE  CInv'
<1>1. driver[d] \in Call
  BY DEF CInv, TypeOK
<1>2. [driver[d] EXCEPT !.pc = pc] \in Call /\ [driver[d] EXCEPT !.pc = pc].pc = pc
  BY <1>1 DEF Call
<1>3. driver' = [driver EXCEPT ![d] = [driver[d] EXCEPT !.pc = pc]]
  BY DEF Go
<1>. QED BY <1>2, <1>3, QuietStep

\* The states of a driver between calls and after its death.
LEMMA NoCallIsCall == NoCall \in Call /\ NoCall.pc = "idle" /\ [NoCall EXCEPT !.pc = "dead"] \in Call
                      /\ [NoCall EXCEPT !.pc = "dead"].pc = "dead"
  BY DEF NoCall, Call, Counters, Outcomes

\* The steps of a call that write neither a task nor the ledger.
LEMMA QuietDriver ==
  ASSUME CInv, NEW d \in Drivers,
         \/ Acquire(d) \/ WriteOwner(d) \/ LoadCampaign(d) \/ Execute(d)
         \/ LeaveUnchecked(d) \/ Finish(d) \/ Raise(d) \/ ReleaseRead(d)
         \/ Unlink(d) \/ Die(d)
  PROVE  CInv'
<1>0. lock \in Lock /\ driver[d] \in Call
  BY DEF CInv, TypeOK
<1> USE DEF Claiming
<1>1. CASE Acquire(d)
  BY <1>1, GoStep DEF Acquire, Lock, Anybody, Counters
<1>2. CASE WriteOwner(d)
  BY <1>0, <1>2, GoStep DEF WriteOwner, Lock, Counters
<1>3. CASE LoadCampaign(d)
  <2> DEFINE jobs == {[task |-> t, rev |-> disk[t].rev] : t \in {u \in Tasks : Ready(u)}}
             c == [driver[d] EXCEPT !.pc = "next", !.todo = jobs]
  <2>1. jobs \in SUBSET [task : Tasks, rev : Nat]
    BY DEF CInv, TypeOK, Task
  <2>2. c \in Call /\ c.pc = "next"
    BY <1>0, <2>1 DEF Call, Counters
  <2>3. driver' = [driver EXCEPT ![d] = c]
    BY <1>3 DEF LoadCampaign
  <2> HIDE DEF c
  <2>. QED BY <1>0, <1>3, <2>2, <2>3, QuietStep DEF LoadCampaign
<1>4. CASE Execute(d)
  <2>1. PICK o \in Outcomes :
          driver' = [driver EXCEPT ![d] = [driver[d] EXCEPT !.pc = "report", !.outcome = o]]
    BY <1>4 DEF Execute
  <2> DEFINE c == [driver[d] EXCEPT !.pc = "report", !.outcome = o]
  <2>2. c \in Call /\ c.pc = "report" /\ c.task = driver[d].task /\ c.rev = driver[d].rev
    BY <1>0 DEF Call, Counters
  <2>3. driver' = [driver EXCEPT ![d] = c]
    BY <2>1
  <2> HIDE DEF c
  <2>. QED BY <1>0, <1>4, <2>2, <2>3, QuietStep DEF Execute
<1>5. CASE LeaveUnchecked(d) \/ Finish(d) \/ Raise(d)
  BY <1>0, <1>5, GoStep DEF LeaveUnchecked, Finish, Raise, Counters
<1>6. CASE ReleaseRead(d)
  BY <1>0, <1>6, GoStep, QuietStep, NoCallIsCall DEF ReleaseRead, Counters
<1>7. CASE Unlink(d)
  BY <1>7, QuietStep, NoCallIsCall DEF Unlink, Lock, NoLock, Anybody
<1>8. CASE Die(d)
  BY <1>0, <1>8, QuietStep, NoCallIsCall DEF Die
<1>. QED BY <1>1, <1>2, <1>3, <1>4, <1>5, <1>6, <1>7, <1>8

\* claim_task.
LEMMA ClaimStep == ASSUME CInv, NEW d \in Drivers, ClaimTask(d) PROVE CInv'
<1>0. lock \in Lock /\ driver \in [Drivers -> Call] /\ past \in [Tasks -> Past]
  BY DEF CInv, TypeOK
<1>1. PICK job \in driver[d].todo :
        IF UnchangedSince(job.task, job.rev) /\ disk[job.task].rung = "pending"
        THEN /\ disk' = Written(job.task, "running")
             /\ past' = [past EXCEPT ![job.task].runner = d, ![job.task].source = Nobody]
             /\ driver' = [driver EXCEPT ![d].pc = "execute", ![d].task = job.task,
                                         ![d].rev = job.rev + 1,
                                         ![d].todo = @ \ {job}]
        ELSE Go(d, "leave") /\ UNCHANGED <<disk, past>>
  BY DEF ClaimTask
<1>2. ledger' = ledger /\ lock' = lock /\ UNCHANGED people
  BY DEF ClaimTask
<1>3. job \in [task : Tasks, rev : Nat]
  BY <1>0 DEF Call
<1>4. CASE ~(UnchangedSince(job.task, job.rev) /\ disk[job.task].rung = "pending")
  BY <1>0, <1>1, <1>2, <1>4, GoStep DEF Counters, Claiming
<1>5. CASE UnchangedSince(job.task, job.rev) /\ disk[job.task].rung = "pending"
  <2> DEFINE t == job.task
             c == [driver[d] EXCEPT !.pc = "execute", !.task = t, !.rev = job.rev + 1,
                                    !.todo = @ \ {job}]
             q == [past[t] EXCEPT !.runner = d, !.source = Nobody]
  <2>1. t \in Tasks /\ job.rev \in Nat /\ disk[t].rev = job.rev
    BY <1>3, <1>5 DEF UnchangedSince
  <2>2. c \in Call /\ c.pc = "execute" /\ c.task = t /\ c.rev = disk[t].rev + 1
    <3>1. driver[d].todo \ {job} \in SUBSET [task : Tasks, rev : Nat]
      BY <1>0 DEF Call
    <3>2. driver[d] \in Call /\ job.rev + 1 \in Nat /\ "execute" \in Counters
      BY <1>0, <2>1 DEF Counters
    <3>. QED BY <2>1, <3>1, <3>2 DEF Call
  <2>3. driver' = [driver EXCEPT ![d] = c]
    BY <1>1, <1>5
  <2>4. q \in Past /\ q.runner = d /\ q.at = past[t].at
    BY <1>0, <2>1 DEF Past, Anybody
  <2>5. past' = [past EXCEPT ![t] = q]
    BY <1>1, <1>5
  <2> HIDE DEF c, q
  <2>6. /\ driver'[d] = c /\ \A e \in Drivers : e # d => driver'[e] = driver[e]
        /\ past'[t] = q /\ \A u \in Tasks : u # t => past'[u] = past[u]
        /\ past' \in [Tasks -> Past] /\ driver' \in [Drivers -> Call]
    BY <1>0, <2>1, <2>2, <2>3, <2>4, <2>5
  <2>7. past'[t].at <= Len(ledger)
    BY <2>1, <2>4, <2>6 DEF CInv, PastIsPast
  <2>8. disk' = Written(t, "running")
    BY <1>1, <1>5
  <2>9. /\ disk' \in [Tasks -> Task]
        /\ disk'[t] = [rung |-> "running", rev |-> disk[t].rev + 1]
        /\ PastIsPast' /\ ResultIsOwn' /\ AcceptedIsAuthorised'
        /\ \A e \in Drivers : e # d => ClaimHolds(e)'
        /\ SnapshotsHold'
        /\ \A e \in Drivers : driver[e].pc \in Claiming /\ driver[e].task = t =>
             driver[e].rev < disk[t].rev + 1
    <3>1. "running" \in Rungs /\ ~(Rank["running"] >= 2) /\ "running" # "accepted"
      BY DEF Rungs, Rank
    <3>2. \A r \in Reviewers : reviewer'[r] = reviewer[r]
      BY <1>2 DEF people
    <3>. QED BY <1>2, <2>1, <2>6, <2>7, <2>8, <3>1, <3>2, WriteStep DEF SnapshotsHold
  <2>10. ClaimHolds(d)'
    BY <2>1, <2>2, <2>4, <2>6, <2>9 DEF ClaimHolds
  <2>11. ClaimsHold'
    BY <2>9, <2>10 DEF ClaimsHold
  <2>12. ExecutedOnce'
    <3>1. \A e \in Drivers : driver[e].pc \in Claiming /\ driver[e].task = t =>
            driver[e].rev # disk[t].rev + 1
      BY <2>1, <2>9 DEF CInv, TypeOK, Call
    <3>. QED BY <2>2, <2>6, <3>1 DEF CInv, ExecutedOnce, Claiming
  <2>13. TypeOK'
    BY <1>2, <2>6, <2>9 DEF CInv, TypeOK, people
  <2>. QED BY <2>9, <2>11, <2>12, <2>13 DEF CInv
<1>. QED BY <1>4, <1>5

\* The other writes of a driver that goes on with the task it claimed.
LEMMA DriverWrite ==
  ASSUME CInv, NEW d \in Drivers, driver[d].pc \in Claiming,
         NEW t \in Tasks, t = driver[d].task, driver[d].rev = disk[t].rev,
         NEW rung \in Rungs, NEW c \in Call, NEW q \in Past,
         disk' = Written(t, rung), driver' = [driver EXCEPT ![d] = c],
         past' = [past EXCEPT ![t] = q], UNCHANGED <<ledger, lock, people>>,
         c.pc \notin {"execute", "report"},
         c.pc \in Claiming => c.task = t /\ c.rev = disk[t].rev + 1,
         c.pc = "check" => rung = "completed",
         q.at <= Len(ledger), Rank[rung] >= 2 => q.source = q.runner,
         rung = "accepted" =>
           /\ Stands(past[t].verdict, "gate", t, past[t].at)'
           /\ ledger[q.verdict].status \in {"pass", "waived"}
           /\ ledger[q.verdict].status = "waived" =>
                Stands(ledger[past[t].verdict].ref, "waiver", t, past[t].at)'
  PROVE  CInv'
<1>1. disk[t].rev \in Nat
  BY DEF CInv, TypeOK, Task
<1>2. /\ driver'[d] = c /\ \A e \in Drivers : e # d => driver'[e] = driver[e]
      /\ past'[t] = q /\ \A u \in Tasks : u # t => past'[u] = past[u]
      /\ past' \in [Tasks -> Past] /\ driver' \in [Drivers -> Call]
  BY <1>1 DEF CInv, TypeOK
<1>3. /\ disk' \in [Tasks -> Task]
      /\ disk'[t] = [rung |-> rung, rev |-> disk[t].rev + 1]
      /\ PastIsPast' /\ ResultIsOwn' /\ AcceptedIsAuthorised'
      /\ \A e \in Drivers : e # d => ClaimHolds(e)'
      /\ SnapshotsHold'
  <2>1. \A r \in Reviewers : reviewer'[r] = reviewer[r]
    BY DEF people
  <2>2. past'[t].at <= Len(ledger) /\ (Rank[rung] >= 2 => past'[t].source = past'[t].runner)
    BY <1>2
  <2>3. rung = "accepted" =>
           /\ Stands(past[t].verdict, "gate", t, past[t].at)'
           /\ ledger[past'[t].verdict].status \in {"pass", "waived"}
           /\ ledger[past'[t].verdict].status = "waived" =>
                Stands(ledger[past[t].verdict].ref, "waiver", t, past[t].at)'
    BY <1>2
  <2>. QED BY <1>2, <2>1, <2>2, <2>3, WriteStep DEF SnapshotsHold
<1>4. ClaimsHold'
  BY <1>1, <1>2, <1>3 DEF ClaimsHold, ClaimHolds
<1>5. ExecutedOnce'
  BY <1>2 DEF CInv, ExecutedOnce
<1>6. TypeOK'
  BY <1>2, <1>3 DEF CInv, TypeOK, people
<1>. QED BY <1>3, <1>4, <1>5, <1>6 DEF CInv

\* What is known when a driver compares revisions and they agree.
LEMMA Claimed ==
  ASSUME CInv, NEW d \in Drivers, driver[d].pc \in Claiming
  PROVE  /\ driver[d] \in Call /\ lock \in Lock
         /\ driver[d].task \in Tasks
         /\ disk[driver[d].task].rev \in Nat
         /\ past[driver[d].task] \in Past
         /\ past[driver[d].task].at <= Len(ledger)
         /\ driver[d].rev = disk[driver[d].task].rev =>
              /\ driver[d].pc \in {"execute", "report"} =>
                   past[driver[d].task].runner = d
              /\ driver[d].pc = "check" => disk[driver[d].task].rung = "completed"
  BY DEF CInv, TypeOK, Task, ClaimsHold, ClaimHolds, PastIsPast

\* The execution results and the validation a call records (persist_task).
LEMMA RecordStep ==
  ASSUME CInv, NEW d \in Drivers,
         RecordFailed(d) \/ RecordCompleted(d) \/ RecordValidated(d)
  PROVE  CInv'
<1>1. PICK t \in Tasks : t = driver[d].task
  <2>1. driver[d].pc \in Claiming
    BY DEF RecordFailed, RecordCompleted, RecordValidated, Claiming
  <2>. QED BY <2>1, Claimed
<1>2. /\ driver[d].pc \in Claiming /\ UNCHANGED <<ledger, lock, people>>
      /\ driver[d] \in Call /\ lock \in Lock /\ disk[t].rev \in Nat
      /\ past[t] \in Past /\ past[t].at <= Len(ledger) /\ past \in [Tasks -> Past]
  BY <1>1, Claimed DEF RecordFailed, RecordCompleted, RecordValidated, Claiming, CInv, TypeOK
<1>3. CASE ~UnchangedSince(t, driver[d].rev)
  <2>1. Go(d, "leave") /\ UNCHANGED <<disk, past>>
    BY <1>1, <1>3 DEF RecordFailed, RecordCompleted, RecordValidated, Swap
  <2>. QED BY <1>2, <2>1, GoStep DEF Counters, Claiming
<1>4. ASSUME UnchangedSince(t, driver[d].rev) PROVE CInv'
  <2>1. driver[d].rev = disk[t].rev
    BY <1>4 DEF UnchangedSince
  <2>2. ASSUME NEW pc \in {"next", "check", "gate", "leave"}
        PROVE  LET c == [driver[d] EXCEPT !.pc = pc, !.rev = @ + 1] IN
               c \in Call /\ c.pc = pc /\ c.task = t /\ c.rev = disk[t].rev + 1
    <3>1. driver[d].rev + 1 \in Nat /\ pc \in Counters
      BY <1>2, <2>1, <2>2 DEF Counters
    <3>2. [driver[d] EXCEPT !.pc = pc, !.rev = @ + 1] \in Call
      BY <1>2, <3>1 DEF Call
    <3>. QED BY <1>1, <1>2, <2>1, <3>2 DEF Call
  <2>3. past' = [past EXCEPT ![t] = past[t]] \/ ~(past' = past)
    BY <1>2
  <2>4. CASE RecordFailed(d)
    <3> DEFINE c == [driver[d] EXCEPT !.pc = "next", !.rev = @ + 1]
    <3>1. driver' = [driver EXCEPT ![d] = c] /\ disk' = Written(t, "failed") /\ past' = past
      BY <1>1, <1>4, <2>4 DEF RecordFailed, Swap
    <3>2. c \in Call /\ c.pc = "next"
      BY <2>2
    <3> HIDE DEF c
    <3>3. "failed" \in Rungs /\ ~(Rank["failed"] >= 2)
      BY DEF Rungs, Rank
    <3>. QED BY <1>1, <1>2, <2>1, <2>3, <3>1, <3>2, <3>3, DriverWrite DEF Claiming
  <2>5. CASE RecordCompleted(d)
    <3> DEFINE c == [driver[d] EXCEPT !.pc = "check", !.rev = @ + 1]
               q == [past[t] EXCEPT !.source = d]
    <3>1. driver' = [driver EXCEPT ![d] = c] /\ disk' = Written(t, "completed")
      BY <1>1, <1>4, <2>5 DEF RecordCompleted, Swap
    <3>2. c \in Call /\ c.pc = "check" /\ c.task = t /\ c.rev = disk[t].rev + 1
      BY <2>2
    <3>3. disk' # disk
      BY <1>2, <3>1 DEF Written, CInv, TypeOK, Task
    <3>4. past' = [past EXCEPT ![t] = q]
      BY <1>1, <1>2, <2>5, <3>3 DEF RecordCompleted
    <3>5. q \in Past /\ q.at <= Len(ledger) /\ q.source = q.runner
      BY <1>1, <1>2, <2>1, <2>5, Claimed DEF RecordCompleted, Past, Anybody
    <3> HIDE DEF c, q
    <3>6. "completed" \in Rungs
      BY DEF Rungs
    <3>. QED BY <1>1, <1>2, <2>1, <3>1, <3>2, <3>4, <3>5, <3>6, DriverWrite DEF Claiming
  <2>6. CASE RecordValidated(d)
    <3>1. PICK pc \in {"leave", "gate"} :
            /\ driver' = [driver EXCEPT ![d] = [driver[d] EXCEPT !.pc = pc, !.rev = @ + 1]]
            /\ disk' = Written(t, "validated") /\ past' = past
      BY <1>1, <1>4, <2>6 DEF RecordValidated, Swap
    <3> DEFINE c == [driver[d] EXCEPT !.pc = pc, !.rev = @ + 1]
    <3>2. c \in Call /\ c.pc = pc /\ c.task = t /\ c.rev = disk[t].rev + 1
      BY <2>2
    <3>3. driver' = [driver EXCEPT ![d] = c]
      BY <3>1
    <3> HIDE DEF c
    <3>4. past[t].source = past[t].runner
      <4>1. disk[t].rung = "completed"
        BY <1>1, <1>2, <2>1, <2>6, Claimed DEF RecordValidated
      <4>. QED BY <4>1 DEF CInv, ResultIsOwn, Rank
    <3>5. "validated" \in Rungs
      BY DEF Rungs
    <3> DEFINE q == past[t]
    <3>6. /\ "validated" # "accepted" /\ past' = [past EXCEPT ![t] = q]
          /\ q \in Past /\ q.at <= Len(ledger) /\ q.source = q.runner
      BY <1>2, <2>3, <3>1, <3>4
    <3> HIDE DEF q
    <3>7. /\ c.pc \notin {"execute", "report"} /\ c.pc # "check"
          /\ c.pc \in Claiming => c.task = t /\ c.rev = disk[t].rev + 1
      BY <3>2
    <3>8. disk' = Written(t, "validated") /\ UNCHANGED <<ledger, lock, people>>
      BY <1>2, <3>1
    <3>. QED BY <1>1, <1>2, <2>1, <3>2, <3>3, <3>5, <3>6, <3>7, <3>8, DriverWrite
  <2>. QED BY <2>4, <2>5, <2>6
<1>. QED BY <1>3, <1>4

\* What promote_accepted verified under the locks is what was authorised.
LEMMA AcceptingStands ==
  ASSUME CInv, NEW t \in Tasks, NEW g \in Nat, Acceptable(g, t, disk[t].rev),
         Accepting(g, t), ledger' = ledger
  PROVE  /\ past' = [past EXCEPT ![t] = [past[t] EXCEPT !.verdict = g, !.at = Len(ledger)]]
         /\ [past[t] EXCEPT !.verdict = g, !.at = Len(ledger)] \in Past
         /\ past'[t].verdict = g /\ past'[t].at = Len(ledger)
         /\ past'[t].source = past'[t].runner
         /\ Stands(past[t].verdict, "gate", t, past[t].at)'
         /\ ledger[g].status \in {"pass", "waived"}
         /\ ledger[g].status = "waived" =>
              Stands(ledger[past[t].verdict].ref, "waiver", t, past[t].at)'
<1>1. /\ past \in [Tasks -> Past] /\ disk \in [Tasks -> Task] /\ Len(ledger) \in Nat
      /\ disk[t].rung = "validated" /\ VerdictHolds(g, t, disk[t].rev, Len(ledger))
  BY DEF CInv, TypeOK, Acceptable
<1>2. past' = [past EXCEPT ![t] = [past[t] EXCEPT !.verdict = g, !.at = Len(ledger)]]
  BY DEF Accepting
<1>3. /\ [past[t] EXCEPT !.verdict = g, !.at = Len(ledger)] \in Past
      /\ past'[t].verdict = g /\ past'[t].at = Len(ledger)
      /\ past'[t].source = past[t].source /\ past'[t].runner = past[t].runner
  BY <1>1, <1>2 DEF Past
<1>4. past[t].source = past[t].runner
  BY <1>1 DEF CInv, ResultIsOwn, Rank
<1>5. disk'[t].rev = disk[t].rev + 1
  BY <1>1 DEF Accepting, Written, Task
<1>6. Stands(past[t].verdict, "gate", t, past[t].at)'
  BY <1>1, <1>3, <1>5 DEF VerdictHolds, Revoked, Stands
<1>7. ledger[g].status = "waived" =>
        Stands(ledger[past[t].verdict].ref, "waiver", t, past[t].at)'
  BY <1>1, <1>3, <1>5 DEF VerdictHolds, WaiverHolds, Revoked, Stands
<1>. QED BY <1>1, <1>2, <1>3, <1>4, <1>6, <1>7 DEF VerdictHolds

\* promote_accepted by a driver.
LEMMA PromoteStep == ASSUME CInv, NEW d \in Drivers, PromoteAccepted(d) PROVE CInv'
<1>1. PICK t \in Tasks, g \in Nat : t = driver[d].task /\ g = driver[d].verdict
  BY Claimed DEF PromoteAccepted, Claiming, Call
<1>2. /\ driver[d].pc = "accept" /\ driver[d].pc \in Claiming
      /\ UNCHANGED <<ledger, lock, people>> /\ driver[d] \in Call /\ g \in Nat
      /\ lock \in Lock
  BY <1>1, Claimed DEF PromoteAccepted, Claiming, Call
<1>3. CASE ~Acceptable(g, t, driver[d].rev)
  BY <1>1, <1>2, <1>3, GoStep DEF PromoteAccepted, Counters, Claiming
<1>4. CASE Acceptable(g, t, driver[d].rev)
  <2>1. Accepting(g, t) /\ Go(d, "next") /\ driver[d].rev = disk[t].rev
    BY <1>1, <1>4 DEF PromoteAccepted, Acceptable
  <2>2. PICK q : q = [past[t] EXCEPT !.verdict = g, !.at = Len(ledger)]
    OBVIOUS
  <2>3. /\ past' = [past EXCEPT ![t] = q] /\ q \in Past
        /\ past'[t].verdict = g /\ past'[t].at = Len(ledger)
        /\ past'[t].source = past'[t].runner
        /\ Stands(past[t].verdict, "gate", t, past[t].at)'
        /\ ledger[g].status \in {"pass", "waived"}
        /\ ledger[g].status = "waived" =>
             Stands(ledger[past[t].verdict].ref, "waiver", t, past[t].at)'
    BY <1>2, <1>4, <2>1, <2>2, AcceptingStands
  <2>4. q.verdict = g /\ q.at <= Len(ledger) /\ q.source = q.runner
    BY <2>3 DEF CInv, TypeOK
  <2>5. PICK c \in Call : driver' = [driver EXCEPT ![d] = c] /\ c.pc = "next"
    <3>1. "next" \in Counters
      BY DEF Counters
    <3>2. [driver[d] EXCEPT !.pc = "next"] \in Call /\ [driver[d] EXCEPT !.pc = "next"].pc = "next"
      BY <1>2, <3>1 DEF Call
    <3>. QED BY <2>1, <3>2 DEF Go
  <2>6. disk' = Written(t, "accepted") /\ "accepted" \in Rungs
    BY <2>1 DEF Accepting, Rungs
  <2>. QED BY <1>1, <1>2, <2>1, <2>3, <2>4, <2>5, <2>6, DriverWrite DEF Claiming
<1>. QED BY <1>3, <1>4

\* accept_gate by a driver.
LEMMA GateStep == ASSUME CInv, NEW d \in Drivers, AcceptGate(d) PROVE CInv'
<1>1. /\ driver[d].pc \in Claiming /\ driver[d].pc = "gate"
      /\ UNCHANGED <<disk, lock, past, people>>
  BY DEF AcceptGate, Claiming
<1>2. /\ driver[d] \in Call /\ driver[d].task \in Tasks /\ driver[d].rev \in Nat
      /\ Len(ledger) \in Nat /\ driver \in [Drivers -> Call]
  BY <1>1, Claimed DEF Call, CInv, TypeOK
<1>3. PICK e \in Entry : ledger' = Append(ledger, e)
  BY <1>2 DEF AcceptGate, Append1, Entry
<1>4. PICK pc \in {"accept", "next"} : driver' =
        [driver EXCEPT ![d] = [driver[d] EXCEPT !.pc = pc, !.verdict = Len(ledger) + 1]]
  BY DEF AcceptGate
<1> DEFINE c == [driver[d] EXCEPT !.pc = pc, !.verdict = Len(ledger) + 1]
<1>5. c \in Call /\ c.pc = pc /\ c.task = driver[d].task /\ c.rev = driver[d].rev
  <2>1. pc \in Counters /\ Len(ledger) + 1 \in Nat
    BY <1>2 DEF Counters
  <2>. QED BY <1>2, <2>1 DEF Call
<1>6. driver' = [driver EXCEPT ![d] = c]
  BY <1>4
<1> HIDE DEF c
<1>7. driver'[d] = c /\ \A f \in Drivers : f # d => driver'[f] = driver[f]
  BY <1>2, <1>6
<1>8. ledger' \in Seq(Entry) /\ PastIsPast' /\ AcceptedIsAuthorised'
  BY <1>1, <1>3, AppendStep
<1>9. TypeOK'
  BY <1>1, <1>2, <1>5, <1>6, <1>8 DEF CInv, TypeOK, people
<1>10. ClaimsHold'
  BY <1>1, <1>5, <1>7 DEF CInv, ClaimsHold, ClaimHolds
<1>11. SnapshotsHold' /\ ResultIsOwn'
  BY <1>1 DEF CInv, SnapshotsHold, SnapshotHolds, ResultIsOwn, people
<1>12. ExecutedOnce'
  BY <1>5, <1>7 DEF CInv, ExecutedOnce
<1>. QED BY <1>8, <1>9, <1>10, <1>11, <1>12 DEF CInv

\* A reviewer writes, or finds a later revision and does not.
LEMMA ReviewerWrite ==
  ASSUME CInv, NEW r \in Reviewers, reviewer' = [reviewer EXCEPT ![r] = NoReview],
         UNCHANGED <<ledger, lock, driver, operator>>,
         \/ UNCHANGED <<disk, past>>
         \/ /\ disk' \in [Tasks -> Task] /\ past' \in [Tasks -> Past]
            /\ PastIsPast' /\ ResultIsOwn' /\ AcceptedIsAuthorised'
            /\ \A e \in Drivers : ClaimHolds(e)'
            /\ \A s \in Reviewers : reviewer'[s] = reviewer[s] => SnapshotHolds(s)'
  PROVE  CInv'
<1>1. NoReview \in Review /\ NoReview.pc = "idle" /\ reviewer \in [Reviewers -> Review]
  BY DEF NoReview, Review, Rungs, CInv, TypeOK
<1>2. /\ reviewer'[r] = NoReview /\ reviewer' \in [Reviewers -> Review]
      /\ \A s \in Reviewers : s # r => reviewer'[s] = reviewer[s]
  BY <1>1
<1>3. SnapshotHolds(r)'
  BY <1>1, <1>2 DEF SnapshotHolds
<1>4. ExecutedOnce'
  BY DEF CInv, ExecutedOnce
<1>5. CASE UNCHANGED <<disk, past>>
  <2>1. SnapshotsHold'
    BY <1>2, <1>3, <1>5 DEF CInv, SnapshotsHold, SnapshotHolds
  <2>. QED BY <1>2, <1>4, <1>5, <2>1 DEF CInv, TypeOK, ClaimsHold, ClaimHolds, PastIsPast,
                                        ResultIsOwn, AcceptedIsAuthorised, Stands
<1>6. CASE ~UNCHANGED <<disk, past>>
  <2>1. SnapshotsHold'
    BY <1>2, <1>3, <1>6 DEF SnapshotsHold
  <2>. QED BY <1>2, <1>4, <1>6, <2>1 DEF CInv, TypeOK, ClaimsHold
<1>. QED BY <1>5, <1>6

\* downgrade by a reviewer.
LEMMA DowngradeStep == ASSUME CInv, NEW r \in Reviewers, Downgrade(r) PROVE CInv'
<1>1. PICK t \in Tasks : t = reviewer[r].task
  BY DEF Downgrade, CInv, SnapshotsHold, SnapshotHolds
<1>2. /\ UNCHANGED <<ledger, lock, driver, operator, past>>
      /\ reviewer' = [reviewer EXCEPT ![r] = NoReview]
  BY DEF Downgrade
<1>3. PICK rung \in Rungs :
        /\ Rank[rung] < Rank[reviewer[r].rung]
        /\ IF UnchangedSince(t, reviewer[r].rev) THEN disk' = Written(t, rung)
                                                 ELSE UNCHANGED disk
  BY <1>1 DEF Downgrade
<1>4. CASE ~UnchangedSince(t, reviewer[r].rev)
  BY <1>2, <1>3, <1>4, ReviewerWrite
<1>5. CASE UnchangedSince(t, reviewer[r].rev)
  <2>1. Rank[rung] < Rank[disk[t].rung] /\ disk[t].rung \in Rungs
    BY <1>1, <1>3, <1>5 DEF Downgrade, UnchangedSince, CInv, TypeOK, Task, SnapshotsHold,
                            SnapshotHolds
  <2>2. rung # "accepted" /\ (Rank[rung] >= 2 => past[t].source = past[t].runner)
    BY <2>1 DEF CInv, ResultIsOwn, Rank, Rungs
  <2>3. past \in [Tasks -> Past] /\ past[t].at <= Len(ledger)
    BY DEF CInv, TypeOK, PastIsPast
  <2>4. disk' = Written(t, rung)
    BY <1>3, <1>5
  <2>5. /\ disk' \in [Tasks -> Task]
        /\ PastIsPast' /\ ResultIsOwn' /\ AcceptedIsAuthorised'
        /\ \A e \in Drivers : ClaimHolds(e)'
        /\ \A s \in Reviewers : reviewer'[s] = reviewer[s] => SnapshotHolds(s)'
    BY <1>2, <2>2, <2>3, <2>4, WriteStep
  <2>. QED BY <1>2, <2>3, <2>5, ReviewerWrite
<1>. QED BY <1>4, <1>5

\* promote_accepted by a reviewer.
LEMMA ReviewAcceptStep == ASSUME CInv, NEW r \in Reviewers, ReviewAccept(r) PROVE CInv'
<1>1. PICK t \in Tasks, g \in Nat : t = reviewer[r].task /\ g = reviewer[r].verdict
  BY DEF ReviewAccept, CInv, TypeOK, Review, SnapshotsHold, SnapshotHolds
<1>2. /\ UNCHANGED <<ledger, lock, driver, operator>>
      /\ reviewer' = [reviewer EXCEPT ![r] = NoReview]
  BY DEF ReviewAccept
<1>3. CASE UNCHANGED <<disk, past>>
  BY <1>2, <1>3, ReviewerWrite
<1>4. CASE Acceptable(g, t, reviewer[r].rev) /\ Accepting(g, t)
  <2>1. Acceptable(g, t, disk[t].rev)
    BY <1>4 DEF Acceptable
  <2>2. /\ past' \in [Tasks -> Past] /\ \A u \in Tasks : u # t => past'[u] = past[u]
        /\ past'[t].at <= Len(ledger) /\ past'[t].source = past'[t].runner
        /\ past'[t].verdict = g
        /\ Stands(past[t].verdict, "gate", t, past[t].at)'
        /\ ledger[g].status \in {"pass", "waived"}
        /\ ledger[g].status = "waived" =>
             Stands(ledger[past[t].verdict].ref, "waiver", t, past[t].at)'
    <3>1. past \in [Tasks -> Past] /\ Len(ledger) \in Nat /\ ledger' = ledger
      BY <1>2 DEF CInv, TypeOK
    <3>2. PICK q : q = [past[t] EXCEPT !.verdict = g, !.at = Len(ledger)]
      OBVIOUS
    <3>3. /\ past' = [past EXCEPT ![t] = q] /\ q \in Past
          /\ past'[t].verdict = g /\ past'[t].at = Len(ledger)
          /\ past'[t].source = past'[t].runner
          /\ Stands(past[t].verdict, "gate", t, past[t].at)'
          /\ ledger[g].status \in {"pass", "waived"}
          /\ ledger[g].status = "waived" =>
               Stands(ledger[past[t].verdict].ref, "waiver", t, past[t].at)'
      BY <1>4, <2>1, <3>1, <3>2, AcceptingStands
    <3>. QED BY <3>1, <3>3
  <2>3. disk' = Written(t, "accepted") /\ "accepted" \in Rungs
    BY <1>4 DEF Accepting, Rungs
  <2>4. /\ disk' \in [Tasks -> Task]
        /\ PastIsPast' /\ ResultIsOwn' /\ AcceptedIsAuthorised'
        /\ \A e \in Drivers : ClaimHolds(e)'
        /\ \A s \in Reviewers : reviewer'[s] = reviewer[s] => SnapshotHolds(s)'
    BY <1>2, <2>2, <2>3, WriteStep
  <2>. QED BY <1>2, <2>2, <2>4, ReviewerWrite
<1>. QED BY <1>1, <1>3, <1>4 DEF ReviewAccept

\* A reviewer loads a task.
LEMMA LoadStep == ASSUME CInv, NEW r \in Reviewers, LoadTask(r) PROVE CInv'
<1>1. UNCHANGED <<disk, ledger, lock, driver, operator, past>>
  BY DEF LoadTask
<1>2. /\ disk \in [Tasks -> Task] /\ reviewer \in [Reviewers -> Review]
      /\ Len(ledger) \in Nat
  BY DEF CInv, TypeOK
<1>3. PICK t \in Tasks : reviewer' = [reviewer EXCEPT ![r] =
        [pc |-> "loaded", task |-> t, rev |-> disk[t].rev, rung |-> disk[t].rung,
         seen |-> Len(ledger), verdict |-> 0]]
  BY DEF LoadTask
<1>4. reviewer' \in [Reviewers -> Review]
  BY <1>2, <1>3 DEF Review, Task
<1>5. SnapshotsHold'
  BY <1>1, <1>2, <1>3 DEF CInv, SnapshotsHold, SnapshotHolds, Task
<1>. QED BY <1>1, <1>4, <1>5
         DEF CInv, TypeOK, ClaimsHold, ClaimHolds, PastIsPast, ExecutedOnce, ResultIsOwn,
             AcceptedIsAuthorised, Stands

\* A waiver or a revocation enters the ledger.
LEMMA LedgerStep == ASSUME CInv, RecordWaiver \/ RevokeDecision PROVE CInv'
<1>1. UNCHANGED <<disk, lock, driver, operator, reviewer, past>>
  BY DEF RecordWaiver, RevokeDecision, people
<1>2. disk \in [Tasks -> Task] /\ ledger \in Seq(Entry)
  BY DEF CInv, TypeOK
<1>3. PICK e \in Entry : ledger' = Append(ledger, e)
  <2>1. CASE RecordWaiver
    BY <1>2, <2>1 DEF RecordWaiver, Append1, Entry, Task
  <2>2. CASE RevokeDecision
    <3>1. PICK i \in 1..Len(ledger) :
            Append1("revoked", ledger[i].task, ledger[i].rev, "none", i)
      BY <2>2 DEF RevokeDecision
    <3>2. ledger[i] \in Entry /\ i \in Nat
      BY <1>2
    <3>. QED BY <3>1, <3>2 DEF Append1, Entry
  <2>. QED BY <2>1, <2>2
<1>4. ledger' \in Seq(Entry) /\ PastIsPast' /\ AcceptedIsAuthorised'
  BY <1>1, <1>3, AppendStep
<1>. QED BY <1>1, <1>4
         DEF CInv, TypeOK, ClaimsHold, ClaimHolds, SnapshotsHold, SnapshotHolds,
             ExecutedOnce, ResultIsOwn

\* A reviewer's verdict enters the ledger.
LEMMA VerdictStep == ASSUME CInv, NEW r \in Reviewers, ReviewGate(r) PROVE CInv'
<1>1. UNCHANGED <<disk, lock, driver, operator, past>>
  BY DEF ReviewGate
<1>2. /\ ledger \in Seq(Entry) /\ Len(ledger) \in Nat
      /\ reviewer \in [Reviewers -> Review] /\ reviewer[r] \in Review
  BY DEF CInv, TypeOK
<1>3. reviewer[r].task \in Tasks /\ reviewer[r].rev \in Nat /\ reviewer[r].pc = "loaded"
  BY <1>2 DEF ReviewGate, CInv, SnapshotsHold, SnapshotHolds, Review
<1>4. PICK status \in {"pass", "waived"}, ref \in Nat :
        Append1("gate", reviewer[r].task, reviewer[r].rev, status, ref)
  BY <1>2 DEF ReviewGate
<1>5. ledger' \in Seq(Entry) /\ PastIsPast' /\ AcceptedIsAuthorised'
  <2>1. PICK e \in Entry : ledger' = Append(ledger, e)
    BY <1>3, <1>4 DEF Append1, Entry
  <2>. QED BY <1>1, <2>1, AppendStep
<1> DEFINE v == [reviewer[r] EXCEPT !.pc = "accept", !.verdict = Len(ledger) + 1]
<1>6. reviewer' = [reviewer EXCEPT ![r] = v]
  BY DEF ReviewGate
<1>7. v \in Review /\ v.pc = "accept" /\ v.task = reviewer[r].task /\ v.rev = reviewer[r].rev
  <2>1. Len(ledger) + 1 \in Nat
    BY <1>2
  <2>. QED BY <1>2, <2>1 DEF Review
<1> HIDE DEF v
<1>8. reviewer' \in [Reviewers -> Review] /\ SnapshotsHold'
  BY <1>1, <1>2, <1>3, <1>6, <1>7 DEF CInv, SnapshotsHold, SnapshotHolds
<1>. QED BY <1>1, <1>5, <1>8
         DEF CInv, TypeOK, ClaimsHold, ClaimHolds, ExecutedOnce, ResultIsOwn

\* Operators touch nothing but the lock.
LEMMA OperatorStep == ASSUME CInv, NEW o \in Operators, Operate(o) PROVE CInv'
<1>1. UNCHANGED <<disk, ledger, driver, reviewer, past>>
  BY DEF Operate, InspectLock, OpReleaseRead, OpUnlink
<1>2. lock \in Lock /\ operator \in [Operators -> Removal] /\ operator[o] \in Removal
  BY DEF CInv, TypeOK
<1>3. lock' \in Lock
  <2>1. NoLock \in Lock
    BY DEF NoLock, Lock, Anybody
  <2>2. lock' = lock \/ lock' = NoLock
    BY DEF Operate, InspectLock, OpReleaseRead, OpUnlink
  <2>. QED BY <1>2, <2>1, <2>2
<1>4. operator' \in [Operators -> Removal]
  <2>1. \E x \in Removal : operator' = [operator EXCEPT ![o] = x]
    <3>1. CASE InspectLock(o)
      <4>1. [pc |-> "release", target |-> lock.by] \in Removal
        BY <1>2 DEF Lock, Removal
      <4>. QED BY <3>1, <4>1 DEF InspectLock
    <3>2. CASE OpReleaseRead(o) \/ OpUnlink(o)
      <4>1. NoRemoval \in Removal /\ [operator[o] EXCEPT !.pc = "unlink"] \in Removal
        BY <1>2 DEF Removal, NoRemoval, Anybody
      <4>. QED BY <3>2, <4>1 DEF OpReleaseRead, OpUnlink
    <3>. QED BY <3>1, <3>2 DEF Operate
  <2>. QED BY <1>2, <2>1
<1>. QED BY <1>1, <1>3, <1>4
         DEF CInv, TypeOK, ClaimsHold, ClaimHolds, SnapshotsHold,
             SnapshotHolds, PastIsPast, ExecutedOnce, ResultIsOwn, AcceptedIsAuthorised,
             Stands

\* The invariant holds of a new campaign.
LEMMA InitCInv == Init => CInv
  BY BoundsAssumption
  DEF Init, CInv, TypeOK, Task, Lock, NoLock, Call, NoCall, Counters, Outcomes, Removal,
      NoRemoval, Review, NoReview, Past, Rungs, Anybody, ClaimsHold, ClaimHolds,
      SnapshotsHold, SnapshotHolds, PastIsPast, ExecutedOnce, ResultIsOwn, Rank,
      AcceptedIsAuthorised, Claiming

\* Every step keeps the invariant.
LEMMA NextCInv == CInv /\ [Next]_vars => CInv'
<1> SUFFICES ASSUME CInv, [Next]_vars PROVE CInv'
  OBVIOUS
<1>1. CASE UNCHANGED vars
  BY <1>1 DEF vars, CInv, TypeOK, ClaimsHold, ClaimHolds, SnapshotsHold, SnapshotHolds,
              PastIsPast, ExecutedOnce, ResultIsOwn, AcceptedIsAuthorised, Stands
<1>2. ASSUME NEW d \in Drivers, Drive(d) \/ Raise(d) \/ Die(d) PROVE CInv'
  BY <1>2, QuietDriver, ClaimStep, RecordStep, GateStep, PromoteStep DEF Drive
<1>3. ASSUME NEW o \in Operators, Operate(o) PROVE CInv'
  BY <1>3, OperatorStep
<1>4. ASSUME RecordWaiver \/ RevokeDecision PROVE CInv'
  BY <1>4, LedgerStep
<1>5. ASSUME NEW r \in Reviewers,
             LoadTask(r) \/ ReviewGate(r) \/ ReviewAccept(r) \/ Downgrade(r)
      PROVE  CInv'
  BY <1>5, LoadStep, VerdictStep, ReviewAcceptStep, DowngradeStep
<1>. QED BY <1>1, <1>2, <1>3, <1>4, <1>5 DEF Next

\* What calls and reviewers remember, and what the files record of the past, is
\* consistent in every reachable state.
THEOREM Invariance == Spec => []CInv
  BY InitCInv, NextCInv, PTL DEF Spec

\* A result is never that of a call that lost its claim, even when the run lock
\* was removed under a running call (schema.py claim_task and persist_task).
THEOREM ResultsAreOwn == Spec => []ResultIsOwn
  BY Invariance, PTL DEF CInv

\* No two calls execute the same claim, whatever happens to run.lock.
THEOREM ClaimsExecuteOnce == Spec => []ExecutedOnce
  BY Invariance, PTL DEF CInv

\* Nothing is accepted without a verdict, about exactly that revision, that
\* stood when the acceptance was written (gates.py verify_gate_decision).
THEOREM AcceptanceIsAuthorised == Spec => []AcceptedIsAuthorised
  BY Invariance, PTL DEF CInv

\* The run lock excludes: with one operator at most, no two autopilot calls of a
\* campaign are ever under way together (lock.py, ai_paper.py autopilot_step).
THEOREM RunLockExcludes ==
  ASSUME \A o, p \in Operators : o = p
  PROVE  Spec => []RunLockMutex
<1>1. Init => LockInv
  BY DEF Init, LockInv, NoLock, NoCall, NoRemoval, Holding
<1>2. CInv /\ LockInv /\ [Next]_vars => LockInv'
  BY LockStep DEF CInv, TypeOK
<1>3. LockInv => RunLockMutex
  BY DEF LockInv, RunLockMutex
<1>. QED BY <1>1, <1>2, <1>3, Invariance, PTL DEF Spec

\* A step of an autopilot call leaves every accepted task as it is.
LEMMA CallsSpareAccepted ==
  ASSUME CInv, NEW d \in Drivers, Drive(d) \/ Raise(d) \/ Die(d),
         NEW t \in Tasks, disk[t].rung = "accepted"
  PROVE  disk'[t] = disk[t]
<1>1. disk \in [Tasks -> Task] /\ ClaimHolds(d)
  BY DEF CInv, TypeOK, ClaimsHold
<1>2. \A u, rung : disk' = Written(u, rung) /\ u # t => disk'[t] = disk[t]
  BY <1>1 DEF Written
<1>3. CASE ClaimTask(d)
  BY <1>1, <1>2, <1>3 DEF ClaimTask
<1>4. ASSUME NEW rung, NEW pc, Swap(d, rung, pc), driver[d].pc \in {"report", "check"}
      PROVE  disk'[t] = disk[t]
  BY <1>1, <1>2, <1>4 DEF Swap, UnchangedSince, ClaimHolds, Claiming
<1>5. CASE RecordFailed(d) \/ RecordCompleted(d) \/ RecordValidated(d)
  BY <1>4, <1>5 DEF RecordFailed, RecordCompleted, RecordValidated
<1>6. CASE PromoteAccepted(d)
  BY <1>1, <1>2, <1>6 DEF PromoteAccepted, Acceptable, Accepting
<1>7. CASE \/ Acquire(d) \/ WriteOwner(d) \/ LoadCampaign(d) \/ Execute(d) \/ LeaveUnchecked(d)
           \/ AcceptGate(d) \/ Finish(d) \/ ReleaseRead(d) \/ Unlink(d) \/ Raise(d) \/ Die(d)
  BY <1>7 DEF Acquire, WriteOwner, LoadCampaign, Execute, LeaveUnchecked, AcceptGate, Finish,
    ReleaseRead, Unlink, Raise, Die
<1>. QED BY <1>3, <1>5, <1>6, <1>7 DEF Drive

\* Only a reviewer who loaded that very revision takes an acceptance back: no
\* autopilot call writes over one, however late it is (schema.py claim_task and
\* persist_task, states.py downgrade).
THEOREM AcceptanceIsFinal == Spec => AcceptedIsFinal
<1>1. CInv /\ [Next]_vars =>
        [\A t \in Tasks :
           disk[t].rung = "accepted" /\ disk'[t] # disk[t] =>
             \E r \in Reviewers :
               /\ reviewer[r].pc = "loaded" /\ reviewer[r].task = t
               /\ reviewer[r].rev = disk[t].rev
               /\ reviewer'[r] = NoReview]_vars
  <2> SUFFICES ASSUME CInv, Next, NEW t \in Tasks,
                      disk[t].rung = "accepted", disk'[t] # disk[t]
               PROVE  \E r \in Reviewers :
                        /\ reviewer[r].pc = "loaded" /\ reviewer[r].task = t
                        /\ reviewer[r].rev = disk[t].rev
                        /\ reviewer'[r] = NoReview
    OBVIOUS
  <2>1. disk \in [Tasks -> Task] /\ reviewer \in [Reviewers -> Review]
    BY DEF CInv, TypeOK
  <2>2. \A u, rung : disk' = Written(u, rung) /\ u # t => disk'[t] = disk[t]
    BY <2>1 DEF Written
  <2>3. CASE \E d \in Drivers : Drive(d) \/ Raise(d) \/ Die(d)
    BY <2>3, CallsSpareAccepted
  <2>4. CASE (\E o \in Operators : Operate(o)) \/ RecordWaiver \/ RevokeDecision
    BY <2>4 DEF Operate, InspectLock, OpReleaseRead, OpUnlink, RecordWaiver, RevokeDecision
  <2>5. ASSUME NEW r \in Reviewers, LoadTask(r) \/ ReviewGate(r)
        PROVE  disk' = disk
    BY <2>5 DEF LoadTask, ReviewGate
  <2>6. ASSUME NEW r \in Reviewers, ReviewAccept(r)
        PROVE  disk'[t] = disk[t]
    BY <2>1, <2>2, <2>6 DEF ReviewAccept, Acceptable, Accepting
  <2>7. ASSUME NEW r \in Reviewers, Downgrade(r)
        PROVE  /\ reviewer[r].pc = "loaded" /\ reviewer[r].task = t
               /\ reviewer[r].rev = disk[t].rev /\ reviewer'[r] = NoReview
    <3>1. /\ reviewer[r].pc = "loaded" /\ UnchangedSince(reviewer[r].task, reviewer[r].rev)
          /\ \E rung : disk' = Written(reviewer[r].task, rung)
      BY <2>7 DEF Downgrade
    <3>2. reviewer[r].task = t
      BY <2>2, <3>1
    <3>3. reviewer'[r] = NoReview
      BY <2>1, <2>7 DEF Downgrade
    <3> QED
      BY <3>1, <3>2, <3>3 DEF UnchangedSince
  <2> QED
    BY <2>3, <2>4, <2>5, <2>6, <2>7 DEF Next
<1>. QED BY <1>1, Invariance, PTL DEF Spec, AcceptedIsFinal
=============================================================================
