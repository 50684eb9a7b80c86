--------------------------- MODULE CalculationReuse ---------------------------
(***************************************************************************)
(* Reference to an existing result instead of a recalculation              *)
(* (src/vcstudio/project/calculation_reuse.py, record_reuse_reference and  *)
(* record_force_recalculation), beside the submission of the same jobs     *)
(* (src/vcstudio/gui_web/api.py, _reuse_submission_guard).  All jobs here  *)
(* are the same calculation.                                               *)
(*                                                                         *)
(* A decision, named by the user, copies the verified result files of a    *)
(* source into a job that was not submitted.  Between a prepared and a     *)
(* succeeded decision in the target's manifest lie a journal and as many   *)
(* copies as there are files; the process may die anywhere, and the user   *)
(* repeats the decision by its name.  The operation locks of both jobs are *)
(* held throughout; the check that precedes a submission takes none.  A    *)
(* submission leaves a record of itself beside the manifest before it      *)
(* calls the scheduler (src/vcstudio/cluster/submitter.py, submit_job),    *)
(* and decisions do not read it.                                           *)
(***************************************************************************)
EXTENDS Naturals

CONSTANTS
  Callers,       \* calls that may be under way together
  Jobs,
  Files,         \* the result files of a calculation
  Ids,           \* names of decisions
  Junk,          \* what a stranger leaves in a file
  NoJob, NoId, NoFile, NoFiles, NoDecision, NoJournal,
  MaxFaults,     \* bound: crashes and failing writes
  MaxStrangers   \* bound: changes by those who take no lock

ASSUME BoundsAssumption == MaxFaults \in Nat /\ MaxStrangers \in Nat
ASSUME NamesAssumption ==
  /\ NoJob \notin Jobs /\ NoId \notin Ids /\ Junk \notin Jobs
  /\ NoFile \notin Jobs \union {Junk}

VARIABLES
  manifest,      \* each job.yaml
  written,       \* how many generations of each job.yaml there have been
  files,         \* the result files in each job directory
  intact,        \* whether the inputs are still those that were recorded
  journal,       \* each job's reuse journals
  call,
  launched,      \* the jobs that the scheduler was given
  recovery,      \* the jobs with a record of a submission
  answered,      \* the decisions a caller was told have succeeded
  faults, strangers

vars == <<manifest, written, files, intact, journal, call, launched, recovery, answered,
          faults, strangers>>

\* Content is named by the job that computed it.
Contents == Jobs \union {Junk}
Bundle == [Files -> Contents]

Decision ==
  [action : {"reference"}, status : {"prepared", "succeeded"}, source : Jobs,
   generation : Nat, bundle : Bundle]
  \union [action : {"force"}]

\* A generation stands for the digest of the manifest.
Manifest ==
  [state : {"CREATED", "UPLOADED", "SUBMITTED", "DONE"}, hashes : Bundle \union {NoFiles},
   decisions : [Ids -> Decision \union {NoDecision}], reference : Ids \union {NoId},
   generation : Nat]

Journal ==
  [status : {"preparing", "prepared", "succeeded"}, source : Jobs, bundle : Bundle,
   base : Nat, prepared : Nat, done : Nat]

ASSUME NothingAssumption == NoDecision \notin Decision /\ NoJournal \notin Journal

\* A call holds the operation locks of its jobs while it decides and while it submits.
Deciding == {"recheck", "save", "mark", "copy", "done", "record", "check", "undo", "unmark"}
Transacting == Deciding \union {"launch", "saving"}
Places == Transacting \union {"idle", "submit"}
NoCall == [pc |-> "idle", target |-> NoJob, source |-> NoJob, id |-> NoId,
           seen |-> 0, base |-> 0]

TypeOK ==
  /\ manifest \in [Jobs -> Manifest]
  /\ written \in [Jobs -> Nat]
  /\ files \in [Jobs -> [Files -> Contents \union {NoFile}]]
  /\ intact \in [Jobs -> BOOLEAN]
  /\ journal \in [Jobs -> [Ids -> Journal \union {NoJournal}]]
  /\ call \in [Callers ->
       [pc : Places, target : Jobs \union {NoJob}, source : Jobs \union {NoJob},
        id : Ids \union {NoId}, seen : Nat, base : Nat]]
  /\ launched \in SUBSET Jobs /\ recovery \in SUBSET Jobs
  /\ answered \in SUBSET (Jobs \X Ids)
  /\ faults \in Nat /\ strangers \in Nat

NoDecisions == [i \in Ids |-> NoDecision]

\* A job has just been created, runs, or has been computed and fetched.
Init ==
  /\ launched \in SUBSET Jobs
  /\ \E finished \in SUBSET launched :
       /\ manifest = [j \in Jobs |->
            [state |-> IF j \in finished THEN "DONE"
                       ELSE IF j \in launched THEN "SUBMITTED" ELSE "CREATED",
             hashes |-> IF j \in finished THEN [f \in Files |-> j] ELSE NoFiles,
             decisions |-> NoDecisions, reference |-> NoId, generation |-> 1]]
       /\ files = [j \in Jobs |-> [f \in Files |-> IF j \in finished THEN j ELSE NoFile]]
  /\ written = [j \in Jobs |-> 1]
  /\ intact = [j \in Jobs |-> TRUE]
  /\ journal = [j \in Jobs |-> [i \in Ids |-> NoJournal]]
  /\ call = [c \in Callers |-> NoCall]
  /\ answered = {} /\ recovery = {}
  /\ faults = 0 /\ strangers = 0

At(c, place) == call[c].pc = place
Goto(c, place) == call' = [call EXCEPT ![c].pc = place]
End(c) == call' = [call EXCEPT ![c] = NoCall]

Fault == faults < MaxFaults /\ faults' = faults + 1

\* Whoever finds the operation lock of a job taken is refused.
Free(j) ==
  \A c \in Callers : j \in {call[c].target, call[c].source} => call[c].pc \notin Transacting

\* A new generation of a manifest.
Write(j, m) ==
  /\ manifest' = [manifest EXCEPT ![j] = [m EXCEPT !.generation = written[j] + 1]]
  /\ written' = [written EXCEPT ![j] = @ + 1]

Set(j, i, entry) == journal' = [journal EXCEPT ![j][i] = entry]

-----------------------------------------------------------------------------
(* The decision to refer to a result. *)

\* source_verification: finished, inputs and result files as they were recorded.
Verified(j) ==
  /\ manifest[j].state = "DONE" /\ intact[j]
  /\ manifest[j].hashes # NoFiles /\ files[j] = manifest[j].hashes

Reusable(t, s) == t # s /\ intact[t] /\ Verified(s)

\* The source is still the one the decision was made for.
SourceKept(d) ==
  Verified(d.source) /\ manifest[d.source].generation = d.generation
  /\ manifest[d.source].hashes = d.bundle

\* A decision that is new, or whose journal was all that could be written.
Fresh(t, s, i) ==
  /\ manifest[t].decisions[i] = NoDecision
  /\ manifest[t].state = "CREATED"
  /\ journal[t][i] # NoJournal =>
       /\ journal[t][i].source = s
       /\ journal[t][i].status = "preparing"
       /\ journal[t][i].base = manifest[t].generation

\* The same decision as before, from the same source in the same generation.
Same(t, s, i) ==
  LET d == manifest[t].decisions[i]
  IN /\ d # NoDecision /\ d.action = "reference" /\ d.source = s
     /\ journal[t][i] # NoJournal /\ journal[t][i].source = s
     /\ SourceKept(d)

\* Fault: the journal must have been marked.
InterruptedMarked(t, s, i) ==
  /\ Same(t, s, i)
  /\ manifest[t].decisions[i].status = "prepared" /\ journal[t][i].status = "prepared"
  /\ journal[t][i].prepared = manifest[t].generation
  /\ manifest[t].state = "CREATED"

\* A prepared decision can be completed as long as the manifest is what was prepared.
Interrupted(t, s, i) ==
  /\ Same(t, s, i)
  /\ manifest[t].decisions[i].status = "prepared"
  /\ journal[t][i].prepared = manifest[t].generation
  /\ manifest[t].state = "CREATED"

Completed(t, s, i) ==
  /\ Same(t, s, i)
  /\ manifest[t].decisions[i].status = "succeeded"
  /\ journal[t][i].status = "succeeded" => journal[t][i].done = manifest[t].generation
  /\ Verified(t) /\ manifest[t].hashes = manifest[t].decisions[i].bundle

Enter(c, t, s, i, place) ==
  call' = [call EXCEPT ![c] = [pc |-> place, target |-> t, source |-> s, id |-> i,
                               seen |-> manifest[s].generation,
                               base |-> manifest[t].generation]]

Reference(c, t, s, i) ==
  /\ At(c, "idle") /\ Free(t) /\ Free(s)
  /\ Reusable(t, s)
  /\ \/ Fresh(t, s, i) /\ Enter(c, t, s, i, "recheck")
     \/ Interrupted(t, s, i) /\ Enter(c, t, s, i, "copy")
  /\ UNCHANGED <<manifest, written, files, intact, journal, launched, recovery, answered,
                 faults, strangers>>

\* A decision that has succeeded is answered again; its journal may have to be completed.
Repeat(c, t, s, i) ==
  /\ At(c, "idle") /\ Free(t) /\ Free(s)
  /\ Reusable(t, s) /\ Completed(t, s, i)
  /\ Set(t, i, [journal[t][i] EXCEPT !.status = "succeeded",
                                     !.done = manifest[t].generation])
  /\ answered' = answered \union {<<t, i>>}
  /\ UNCHANGED <<manifest, written, files, intact, call, launched, recovery, faults,
                 strangers>>

Unchanged(c) ==
  /\ manifest[call[c].target].generation = call[c].base
  /\ manifest[call[c].source].generation = call[c].seen
  /\ Reusable(call[c].target, call[c].source)

\* Target and source are read again; the journal tells, by its digest, what is about to be
\* written.
Prepare(c) ==
  LET t == call[c].target
      s == call[c].source
  IN /\ At(c, "recheck") /\ Unchanged(c)
     /\ Set(t, call[c].id,
          [status |-> "preparing", source |-> s, bundle |-> manifest[s].hashes,
           base |-> call[c].base, prepared |-> written[t] + 1, done |-> 0])
     /\ written' = [written EXCEPT ![t] = @ + 1]
     /\ Goto(c, "save")
     /\ UNCHANGED <<manifest, files, intact, launched, recovery, answered, faults,
                    strangers>>

\* The prepared manifest holds the decision and already the results of the source.  It is
\* written as the journal has it, over whatever lies there.
SavePrepared(c) ==
  LET t == call[c].target
      entry == journal[t][call[c].id]
      decision == [action |-> "reference", status |-> "prepared", source |-> entry.source,
                   generation |-> call[c].seen, bundle |-> entry.bundle]
  IN /\ At(c, "save")
     /\ manifest' = [manifest EXCEPT ![t] = [@ EXCEPT
          !.hashes = entry.bundle, !.reference = call[c].id,
          !.decisions[call[c].id] = decision, !.generation = entry.prepared]]
     /\ Goto(c, "mark")
     /\ UNCHANGED <<written, files, intact, journal, launched, recovery, answered, faults,
                    strangers>>

MarkPrepared(c) ==
  LET t == call[c].target
  IN /\ At(c, "mark")
     /\ manifest[t].generation = journal[t][call[c].id].prepared
     /\ Set(t, call[c].id, [journal[t][call[c].id] EXCEPT !.status = "prepared"])
     /\ Goto(c, "copy")
     /\ UNCHANGED <<manifest, written, files, intact, launched, recovery, answered, faults,
                    strangers>>

ToCopy(c) ==
  {f \in Files :
     files[call[c].target][f] # journal[call[c].target][call[c].id].bundle[f]}

\* A file that is there already must be the one that is wanted; what is copied must have
\* the recorded digest.
Copy(c, f) ==
  LET t == call[c].target
      s == call[c].source
  IN /\ At(c, "copy") /\ f \in ToCopy(c)
     /\ files[t][f] = NoFile
     /\ files[s][f] = journal[t][call[c].id].bundle[f]
     /\ files' = [files EXCEPT ![t][f] = files[s][f]]
     /\ UNCHANGED <<manifest, written, intact, journal, call, launched, recovery, answered,
                    faults, strangers>>

\* Everything is compared once more before the job is declared done.
Alike(c) ==
  LET t == call[c].target
      d == manifest[t].decisions[call[c].id]
  IN /\ manifest[t].generation = journal[t][call[c].id].prepared
     /\ intact[t] /\ SourceKept(d)
     /\ files[t] = d.bundle

\* Fault: only the source and the manifest are looked at again.
CompareSource(c) ==
  /\ At(c, "copy")
  /\ manifest[call[c].target].generation = journal[call[c].target][call[c].id].prepared
  /\ SourceKept(manifest[call[c].target].decisions[call[c].id])
  /\ Goto(c, "done")
  /\ UNCHANGED <<manifest, written, files, intact, journal, launched, recovery, answered,
                 faults, strangers>>

Compare(c) ==
  /\ At(c, "copy") /\ ToCopy(c) = {} /\ Alike(c)
  /\ Goto(c, "done")
  /\ UNCHANGED <<manifest, written, files, intact, journal, launched, recovery, answered,
                 faults, strangers>>

\* The manifest that was prepared is written with its state and decision completed.
SaveDone(c) ==
  LET t == call[c].target
  IN /\ At(c, "done")
     /\ Write(t, [manifest[t] EXCEPT !.state = "DONE",
                                     !.decisions[call[c].id].status = "succeeded"])
     /\ call' = [call EXCEPT ![c].pc = "record", ![c].base = written[t] + 1]
     /\ UNCHANGED <<files, intact, journal, launched, recovery, answered, faults,
                    strangers>>

RecordDone(c) ==
  LET t == call[c].target
  IN /\ At(c, "record")
     /\ Set(t, call[c].id, [journal[t][call[c].id] EXCEPT !.status = "succeeded",
                                                         !.done = call[c].base])
     /\ Goto(c, "check")
     /\ UNCHANGED <<manifest, written, files, intact, launched, recovery, answered, faults,
                    strangers>>

\* The manifest is read back; the caller is told.
Answer(c) ==
  LET t == call[c].target
  IN /\ At(c, "check")
     /\ manifest[t].generation = journal[t][call[c].id].done
     /\ answered' = answered \union {<<t, call[c].id>>}
     /\ End(c)
     /\ UNCHANGED <<manifest, written, files, intact, journal, launched, recovery, faults,
                    strangers>>

\* The manifest is not the one that was written, or the directory was moved away for a
\* moment: both are put back to what was prepared.
Contradicted(c) ==
  /\ \/ At(c, "check") /\ manifest[call[c].target].generation # call[c].base
        /\ UNCHANGED faults
     \/ call[c].pc \in {"done", "record", "check"} /\ Fault
  /\ Goto(c, "undo")
  /\ UNCHANGED <<manifest, written, files, intact, journal, launched, recovery, answered,
                 strangers>>

\* The same bytes as before, hence the same generation.
Undo(c) ==
  LET t == call[c].target
  IN /\ At(c, "undo")
     /\ manifest' = [manifest EXCEPT ![t] = [@ EXCEPT
          !.state = "CREATED", !.decisions[call[c].id].status = "prepared",
          !.generation = journal[t][call[c].id].prepared]]
     /\ Goto(c, "unmark")
     /\ UNCHANGED <<written, files, intact, journal, launched, recovery, answered, faults,
                    strangers>>

Unmark(c) ==
  LET t == call[c].target
  IN /\ At(c, "unmark")
     /\ Set(t, call[c].id, [journal[t][call[c].id] EXCEPT !.status = "prepared",
                                                         !.done = 0])
     /\ End(c)
     /\ UNCHANGED <<manifest, written, files, intact, launched, recovery, answered, faults,
                    strangers>>

\* The transaction ends where something is not as it was.
Refuse(c) ==
  LET t == call[c].target
      s == call[c].source
  IN /\ \/ At(c, "recheck") /\ ~Unchanged(c)
        \/ At(c, "mark") /\ manifest[t].generation # journal[t][call[c].id].prepared
        \/ At(c, "copy") /\ \E f \in ToCopy(c) :
             files[t][f] # NoFile \/ files[s][f] # journal[t][call[c].id].bundle[f]
        \/ At(c, "copy") /\ ToCopy(c) = {} /\ ~Alike(c)
     /\ End(c)
     /\ UNCHANGED <<manifest, written, files, intact, journal, launched, recovery, answered,
                    faults, strangers>>

\* The process dies or cannot write; its locks are dropped.
Stop(c) ==
  /\ call[c].pc \in Transacting
  /\ Fault
  /\ End(c)
  /\ UNCHANGED <<manifest, written, files, intact, journal, launched, recovery, answered,
                 strangers>>

-----------------------------------------------------------------------------
(* Recalculation. *)

\* The user insists, and says why.
ForceRecalculation(t, i) ==
  /\ Free(t)
  /\ manifest[t].state = "CREATED" /\ manifest[t].decisions[i] = NoDecision
  /\ Write(t, [manifest[t] EXCEPT !.decisions[i] = [action |-> "force"]])
  /\ UNCHANGED <<files, intact, journal, call, launched, recovery, answered, faults,
                 strangers>>

Forced(t) == \E i \in Ids : manifest[t].decisions[i] = [action |-> "force"]

\* _reuse_submission_guard: an existing result wants a decision.  No lock is held.
Guard(c, t) ==
  /\ At(c, "idle")
  /\ manifest[t].state = "CREATED"
  /\ Forced(t) \/ ~\E s \in Jobs : Reusable(t, s)
  /\ call' = [call EXCEPT ![c] = [NoCall EXCEPT !.pc = "submit", !.target = t]]
  /\ UNCHANGED <<manifest, written, files, intact, journal, launched, recovery, answered,
                 faults, strangers>>

\* Fault: what the guard saw is believed.
SubmitSeen(c) ==
  LET t == call[c].target
  IN /\ At(c, "submit") /\ Free(t) /\ t \notin recovery
     /\ recovery' = recovery \union {t}
     /\ Goto(c, "launch")
     /\ UNCHANGED <<manifest, written, files, intact, journal, launched, answered, faults,
                    strangers>>

\* Only a job that is new, with no attempt in its manifest and no record beside it: a
\* prepared decision counts as an attempt.
Submittable(t) ==
  t \notin recovery /\ manifest[t].state = "CREATED" /\ manifest[t].reference = NoId

\* submit_job, under the lock; the record is written before anything else.
Submit(c) ==
  LET t == call[c].target
  IN /\ At(c, "submit") /\ Free(t) /\ Submittable(t)
     /\ recovery' = recovery \union {t}
     /\ Goto(c, "launch")
     /\ UNCHANGED <<manifest, written, files, intact, journal, launched, answered, faults,
                    strangers>>

\* The manifest names the scheduler's job.
Recorded(t) == manifest[t].state \in {"SUBMITTED", "DONE"} /\ manifest[t].reference = NoId

\* A record that the manifest has made superfluous is removed; else the caller is refused.
Replay(c) ==
  LET t == call[c].target
  IN /\ At(c, "submit")
     /\ ~(Free(t) /\ Submittable(t))
     /\ recovery' = IF Free(t) /\ Recorded(t) THEN recovery \ {t} ELSE recovery
     /\ End(c)
     /\ UNCHANGED <<manifest, written, files, intact, journal, launched, answered, faults,
                    strangers>>

\* The scheduler accepts the job.
Launch(c) ==
  /\ At(c, "launch")
  /\ launched' = launched \union {call[c].target}
  /\ Goto(c, "saving")
  /\ UNCHANGED <<manifest, written, files, intact, journal, recovery, answered, faults,
                 strangers>>

\* The manifest says so, and the record goes, unless that fails.
SaveSubmitted(c) ==
  LET t == call[c].target
  IN /\ At(c, "saving")
     /\ Write(t, [manifest[t] EXCEPT !.state = "SUBMITTED"])
     /\ \/ recovery' = recovery \ {t} /\ UNCHANGED faults
        \/ Fault /\ UNCHANGED recovery
     /\ End(c)
     /\ UNCHANGED <<files, intact, journal, launched, answered, strangers>>

\* The command was not answered, executed or not; the record stays.
Unanswered(c) ==
  LET t == call[c].target
  IN /\ call[c].pc \in {"launch", "saving"} /\ Fault
     /\ Write(t, [manifest[t] EXCEPT !.state = "UPLOADED"])
     /\ End(c)
     /\ UNCHANGED <<files, intact, journal, launched, recovery, answered, strangers>>

\* The job ends and its results are fetched over whatever lies there.
Finish(t) ==
  /\ Free(t) /\ manifest[t].state = "SUBMITTED"
  /\ Write(t, [manifest[t] EXCEPT !.state = "DONE", !.hashes = [f \in Files |-> t]])
  /\ files' = [files EXCEPT ![t] = [f \in Files |-> t]]
  /\ UNCHANGED <<intact, journal, call, launched, recovery, answered, faults, strangers>>

-----------------------------------------------------------------------------
(* Those who take no lock: the user in a job directory, writers of job.yaml that are
   not job operations. *)

Stranger == strangers < MaxStrangers /\ strangers' = strangers + 1

TouchManifest(j) ==
  /\ Stranger /\ Write(j, manifest[j])
  /\ UNCHANGED <<files, intact, journal, call, launched, recovery, answered, faults>>

TouchInputs(j) ==
  /\ Stranger /\ intact' = [intact EXCEPT ![j] = FALSE]
  /\ UNCHANGED <<manifest, written, files, journal, call, launched, recovery, answered,
                 faults>>

TouchFile(j, f) ==
  /\ Stranger /\ files' = [files EXCEPT ![j][f] = Junk]
  /\ UNCHANGED <<manifest, written, intact, journal, call, launched, recovery, answered,
                 faults>>

-----------------------------------------------------------------------------
Proceed(c) ==
  \/ Prepare(c) \/ SavePrepared(c) \/ MarkPrepared(c) \/ (\E f \in Files : Copy(c, f))
  \/ Compare(c) \/ SaveDone(c) \/ RecordDone(c) \/ Answer(c)
  \/ Contradicted(c) \/ Undo(c) \/ Unmark(c) \/ Refuse(c)
  \/ Submit(c) \/ Replay(c) \/ Launch(c) \/ SaveSubmitted(c)

Decide(t, s, i) == \E c \in Callers : Reference(c, t, s, i) \/ Repeat(c, t, s, i)

Interfere ==
  \E j \in Jobs : TouchManifest(j) \/ TouchInputs(j) \/ \E f \in Files : TouchFile(j, f)

Next ==
  \/ \E t, s \in Jobs, i \in Ids : Decide(t, s, i)
  \/ \E c \in Callers : Proceed(c) \/ Stop(c) \/ Unanswered(c)
  \/ \E c \in Callers, t \in Jobs : Guard(c, t)
  \/ \E t \in Jobs, i \in Ids : ForceRecalculation(t, i)
  \/ \E t \in Jobs : Finish(t)
  \/ Interfere

Spec == Init /\ [][Next]_vars

\* A call goes on; the user, who got no answer, repeats the decision until it is not refused
\* for other calls that are just under way.
Fairness ==
  /\ \A c \in Callers : WF_vars(Proceed(c))
  /\ \A t \in Jobs, i \in Ids : SF_vars(\E s \in Jobs : Decide(t, s, i))
FairSpec == Spec /\ Fairness

-----------------------------------------------------------------------------
(* Properties. *)

Succeeded(t, i) ==
  manifest[t].decisions[i] # NoDecision /\ manifest[t].decisions[i].action = "reference"
  /\ manifest[t].decisions[i].status = "succeeded"

\* The scheduler has the job and nothing says so but the record of the submission.
CutOff(t) == t \in launched /\ t \in recovery

\* A job is either computed or refers to a result.  What the scheduler was given is completed
\* by reference only if its submission was cut off before the manifest was saved, and then
\* the record of that submission is never lost.
ReusedOrComputed ==
  \A t \in Jobs, i \in Ids : Succeeded(t, i) =>
    /\ manifest[t].state = "DONE" /\ manifest[t].reference = i
    /\ t \in launched => CutOff(t)

\* What a job holds by reference is the whole result of one computation, complete
\* whatever interrupted the copies, but for what a stranger did to it.
ReusedIsWhole ==
  \A t \in Jobs, i \in Ids : Succeeded(t, i) =>
    \E k \in launched :
      /\ manifest[t].hashes = [f \in Files |-> k]
      /\ \A f \in Files : files[t][f] \in {k, Junk}

\* A decision that was prepared, on a manifest nobody has changed since.
Pending(t, i) ==
  LET d == manifest[t].decisions[i]
  IN /\ d # NoDecision /\ d.action = "reference" /\ d.status = "prepared"
     /\ manifest[t].generation = journal[t][i].prepared
     /\ Reusable(t, d.source) /\ SourceKept(d)
     /\ \A f \in Files : files[t][f] \in {NoFile, d.bundle[f]}

\* Repeating a decision completes it, wherever it was interrupted.
RepeatCompletes ==
  \A t \in Jobs, i \in Ids : Pending(t, i) ~> ~Pending(t, i)

-----------------------------------------------------------------------------
(* The inductive invariant. *)

Refers(t, i) ==
  manifest[t].decisions[i] # NoDecision /\ manifest[t].decisions[i].action = "reference"

\* All the results of one computation.
ResultsOf(k) == [f \in Files |-> k]
Whole(bundle) == \E k \in launched : bundle = ResultsOf(k)

\* Nothing in the files but what the decision copies and what a stranger left.
Copied(t, i) == \A f \in Files : files[t][f] \in {manifest[t].decisions[i].bundle[f], Junk}

\* What the manifest says is what the decision prepared.
Holds(t, i) ==
  /\ Refers(t, i) /\ manifest[t].reference = i
  /\ manifest[t].hashes = manifest[t].decisions[i].bundle

\* No other decision was prepared in the same generation.
Alone(t, i) == \A o \in Ids \ {i} : Refers(t, o) => journal[t][o].prepared # journal[t][i].prepared

\* What was submitted has left the state in which a decision can be carried out, unless the
\* submission was cut off; what is done holds the results of one computation, its own or
\* another's.
StateInv(t) ==
  /\ manifest[t].generation <= written[t]
  /\ manifest[t].state = "CREATED" /\ t \in launched => CutOff(t)
  /\ manifest[t].state = "SUBMITTED" => t \in launched
  /\ manifest[t].state = "DONE" => Whole(manifest[t].hashes)

\* A decision has its journal; while the manifest is the one that was prepared it has not
\* been submitted, and after it has succeeded it is the job's only one.
DecisionInv(t, i) ==
  /\ journal[t][i] # NoJournal => Whole(journal[t][i].bundle)
  /\ Refers(t, i) =>
       /\ journal[t][i] # NoJournal
       /\ manifest[t].decisions[i].bundle = journal[t][i].bundle
       /\ journal[t][i].prepared <= written[t] /\ Alone(t, i)
       /\ manifest[t].generation = journal[t][i].prepared =>
            /\ manifest[t].state = "CREATED" /\ Holds(t, i)
            /\ manifest[t].decisions[i].status = "prepared"
  /\ Succeeded(t, i) =>
       /\ manifest[t].state = "DONE" /\ Holds(t, i) /\ Copied(t, i)
       /\ t \in launched => CutOff(t)

JobInv(t) == StateInv(t) /\ \A i \in Ids : DecisionInv(t, i)

\* How far a transaction has got with the manifest and the files of its target.
CallInv(c) ==
  LET t == call[c].target
      i == call[c].id
  IN /\ call[c].pc \in Transacting \ {"record", "check", "undo"} => manifest[t].state = "CREATED"
     /\ call[c].pc \in {"recheck", "save"} => manifest[t].decisions[i] = NoDecision
     /\ call[c].pc = "save" =>
          journal[t][i] # NoJournal /\ journal[t][i].prepared <= written[t] /\ Alone(t, i)
     /\ call[c].pc \in {"mark", "copy", "done", "record", "check", "undo", "unmark"} => Holds(t, i)
     /\ call[c].pc \in {"mark", "copy", "done", "unmark"} =>
          manifest[t].decisions[i].status = "prepared"
     /\ call[c].pc = "done" => Copied(t, i)
     /\ call[c].pc \in {"record", "check"} => Succeeded(t, i)
     /\ call[c].pc = "undo" /\ t \in launched => CutOff(t)
     /\ call[c].pc \in {"launch", "saving"} => t \in recovery
     /\ call[c].pc = "saving" => t \in launched

\* Two transactions never share a job.
LocksInv ==
  /\ \A c \in Callers : call[c].pc # "idle" => call[c].target \in Jobs
  /\ \A c \in Callers : call[c].pc \in Deciding =>
       /\ call[c].source \in Jobs /\ call[c].id \in Ids
       /\ call[c].target # call[c].source
  /\ \A c \in Callers : call[c].pc \in {"submit", "launch", "saving"} => call[c].source = NoJob
  /\ \A c, d \in Callers :
       c # d /\ call[c].pc \in Transacting /\ call[d].pc \in Transacting =>
         {call[c].target, call[c].source} \intersect {call[d].target, call[d].source}
           \subseteq {NoJob}

UInv ==
  /\ TypeOK /\ LocksInv
  /\ \A t \in Jobs : JobInv(t)
  /\ \A c \in Callers : call[c].pc \in Transacting => CallInv(c)
=============================================================================
