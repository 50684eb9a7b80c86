------------------------ MODULE CalculationReuseProofs ------------------------
(* Proofs about CalculationReuse, for every set of jobs, files and decisions and  *)
(* any number of calls under way, failures and strangers: a job is computed or    *)
(* refers to a result, unless its submission was cut off, and what it refers to   *)
(* is whole.                                                                      *)
EXTENDS CalculationReuse, TLAPS

-----------------------------------------------------------------------------
(* What a step leaves alone.                                                    *)

CallRecord ==
  [pc : Places, target : Jobs \union {NoJob}, source : Jobs \union {NoJob},
   id : Ids \union {NoId}, seen : Nat, base : Nat]

SameJob(t) ==
  /\ manifest'[t] = manifest[t] /\ written'[t] = written[t]
  /\ files'[t] = files[t] /\ journal'[t] = journal[t]
  /\ t \in launched' <=> t \in launched
  /\ t \in recovery' <=> t \in recovery

\* A job that a step leaves alone keeps what holds of it.
LEMMA JobStays ==
  ASSUME NEW t \in Jobs, JobInv(t), SameJob(t), launched \subseteq launched'
  PROVE  JobInv(t)'
  <1>1. StateInv(t)'
    BY DEF JobInv, StateInv, SameJob, Whole, CutOff
  <1>2. ASSUME NEW i \in Ids PROVE DecisionInv(t, i)'
    <2>1. DecisionInv(t, i)
      BY DEF JobInv
    <2> QED
      BY <2>1 DEF DecisionInv, SameJob, Whole, Refers, Alone, Holds, Copied, Succeeded, CutOff
  <1> QED
    BY <1>1, <1>2 DEF JobInv

\* And so does a call on it.
LEMMA CallStays ==
  ASSUME NEW c \in Callers, CallInv(c), call'[c] = call[c], SameJob(call[c].target)
  PROVE  CallInv(c)'
  <1>1. PICK t, i : t = call[c].target /\ i = call[c].id
    OBVIOUS
  <1>2. call'[c].target = t /\ call'[c].id = i /\ call'[c].pc = call[c].pc /\ SameJob(t)
    BY <1>1
  <1>3. /\ Holds(t, i)' <=> Holds(t, i)
        /\ Copied(t, i)' <=> Copied(t, i)
        /\ Alone(t, i)' <=> Alone(t, i)
        /\ Succeeded(t, i)' <=> Succeeded(t, i)
    BY <1>2 DEF SameJob, Refers, Alone, Holds, Copied, Succeeded
  <1> QED
    BY <1>1, <1>2, <1>3 DEF CallInv, SameJob, CutOff, Transacting, Deciding

\* The target of a transaction is no other's.
LEMMA TargetIsOwn ==
  ASSUME LocksInv, NEW c \in Callers, NEW d \in Callers,
         call[c].pc \in Transacting, call[d].pc \in Transacting,
         call[c].target = call[d].target
  PROVE  c = d
  <1>1. call[c].target \in Jobs
    BY DEF LocksInv, Transacting, Deciding
  <1>2. call[c].target # NoJob
    BY <1>1, NamesAssumption
  <1> QED
    BY <1>2 DEF LocksInv

\* A step on one job and the calls on it.
LEMMA JobStep ==
  ASSUME UInv, NEW t \in Jobs, TypeOK', LocksInv', launched \subseteq launched',
         \A u \in Jobs \ {t} : SameJob(u),
         JobInv(t)',
         \A c \in Callers : call'[c].pc \in Transacting =>
           \/ call'[c].target # t /\ call'[c] = call[c]
           \/ CallInv(c)'
  PROVE  UInv'
  <1> USE DEF UInv
  <1>1. \A u \in Jobs : JobInv(u)'
    <2> SUFFICES ASSUME NEW u \in Jobs, u # t PROVE JobInv(u)'
      OBVIOUS
    <2> QED
      BY JobStays
  <1>2. ASSUME NEW c \in Callers, call'[c].pc \in Transacting PROVE CallInv(c)'
    <2>1. CASE CallInv(c)'
      BY <2>1
    <2>2. CASE call'[c].target # t /\ call'[c] = call[c]
      <3>1. call[c].target \in Jobs \ {t} /\ CallInv(c)
        BY <1>2, <2>2 DEF LocksInv, Transacting, Deciding
      <3> QED
        BY <2>2, <3>1, CallStays
    <2> QED
      BY <1>2, <2>1, <2>2
  <1> QED
    BY <1>1, <1>2

\* A step that changes no job, and one call at most.
LEMMA QuietStep ==
  ASSUME UInv, UNCHANGED <<manifest, written, files, journal, launched, recovery>>, TypeOK', LocksInv',
         \A c \in Callers : call'[c].pc \in Transacting => call'[c] = call[c] \/ CallInv(c)'
  PROVE  UInv'
  <1> USE DEF UInv
  <1>1. \A u \in Jobs : JobInv(u)'
    BY JobStays DEF SameJob
  <1>2. ASSUME NEW c \in Callers, call'[c].pc \in Transacting PROVE CallInv(c)'
    <2>1. CASE CallInv(c)'
      BY <2>1
    <2>2. CASE call'[c] = call[c]
      <3>1. SameJob(call[c].target) /\ CallInv(c)
        BY <1>2, <2>2 DEF SameJob
      <3> QED
        BY <2>2, <3>1, CallStays
    <2> QED
      BY <1>2, <2>1, <2>2
  <1> QED
    BY <1>1, <1>2

-----------------------------------------------------------------------------
(* The calls.                                                                   *)

\* A transaction has a target and all of its fields.
LEMMA InTransaction ==
  ASSUME UInv, NEW c \in Callers, call[c].pc \in Transacting
  PROVE  /\ call[c] \in CallRecord /\ call[c].target \in Jobs /\ JobInv(call[c].target)
         /\ CallInv(c) /\ StateInv(call[c].target)
  <1>1. call[c] \in CallRecord
    BY DEF UInv, TypeOK, CallRecord
  <1>2. call[c].target \in Jobs
    BY DEF UInv, LocksInv, Transacting, Deciding
  <1> QED
    BY <1>1, <1>2 DEF UInv, JobInv

\* A decision has a source and a name, too.
LEMMA InDecision ==
  ASSUME UInv, NEW c \in Callers, call[c].pc \in Deciding
  PROVE  /\ call[c] \in CallRecord /\ call[c].target \in Jobs /\ call[c].source \in Jobs
         /\ call[c].id \in Ids /\ call[c].target # call[c].source
         /\ JobInv(call[c].target) /\ CallInv(c) /\ DecisionInv(call[c].target, call[c].id)
         /\ StateInv(call[c].target)
  <1>1. call[c].source \in Jobs /\ call[c].id \in Ids /\ call[c].target # call[c].source
    BY DEF UInv, LocksInv
  <1> QED
    BY <1>1, InTransaction DEF JobInv, Transacting, Deciding

\* One call has moved, with its target and source, or has come to its end.
Moved(c, place) ==
  /\ call' \in [Callers -> CallRecord]
  /\ call'[c].pc = place
  /\ \A d \in Callers \ {c} : call'[d] = call[d]

OnSame(c) ==
  call'[c].target = call[c].target /\ call'[c].source = call[c].source /\ call'[c].id = call[c].id

\* Going to another place.
LEMMA GoneTo ==
  ASSUME TypeOK, NEW c \in Callers, NEW place \in Places, Goto(c, place)
  PROVE  Moved(c, place) /\ OnSame(c) /\ call'[c].base = call[c].base /\ call'[c].seen = call[c].seen
  <1> DEFINE w == [call[c] EXCEPT !.pc = place]
  <1>1. call \in [Callers -> CallRecord] /\ call[c] \in CallRecord
    BY DEF TypeOK, CallRecord
  <1>2. /\ w \in CallRecord /\ w.pc = place /\ w.target = call[c].target /\ w.source = call[c].source
        /\ w.id = call[c].id /\ w.base = call[c].base /\ w.seen = call[c].seen
    BY <1>1 DEF CallRecord
  <1>3. call' = [call EXCEPT ![c] = w]
    BY DEF Goto
  <1> HIDE DEF w
  <1> QED
    BY <1>1, <1>2, <1>3 DEF Moved, OnSame

\* The end of a call.
LEMMA Ended ==
  ASSUME TypeOK, NEW c \in Callers, End(c)
  PROVE  Moved(c, "idle")
  <1>1. call \in [Callers -> CallRecord] /\ NoCall \in CallRecord /\ NoCall.pc = "idle"
    BY DEF TypeOK, CallRecord, NoCall, Places, Transacting, Deciding
  <1> QED
    BY <1>1 DEF Moved, End

\* A decision goes on, or a submission.
GoesOn(c, place) ==
  /\ OnSame(c)
  /\ {call[c].pc, place} \subseteq Deciding \/ {call[c].pc, place} \subseteq {"launch", "saving"}

\* The locks are kept by a call that goes on, and nobody minds one that ends.
LEMMA LocksStay ==
  ASSUME LocksInv, NEW c \in Callers, NEW place, Moved(c, place),
         place = "idle" \/ GoesOn(c, place)
  PROVE  LocksInv'
  BY DEF LocksInv, Moved, OnSame, GoesOn, Transacting, Deciding

\* A call that ends or waits without having changed a job.
LEMMA EndStep ==
  ASSUME UInv, NEW c \in Callers, End(c),
         UNCHANGED <<manifest, written, files, intact, journal, launched, recovery,
                     strangers>>,
         faults' \in Nat, answered' \in SUBSET (Jobs \X Ids)
  PROVE  UInv'
  <1>1. Moved(c, "idle")
    BY Ended DEF UInv
  <1>2. TypeOK'
    BY <1>1 DEF UInv, TypeOK, Moved, CallRecord
  <1>3. LocksInv'
    BY <1>1, LocksStay DEF UInv
  <1>4. \A d \in Callers : call'[d].pc \in Transacting => call'[d] = call[d]
    BY <1>1 DEF Moved, Transacting, Deciding
  <1> QED
    BY <1>2, <1>3, <1>4, QuietStep

-----------------------------------------------------------------------------
(* The decision.                                                                *)

\* A transaction takes jobs that no other holds.
LEMMA LocksTaken ==
  ASSUME LocksInv, NEW c \in Callers, NEW t \in Jobs, NEW s \in Jobs, t # s, Free(t), Free(s),
         ~(call[c].pc \in Transacting), call'[c].pc \in Deciding,
         call'[c].target = t, call'[c].source = s, call'[c].id \in Ids,
         \A d \in Callers \ {c} : call'[d] = call[d]
  PROVE  LocksInv'
  <1>1. ASSUME NEW d \in Callers, d # c, call[d].pc \in Transacting
        PROVE  {t, s} \intersect {call[d].target, call[d].source} = {}
    BY <1>1 DEF Free
  <1>2. \A d \in Callers : call'[d].pc # "idle" => call'[d].target \in Jobs
    BY DEF LocksInv
  <1>3. \A d \in Callers : call'[d].pc \in Deciding =>
          /\ call'[d].source \in Jobs /\ call'[d].id \in Ids
          /\ call'[d].target # call'[d].source
    BY DEF LocksInv
  <1>4. \A d \in Callers : call'[d].pc \in {"submit", "launch", "saving"} => call'[d].source = NoJob
    BY DEF LocksInv, Deciding
  <1>5. \A d, e \in Callers :
          d # e /\ call'[d].pc \in Transacting /\ call'[e].pc \in Transacting =>
            {call'[d].target, call'[d].source} \intersect {call'[e].target, call'[e].source}
              \subseteq {NoJob}
    BY <1>1 DEF LocksInv
  <1> QED
    BY <1>2, <1>3, <1>4, <1>5 DEF LocksInv

\* A decision that is new, or one that was interrupted and is taken up.
LEMMA ReferenceStep ==
  ASSUME UInv, NEW c \in Callers, NEW t \in Jobs, NEW s \in Jobs, NEW i \in Ids,
         Reference(c, t, s, i)
  PROVE  UInv'
  <1> USE DEF UInv
  <1>1. /\ UNCHANGED <<manifest, written, files, intact, journal, launched, recovery,
                       answered, faults, strangers>>
        /\ call[c].pc = "idle" /\ Free(t) /\ Free(s) /\ t # s
    BY DEF Reference, Reusable, At
  <1>2. PICK place \in {"recheck", "copy"} :
          /\ Enter(c, t, s, i, place)
          /\ place = "recheck" => Fresh(t, s, i)
          /\ place = "copy" => Interrupted(t, s, i)
    BY DEF Reference
  <1> DEFINE w == [pc |-> place, target |-> t, source |-> s, id |-> i,
                   seen |-> manifest[s].generation, base |-> manifest[t].generation]
  <1>3. w \in CallRecord /\ call \in [Callers -> CallRecord]
    <2>1. manifest[s].generation \in Nat /\ manifest[t].generation \in Nat
      BY DEF TypeOK, Manifest
    <2> QED
      BY <2>1 DEF CallRecord, Places, TypeOK, Transacting, Deciding
  <1>4. call' = [call EXCEPT ![c] = w]
    BY <1>2 DEF Enter
  <1>5. /\ call' \in [Callers -> CallRecord] /\ call'[c].pc = place /\ call'[c].target = t
        /\ call'[c].source = s /\ call'[c].id = i
        /\ \A d \in Callers \ {c} : call'[d] = call[d]
    BY <1>3, <1>4
  <1>6. TypeOK'
    BY <1>1, <1>5 DEF TypeOK, CallRecord
  <1>7. LocksInv'
    <2>1. ~(call[c].pc \in Transacting) /\ call'[c].pc \in Deciding
      BY <1>1, <1>5 DEF Transacting, Deciding
    <2> QED
      BY <1>1, <1>5, <2>1, LocksTaken
  <1>8. CallInv(c)'
    <2>1. CASE place = "recheck"
      <3>1. manifest'[t].state = "CREATED" /\ manifest'[t].decisions[i] = NoDecision
        BY <1>1, <1>2, <2>1 DEF Fresh
      <3> QED
        BY <1>5, <2>1, <3>1 DEF CallInv, CutOff, Transacting, Deciding
    <2>2. CASE place = "copy"
      <3>1. Refers(t, i) /\ manifest[t].generation = journal[t][i].prepared /\ DecisionInv(t, i)
        BY <1>2, <2>2 DEF Interrupted, Same, Refers, JobInv
      <3>2. manifest[t].state = "CREATED" /\ Holds(t, i) /\ manifest[t].decisions[i].status = "prepared"
        BY <3>1 DEF DecisionInv, CutOff
      <3>3. manifest'[t].state = "CREATED" /\ Holds(t, i)' /\ manifest'[t].decisions[i].status = "prepared"
        BY <1>1, <3>2 DEF Holds, Refers
      <3> QED
        BY <1>5, <2>2, <3>3 DEF CallInv, CutOff, Transacting, Deciding
    <2> QED
      BY <2>1, <2>2
  <1> QED
    BY <1>1, <1>5, <1>6, <1>7, <1>8, QuietStep

\* What a journal notes besides its bundle and its generation.
LEMMA JournalNoted ==
  ASSUME UInv, NEW t \in Jobs, NEW i \in Ids, NEW e \in Journal, Set(t, i, e),
         journal[t][i] # NoJournal, e.bundle = journal[t][i].bundle,
         e.prepared = journal[t][i].prepared,
         UNCHANGED <<manifest, written, files, launched, recovery>>
  PROVE  /\ journal' \in [Jobs -> [Ids -> Journal \union {NoJournal}]]
         /\ \A u \in Jobs \ {t} : SameJob(u)
         /\ JobInv(t)'
         /\ \A o \in Ids : (Holds(t, o)' <=> Holds(t, o)) /\ (Succeeded(t, o)' <=> Succeeded(t, o))
                          /\ (Copied(t, o)' <=> Copied(t, o))
  <1> USE DEF UInv
  <1>1. journal \in [Jobs -> [Ids -> Journal \union {NoJournal}]] /\ e # NoJournal
    BY NothingAssumption DEF TypeOK
  <1>2. /\ journal' \in [Jobs -> [Ids -> Journal \union {NoJournal}]]
        /\ journal'[t][i] = e
        /\ \A o \in Ids \ {i} : journal'[t][o] = journal[t][o]
        /\ \A u \in Jobs \ {t} : journal'[u] = journal[u]
    BY <1>1 DEF Set
  <1>3. \A u \in Jobs \ {t} : SameJob(u)
    BY <1>2 DEF SameJob
  <1>4. \A o \in Ids : /\ (journal'[t][o] # NoJournal <=> journal[t][o] # NoJournal)
                       /\ journal'[t][o].bundle = journal[t][o].bundle
                       /\ journal'[t][o].prepared = journal[t][o].prepared
    BY <1>1, <1>2
  <1>5. \A o \in Ids : /\ (Holds(t, o)' <=> Holds(t, o)) /\ (Succeeded(t, o)' <=> Succeeded(t, o))
                       /\ (Copied(t, o)' <=> Copied(t, o)) /\ (Refers(t, o)' <=> Refers(t, o))
    BY DEF Holds, Succeeded, Copied, Refers
  <1>6. \A o \in Ids : Alone(t, o)' <=> Alone(t, o)
    BY <1>4, <1>5 DEF Alone
  <1>7. JobInv(t)
    OBVIOUS
  <1>8. StateInv(t)'
    BY <1>7 DEF JobInv, StateInv, Whole, CutOff
  <1>9. ASSUME NEW o \in Ids PROVE DecisionInv(t, o)'
    <2>1. DecisionInv(t, o)
      BY <1>7 DEF JobInv
    <2> QED
      BY <1>4, <1>5, <1>6, <2>1 DEF DecisionInv, Whole, CutOff
  <1> QED
    BY <1>2, <1>3, <1>5, <1>8, <1>9 DEF JobInv

\* A transaction's step on its own target concerns no other call.
LEMMA OwnStep ==
  ASSUME UInv, NEW c \in Callers, call[c].pc \in Transacting, NEW t \in Jobs, t = call[c].target,
         NEW place \in Places, Moved(c, place),
         place = "idle" \/ (GoesOn(c, place) /\ CallInv(c)')
  PROVE  /\ LocksInv'
         /\ \A d \in Callers : call'[d].pc \in Transacting =>
              \/ call'[d].target # t /\ call'[d] = call[d]
              \/ CallInv(d)'
  <1>1. LocksInv'
    BY LocksStay DEF UInv
  <1>2. ASSUME NEW d \in Callers, call'[d].pc \in Transacting
        PROVE  (call'[d].target # t /\ call'[d] = call[d]) \/ CallInv(d)'
    <2>1. CASE d = c
      BY <1>2, <2>1 DEF Moved, Transacting, Deciding
    <2>2. CASE d # c
      <3>1. call'[d] = call[d]
        BY <2>2 DEF Moved
      <3>2. call[d].target # t
        BY <1>2, <2>2, <3>1, TargetIsOwn DEF UInv
      <3> QED
        BY <3>1, <3>2
    <2> QED
      BY <2>1, <2>2
  <1> QED
    BY <1>1, <1>2

\* Everything the caller of a decision is told was not lost on the way: the journal that is
\* about to be written names the results of one computation.
LEMMA PrepareStep ==
  ASSUME UInv, NEW c \in Callers, Prepare(c)
  PROVE  UInv'
  <1> USE DEF UInv
  <1> PICK t \in Jobs, s \in Jobs, i \in Ids :
         t = call[c].target /\ s = call[c].source /\ i = call[c].id /\ t # s
    <2>1. call[c].pc \in Deciding
      BY DEF Prepare, At, Transacting, Deciding
    <2> QED
      BY <2>1, InDecision
  <1>1. /\ call[c].pc = "recheck" /\ call[c].pc \in Deciding /\ call[c].pc \in Transacting
        /\ JobInv(t) /\ StateInv(t) /\ DecisionInv(t, i) /\ CallInv(c)
    BY InDecision DEF Prepare, At, Transacting, Deciding
  <1>2. /\ UNCHANGED <<manifest, files, intact, launched, recovery, answered, faults,
                       strangers>>
        /\ manifest[s].state = "DONE" /\ Goto(c, "save")
        /\ written' = [written EXCEPT ![t] = @ + 1]
    BY DEF Prepare, Unchanged, Reusable, Verified
  <1> DEFINE e == [status |-> "preparing", source |-> s, bundle |-> manifest[s].hashes,
                   base |-> call[c].base, prepared |-> written[t] + 1, done |-> 0]
  <1>3. Set(t, i, e)
    BY DEF Prepare
  <1>4. manifest[t].decisions[i] = NoDecision /\ manifest[t].state = "CREATED"
    BY <1>1 DEF CallInv, CutOff, Transacting, Deciding
  <1>5. Whole(manifest[s].hashes)
    BY <1>2 DEF JobInv, StateInv, CutOff
  <1>6. e \in Journal
    <2>1. manifest[s].hashes \in Bundle
      BY <1>5 DEF Whole, ResultsOf, Bundle, Contents, TypeOK
    <2>2. call[c].base \in Nat /\ written[t] + 1 \in Nat
      BY <1>1, InDecision DEF CallRecord, TypeOK
    <2> QED
      BY <2>1, <2>2 DEF Journal
  <1>7. e.bundle = manifest[s].hashes /\ e.prepared = written[t] + 1 /\ e # NoJournal
    BY <1>6, NothingAssumption
  <1> HIDE DEF e
  <1>8. journal \in [Jobs -> [Ids -> Journal \union {NoJournal}]]
    BY DEF TypeOK
  <1>9. /\ journal' \in [Jobs -> [Ids -> Journal \union {NoJournal}]]
        /\ journal'[t][i] = e
        /\ \A o \in Ids \ {i} : journal'[t][o] = journal[t][o]
        /\ \A u \in Jobs \ {t} : journal'[u] = journal[u]
    BY <1>3, <1>6, <1>8 DEF Set
  <1>w. /\ written' \in [Jobs -> Nat] /\ written'[t] = written[t] + 1 /\ written[t] \in Nat
        /\ \A u \in Jobs \ {t} : written'[u] = written[u]
    BY <1>2 DEF TypeOK
  <1>10. Moved(c, "save") /\ OnSame(c)
    BY <1>2, GoneTo DEF Places, Transacting, Deciding
  <1>11. TypeOK'
    BY <1>2, <1>9, <1>10, <1>w DEF TypeOK, Moved, CallRecord
  <1>12. \A o \in Ids : (Refers(t, o)' <=> Refers(t, o)) /\ (Refers(t, o) => o # i)
    BY <1>2, <1>4 DEF Refers
  <1>13. StateInv(t)'
    <2>1. manifest[t].generation \in Nat
      BY DEF TypeOK, Manifest
    <2> QED
      BY <1>1, <1>2, <1>w, <2>1 DEF StateInv, Whole, CutOff
  <1>14. ASSUME NEW o \in Ids PROVE DecisionInv(t, o)'
    <2>1. DecisionInv(t, o)
      BY <1>1 DEF JobInv
    <2>2. (journal[t][o] # NoJournal => Whole(journal[t][o].bundle))'
      <3>1. CASE o = i
        BY <1>2, <1>5, <1>7, <1>9, <3>1 DEF Whole
      <3>2. CASE o # i
        BY <1>2, <1>9, <2>1, <3>2 DEF DecisionInv, Whole, CutOff
      <3> QED
        BY <3>1, <3>2
    <2>3. Succeeded(t, o)' <=> Succeeded(t, o)
      BY <1>2 DEF Succeeded
    <2>4. Succeeded(t, o)' => o # i
      BY <1>4, <2>3 DEF Succeeded
    <2>5. CASE o = i
      BY <1>12, <2>2, <2>4, <2>5 DEF DecisionInv, CutOff
    <2>6. CASE o # i
      <3>1. journal'[t][o] = journal[t][o]
        BY <1>9, <2>6
      <3>2. Refers(t, o) /\ Alone(t, o) => Alone(t, o)'
        BY <1>9, <1>12, <3>1 DEF Alone
      <3>3. (Holds(t, o)' <=> Holds(t, o)) /\ (Copied(t, o)' <=> Copied(t, o))
        BY <1>2 DEF Holds, Copied, Refers
      <3>4. Refers(t, o) => journal'[t][o].prepared <= written'[t]
        <4> SUFFICES ASSUME Refers(t, o) PROVE journal[t][o].prepared <= written[t] + 1
          BY <1>w, <3>1
        <4>1. journal[t][o] \in Journal /\ journal[t][o].prepared <= written[t]
          BY <1>8, <2>1 DEF DecisionInv, CutOff
        <4> QED
          BY <1>w, <4>1 DEF Journal
      <3> QED
        BY <1>2, <1>12, <2>1, <2>2, <2>3, <3>1, <3>2, <3>3, <3>4 DEF DecisionInv, CutOff
    <2> QED
      BY <2>5, <2>6
  <1>15. CallInv(c)'
    <2>1. call'[c].target = t /\ call'[c].id = i /\ call'[c].pc = "save"
      BY <1>10 DEF Moved, OnSame
    <2>2. Alone(t, i)'
      <3> SUFFICES ASSUME NEW o \in Ids \ {i}, Refers(t, o)
                   PROVE  journal'[t][o].prepared # journal'[t][i].prepared
        BY <1>12 DEF Alone
      <3>1. DecisionInv(t, o)
        BY <1>1 DEF JobInv
      <3>2. journal'[t][o].prepared = journal[t][o].prepared /\ journal'[t][i].prepared = written[t] + 1
        BY <1>7, <1>9
      <3>3. journal[t][o].prepared <= written[t] /\ journal[t][o].prepared \in Nat /\ written[t] \in Nat
        <4>1. journal[t][o] \in Journal
          BY <1>8, <3>1 DEF DecisionInv, CutOff
        <4>2. written[t] \in Nat
          BY DEF TypeOK
        <4> QED
          BY <3>1, <4>1, <4>2 DEF DecisionInv, Journal, CutOff
      <3> QED
        BY <3>2, <3>3
    <2>3. journal'[t][i] # NoJournal /\ journal'[t][i].prepared <= written'[t]
      BY <1>7, <1>9, <1>w
    <2> QED
      BY <1>2, <1>4, <2>1, <2>2, <2>3 DEF CallInv, CutOff, Transacting, Deciding
  <1> QED
    <2>1. \A u \in Jobs \ {t} : SameJob(u)
      BY <1>2, <1>9, <1>w DEF SameJob
    <2>2. JobInv(t)'
      BY <1>13, <1>14 DEF JobInv
    <2>3. /\ LocksInv'
          /\ \A d \in Callers : call'[d].pc \in Transacting =>
               \/ call'[d].target # t /\ call'[d] = call[d]
               \/ CallInv(d)'
      BY <1>1, <1>10, <1>15, OwnStep DEF Places, GoesOn, Transacting, Deciding
    <2> QED
      BY <1>2, <1>11, <2>1, <2>2, <2>3, JobStep

\* The prepared manifest is noted.
LEMMA MarkPreparedStep ==
  ASSUME UInv, NEW c \in Callers, MarkPrepared(c)
  PROVE  UInv'
  <1> USE DEF UInv
  <1>0. call[c].pc \in {"mark"} /\ call[c].pc \in Deciding /\ call[c].pc \in Transacting
    BY DEF MarkPrepared, At, Transacting, Deciding
  <1> PICK t \in Jobs, s \in Jobs, i \in Ids :
         t = call[c].target /\ s = call[c].source /\ i = call[c].id /\ t # s
    BY <1>0, InDecision
  <1>1. JobInv(t) /\ StateInv(t) /\ DecisionInv(t, i) /\ CallInv(c)
    BY <1>0, InDecision
  <1> DEFINE e == [journal[t][i] EXCEPT !.status = "prepared"]
  <1>2. /\ UNCHANGED <<manifest, written, files, intact, launched, recovery, answered,
                       faults, strangers>>
        /\ Goto(c, "copy") /\ Set(t, i, e)
    BY DEF MarkPrepared
  <1>3. journal[t][i] # NoJournal /\ e \in Journal /\ e.bundle = journal[t][i].bundle
        /\ e.prepared = journal[t][i].prepared
    <2>1. Refers(t, i)
      BY <1>0, <1>1 DEF CallInv, Holds, CutOff, Transacting, Deciding
    <2>2. journal[t][i] \in Journal
      BY <1>1, <2>1 DEF DecisionInv, TypeOK, CutOff
    <2>3. call[c].base \in Nat
      BY <1>0, InDecision DEF CallRecord
    <2> QED
      BY <1>1, <2>1, <2>2, <2>3 DEF DecisionInv, Journal, CutOff
  <1> HIDE DEF e
  <1>4. /\ journal' \in [Jobs -> [Ids -> Journal \union {NoJournal}]]
        /\ \A u \in Jobs \ {t} : SameJob(u)
        /\ JobInv(t)'
        /\ \A o \in Ids : (Holds(t, o)' <=> Holds(t, o)) /\ (Succeeded(t, o)' <=> Succeeded(t, o))
                         /\ (Copied(t, o)' <=> Copied(t, o))
    BY <1>2, <1>3, JournalNoted
  <1>5. Moved(c, "copy") /\ OnSame(c)
    BY <1>2, GoneTo DEF Places, Transacting, Deciding
  <1>6. TypeOK'
    BY <1>2, <1>4, <1>5 DEF TypeOK, Moved, CallRecord
  <1>7. CallInv(c)'
    <2>1. call'[c].target = t /\ call'[c].id = i /\ call'[c].pc = "copy"
      BY <1>5 DEF Moved, OnSame
    <2> QED
      BY <1>0, <1>1, <1>2, <1>4, <2>1 DEF CallInv, CutOff, Transacting, Deciding
  <1> QED
    <2>1. /\ LocksInv'
          /\ \A d \in Callers : call'[d].pc \in Transacting =>
               \/ call'[d].target # t /\ call'[d] = call[d]
               \/ CallInv(d)'
      BY <1>0, <1>5, <1>7, OwnStep DEF Places, GoesOn, Transacting, Deciding
    <2> QED
      BY <1>2, <1>4, <1>6, <2>1, JobStep

\* The completed manifest is noted.
LEMMA RecordDoneStep ==
  ASSUME UInv, NEW c \in Callers, RecordDone(c)
  PROVE  UInv'
  <1> USE DEF UInv
  <1>0. call[c].pc \in {"record"} /\ call[c].pc \in Deciding /\ call[c].pc \in Transacting
    BY DEF RecordDone, At, Transacting, Deciding
  <1> PICK t \in Jobs, s \in Jobs, i \in Ids :
         t = call[c].target /\ s = call[c].source /\ i = call[c].id /\ t # s
    BY <1>0, InDecision
  <1>1. JobInv(t) /\ StateInv(t) /\ DecisionInv(t, i) /\ CallInv(c)
    BY <1>0, InDecision
  <1> DEFINE e == [journal[t][i] EXCEPT !.status = "succeeded", !.done = call[c].base]
  <1>2. /\ UNCHANGED <<manifest, written, files, intact, launched, recovery, answered,
                       faults, strangers>>
        /\ Goto(c, "check") /\ Set(t, i, e)
    BY DEF RecordDone
  <1>3. journal[t][i] # NoJournal /\ e \in Journal /\ e.bundle = journal[t][i].bundle
        /\ e.prepared = journal[t][i].prepared
    <2>1. Refers(t, i)
      BY <1>0, <1>1 DEF CallInv, Holds, CutOff, Transacting, Deciding
    <2>2. journal[t][i] \in Journal
      BY <1>1, <2>1 DEF DecisionInv, TypeOK, CutOff
    <2>3. call[c].base \in Nat
      BY <1>0, InDecision DEF CallRecord
    <2> QED
      BY <1>1, <2>1, <2>2, <2>3 DEF DecisionInv, Journal, CutOff
  <1> HIDE DEF e
  <1>4. /\ journal' \in [Jobs -> [Ids -> Journal \union {NoJournal}]]
        /\ \A u \in Jobs \ {t} : SameJob(u)
        /\ JobInv(t)'
        /\ \A o \in Ids : (Holds(t, o)' <=> Holds(t, o)) /\ (Succeeded(t, o)' <=> Succeeded(t, o))
                         /\ (Copied(t, o)' <=> Copied(t, o))
    BY <1>2, <1>3, JournalNoted
  <1>5. Moved(c, "check") /\ OnSame(c)
    BY <1>2, GoneTo DEF Places, Transacting, Deciding
  <1>6. TypeOK'
    BY <1>2, <1>4, <1>5 DEF TypeOK, Moved, CallRecord
  <1>7. CallInv(c)'
    <2>1. call'[c].target = t /\ call'[c].id = i /\ call'[c].pc = "check"
      BY <1>5 DEF Moved, OnSame
    <2> QED
      BY <1>0, <1>1, <1>2, <1>4, <2>1 DEF CallInv, CutOff, Transacting, Deciding
  <1> QED
    <2>1. /\ LocksInv'
          /\ \A d \in Callers : call'[d].pc \in Transacting =>
               \/ call'[d].target # t /\ call'[d] = call[d]
               \/ CallInv(d)'
      BY <1>0, <1>5, <1>7, OwnStep DEF Places, GoesOn, Transacting, Deciding
    <2> QED
      BY <1>2, <1>4, <1>6, <2>1, JobStep

\* That nothing was completed is noted.
LEMMA UnmarkStep ==
  ASSUME UInv, NEW c \in Callers, Unmark(c)
  PROVE  UInv'
  <1> USE DEF UInv
  <1>0. call[c].pc \in {"unmark"} /\ call[c].pc \in Deciding /\ call[c].pc \in Transacting
    BY DEF Unmark, At, Transacting, Deciding
  <1> PICK t \in Jobs, s \in Jobs, i \in Ids :
         t = call[c].target /\ s = call[c].source /\ i = call[c].id /\ t # s
    BY <1>0, InDecision
  <1>1. JobInv(t) /\ StateInv(t) /\ DecisionInv(t, i) /\ CallInv(c)
    BY <1>0, InDecision
  <1> DEFINE e == [journal[t][i] EXCEPT !.status = "prepared", !.done = 0]
  <1>2. /\ UNCHANGED <<manifest, written, files, intact, launched, recovery, answered,
                       faults, strangers>>
        /\ End(c) /\ Set(t, i, e)
    BY DEF Unmark
  <1>3. journal[t][i] # NoJournal /\ e \in Journal /\ e.bundle = journal[t][i].bundle
        /\ e.prepared = journal[t][i].prepared
    <2>1. Refers(t, i)
      BY <1>0, <1>1 DEF CallInv, Holds, CutOff, Transacting, Deciding
    <2>2. journal[t][i] \in Journal
      BY <1>1, <2>1 DEF DecisionInv, TypeOK, CutOff
    <2>3. call[c].base \in Nat
      BY <1>0, InDecision DEF CallRecord
    <2> QED
      BY <1>1, <2>1, <2>2, <2>3 DEF DecisionInv, Journal, CutOff
  <1> HIDE DEF e
  <1>4. /\ journal' \in [Jobs -> [Ids -> Journal \union {NoJournal}]]
        /\ \A u \in Jobs \ {t} : SameJob(u)
        /\ JobInv(t)'
        /\ \A o \in Ids : (Holds(t, o)' <=> Holds(t, o)) /\ (Succeeded(t, o)' <=> Succeeded(t, o))
                         /\ (Copied(t, o)' <=> Copied(t, o))
    BY <1>2, <1>3, JournalNoted
  <1>5. Moved(c, "idle")
    BY <1>2, Ended
  <1>6. TypeOK'
    BY <1>2, <1>4, <1>5 DEF TypeOK, Moved, CallRecord
  <1> QED
    <2>1. /\ LocksInv'
          /\ \A d \in Callers : call'[d].pc \in Transacting =>
               \/ call'[d].target # t /\ call'[d] = call[d]
               \/ CallInv(d)'
      BY <1>0, <1>5, OwnStep DEF Places, GoesOn, Transacting, Deciding
    <2> QED
      BY <1>2, <1>4, <1>6, <2>1, JobStep

\* A decision that has succeeded is answered again.
LEMMA RepeatStep ==
  ASSUME UInv, NEW c \in Callers, NEW t \in Jobs, NEW s \in Jobs, NEW i \in Ids, Repeat(c, t, s, i)
  PROVE  UInv'
  <1> USE DEF UInv
  <1> DEFINE e == [journal[t][i] EXCEPT !.status = "succeeded", !.done = manifest[t].generation]
  <1>1. /\ UNCHANGED <<manifest, written, files, intact, call, launched, recovery, faults,
                       strangers>>
        /\ Free(t) /\ Set(t, i, e) /\ journal[t][i] # NoJournal
        /\ answered' = answered \union {<<t, i>>}
    BY DEF Repeat, Completed, Same
  <1>2. e \in Journal /\ e.bundle = journal[t][i].bundle /\ e.prepared = journal[t][i].prepared
    <2>1. journal[t][i] \in Journal /\ manifest[t].generation \in Nat
      BY <1>1 DEF TypeOK, Manifest
    <2> QED
      BY <2>1 DEF Journal
  <1> HIDE DEF e
  <1>3. /\ journal' \in [Jobs -> [Ids -> Journal \union {NoJournal}]]
        /\ \A u \in Jobs \ {t} : SameJob(u)
        /\ JobInv(t)'
    BY <1>1, <1>2, JournalNoted
  <1>4. TypeOK'
    BY <1>1, <1>3 DEF TypeOK
  <1>5. LocksInv' /\ \A d \in Callers : call'[d].pc \in Transacting => call'[d].target # t
    BY <1>1 DEF LocksInv, At, Free
  <1> QED
    BY <1>1, <1>3, <1>4, <1>5, JobStep

\* Everything is compared: what is there is what the decision copies.
LEMMA CompareStep ==
  ASSUME UInv, NEW c \in Callers, Compare(c)
  PROVE  UInv'
  <1> USE DEF UInv
  <1>0. call[c].pc \in {"copy"} /\ call[c].pc \in Deciding /\ call[c].pc \in Transacting
    BY DEF Compare, At, Transacting, Deciding
  <1> PICK t \in Jobs, s \in Jobs, i \in Ids :
         t = call[c].target /\ s = call[c].source /\ i = call[c].id /\ t # s
    BY <1>0, InDecision
  <1>1. JobInv(t) /\ StateInv(t) /\ DecisionInv(t, i) /\ CallInv(c)
    BY <1>0, InDecision
  <1>2. /\ UNCHANGED <<manifest, written, files, intact, journal, launched, recovery,
                       answered, faults, strangers>>
        /\ Goto(c, "done") /\ files[t] = manifest[t].decisions[i].bundle
    BY DEF Compare, Alike
  <1>3. Moved(c, "done") /\ OnSame(c)
    BY <1>2, GoneTo DEF Places, Transacting, Deciding
  <1>4. TypeOK'
    BY <1>2, <1>3 DEF TypeOK, Moved, CallRecord
  <1>5. LocksInv'
    BY <1>0, <1>3, LocksStay DEF GoesOn, Deciding
  <1>6. CallInv(c)'
    <2>1. call'[c].target = t /\ call'[c].id = i /\ call'[c].pc = "done"
      BY <1>3 DEF Moved, OnSame
    <2>2. Holds(t, i)' /\ Copied(t, i)'
      BY <1>0, <1>1, <1>2 DEF CallInv, Holds, Copied, Refers, CutOff, Transacting, Deciding
    <2> QED
      BY <1>0, <1>1, <1>2, <2>1, <2>2 DEF CallInv, CutOff, Transacting, Deciding
  <1> QED
    BY <1>2, <1>3, <1>4, <1>5, <1>6, QuietStep DEF Moved

\* What was completed is to be taken back; the job has not been submitted meanwhile.
LEMMA ContradictedStep ==
  ASSUME UInv, NEW c \in Callers, Contradicted(c)
  PROVE  UInv'
  <1> USE DEF UInv
  <1>0. call[c].pc \in {"done", "record", "check"} /\ call[c].pc \in Deciding /\ call[c].pc \in Transacting
    BY DEF Contradicted, At, Transacting, Deciding
  <1> PICK t \in Jobs, s \in Jobs, i \in Ids :
         t = call[c].target /\ s = call[c].source /\ i = call[c].id /\ t # s
    BY <1>0, InDecision
  <1>1. JobInv(t) /\ StateInv(t) /\ DecisionInv(t, i) /\ CallInv(c)
    BY <1>0, InDecision
  <1>2. /\ UNCHANGED <<manifest, written, files, intact, journal, launched, recovery,
                       answered, strangers>>
        /\ Goto(c, "undo") /\ faults' \in Nat
    BY DEF Contradicted, Fault, TypeOK
  <1>3. Moved(c, "undo") /\ OnSame(c)
    BY <1>2, GoneTo DEF Places, Transacting, Deciding
  <1>4. TypeOK'
    BY <1>2, <1>3 DEF TypeOK, Moved, CallRecord
  <1>5. LocksInv'
    BY <1>0, <1>3, LocksStay DEF GoesOn, Deciding
  <1>6. CallInv(c)'
    <2>1. call'[c].target = t /\ call'[c].id = i /\ call'[c].pc = "undo"
      BY <1>3 DEF Moved, OnSame
    <2>2. Holds(t, i)'
      BY <1>0, <1>1, <1>2 DEF CallInv, Holds, Refers, CutOff, Transacting, Deciding
    <2>3. t \in launched => CutOff(t)
      BY <1>0, <1>1 DEF CallInv, StateInv, DecisionInv, CutOff, Transacting, Deciding
    <2> QED
      BY <1>2, <2>1, <2>2, <2>3 DEF CallInv, Transacting, Deciding, CutOff
  <1> QED
    BY <1>2, <1>3, <1>4, <1>5, <1>6, QuietStep DEF Moved

\* Success, refusal and death end a transaction and change no job.
LEMMA EndsStep ==
  ASSUME UInv, NEW c \in Callers, Answer(c) \/ Refuse(c) \/ Stop(c)
  PROVE  UInv'
  <1> USE DEF UInv
  <1>1. CASE Answer(c)
    <2>1. call[c].target \in Jobs /\ call[c].id \in Ids
      BY <1>1, InDecision DEF Answer, At, Transacting, Deciding
    <2>2. answered' \in SUBSET (Jobs \X Ids) /\ faults' \in Nat
      BY <1>1, <2>1 DEF Answer, TypeOK
    <2> QED
      BY <1>1, <2>2, EndStep DEF Answer
  <1>2. CASE Refuse(c)
    BY <1>2, EndStep DEF Refuse, TypeOK
  <1>3. CASE Stop(c)
    BY <1>3, EndStep DEF Stop, Fault, TypeOK
  <1> QED
    BY <1>1, <1>2, <1>3

-----------------------------------------------------------------------------
(* A new generation of a manifest.                                              *)

\* The manifest that has been written: what was to be written, in the newest generation.
Rewritten(t, m) ==
  /\ manifest' \in [Jobs -> Manifest] /\ written' \in [Jobs -> Nat]
  /\ manifest'[t].state = m.state /\ manifest'[t].hashes = m.hashes
  /\ manifest'[t].decisions = m.decisions /\ manifest'[t].reference = m.reference
  /\ manifest'[t].generation = written'[t] /\ written'[t] = written[t] + 1
  /\ \A u \in Jobs \ {t} : manifest'[u] = manifest[u] /\ written'[u] = written[u]

LEMMA WriteResult ==
  ASSUME TypeOK, NEW t \in Jobs, NEW m \in Manifest, Write(t, m)
  PROVE  Rewritten(t, m)
  <1> DEFINE w == [m EXCEPT !.generation = written[t] + 1]
  <1>1. written \in [Jobs -> Nat] /\ written[t] + 1 \in Nat /\ manifest \in [Jobs -> Manifest]
    BY DEF TypeOK
  <1>2. /\ w \in Manifest /\ w.state = m.state /\ w.hashes = m.hashes /\ w.decisions = m.decisions
        /\ w.reference = m.reference /\ w.generation = written[t] + 1
    BY <1>1 DEF Manifest
  <1>3. manifest' = [manifest EXCEPT ![t] = w] /\ written' = [written EXCEPT ![t] = written[t] + 1]
    BY DEF Write
  <1> HIDE DEF w
  <1> QED
    BY <1>1, <1>2, <1>3 DEF Rewritten

\* In the newest generation nothing was prepared.
LEMMA NewestIsNew ==
  ASSUME UInv, NEW t \in Jobs, NEW o \in Ids, Refers(t, o), journal' = journal,
         manifest'[t].generation = written'[t], written'[t] = written[t] + 1
  PROVE  journal'[t][o].prepared <= written'[t] /\ journal'[t][o].prepared # manifest'[t].generation
  <1>1. journal[t][o] \in Journal /\ journal[t][o].prepared <= written[t]
    BY DEF UInv, JobInv, DecisionInv, TypeOK, CutOff
  <1>2. journal[t][o].prepared \in Nat /\ written[t] \in Nat
    BY <1>1 DEF Journal, UInv, TypeOK
  <1> QED
    BY <1>1, <1>2

\* A decision that is left as it was, in a generation in which it was not prepared.
LEMMA DecisionKept ==
  ASSUME UInv, NEW t \in Jobs, NEW o \in Ids, journal' = journal, launched \subseteq launched',
         manifest'[t].decisions[o] = manifest[t].decisions[o],
         Refers(t, o) =>
           /\ Alone(t, o)'
           /\ journal'[t][o].prepared <= written'[t]
           /\ journal'[t][o].prepared # manifest'[t].generation,
         Succeeded(t, o) =>
           /\ manifest'[t].state = "DONE" /\ Holds(t, o)' /\ Copied(t, o)'
           /\ t \in launched' => CutOff(t)'
  PROVE  DecisionInv(t, o)'
  <1>1. DecisionInv(t, o)
    BY DEF UInv, JobInv
  <1>2. (Refers(t, o)' <=> Refers(t, o)) /\ (Succeeded(t, o)' <=> Succeeded(t, o))
    BY DEF Refers, Succeeded
  <1>3. (journal[t][o] # NoJournal => Whole(journal[t][o].bundle))'
    BY <1>1 DEF DecisionInv, Whole, CutOff
  <1>4. Refers(t, o) => /\ journal'[t][o] # NoJournal
                        /\ manifest'[t].decisions[o].bundle = journal'[t][o].bundle
    BY <1>1 DEF DecisionInv, CutOff
  <1> QED
    BY <1>2, <1>3, <1>4 DEF DecisionInv, CutOff

\* As long as a job has not been done, none of its decisions has succeeded.
LEMMA NotYet ==
  ASSUME UInv, NEW t \in Jobs, manifest[t].state # "DONE", NEW o \in Ids
  PROVE  ~Succeeded(t, o)
  BY DEF UInv, JobInv, DecisionInv, CutOff

-----------------------------------------------------------------------------
(* The steps that write a manifest or a file.                                   *)

\* The prepared manifest holds the results that its journal names.
LEMMA SavePreparedStep ==
  ASSUME UInv, NEW c \in Callers, SavePrepared(c)
  PROVE  UInv'
  <1> USE DEF UInv
  <1>0. call[c].pc = "save" /\ call[c].pc \in Deciding /\ call[c].pc \in Transacting
    BY DEF SavePrepared, At, Transacting, Deciding
  <1> PICK t \in Jobs, s \in Jobs, i \in Ids :
         t = call[c].target /\ s = call[c].source /\ i = call[c].id /\ t # s
    BY <1>0, InDecision
  <1>1. JobInv(t) /\ StateInv(t) /\ DecisionInv(t, i) /\ CallInv(c)
    BY <1>0, InDecision
  <1> DEFINE e == journal[t][i]
             d == [action |-> "reference", status |-> "prepared", source |-> e.source,
                   generation |-> call[c].seen, bundle |-> e.bundle]
             m == [manifest[t] EXCEPT !.hashes = e.bundle, !.reference = i, !.decisions[i] = d,
                                      !.generation = e.prepared]
  <1>2. /\ UNCHANGED <<written, files, intact, journal, launched, recovery, answered,
                       faults, strangers>>
        /\ Goto(c, "mark") /\ manifest' = [manifest EXCEPT ![t] = m]
    BY DEF SavePrepared
  <1>3. /\ manifest[t] \in Manifest /\ manifest[t].state = "CREATED"
        /\ manifest[t].decisions[i] = NoDecision /\ e # NoJournal /\ e \in Journal
        /\ e.prepared <= written[t] /\ Alone(t, i) /\ call[c].seen \in Nat
    <2>1. /\ manifest[t].state = "CREATED" /\ manifest[t].decisions[i] = NoDecision
          /\ e # NoJournal /\ e.prepared <= written[t] /\ Alone(t, i)
      BY <1>0, <1>1 DEF CallInv, CutOff, Transacting, Deciding
    <2>2. manifest[t] \in Manifest /\ e \in Journal
      BY <2>1 DEF TypeOK
    <2>3. call[c].seen \in Nat
      BY <1>0, InDecision DEF CallRecord
    <2> QED
      BY <2>1, <2>2, <2>3
  <1>4. /\ d \in Decision /\ d # NoDecision /\ d.action = "reference" /\ d.status = "prepared"
        /\ d.bundle = e.bundle
    BY <1>3, NothingAssumption DEF Decision, Journal
  <1> HIDE DEF d
  <1>5. /\ m \in Manifest /\ m.state = "CREATED" /\ m.hashes = e.bundle /\ m.reference = i
        /\ m.generation = e.prepared
        /\ m.decisions[i] = d /\ \A o \in Ids \ {i} : m.decisions[o] = manifest[t].decisions[o]
    <2>1. e.bundle \in Bundle /\ e.prepared \in Nat
      BY <1>3 DEF Journal
    <2> QED
      BY <1>3, <1>4, <2>1 DEF Manifest
  <1> HIDE DEF m
  <1>6. /\ manifest' \in [Jobs -> Manifest] /\ manifest'[t] = m
        /\ \A u \in Jobs \ {t} : manifest'[u] = manifest[u]
    BY <1>2, <1>5 DEF TypeOK
  <1>moved. Moved(c, "mark") /\ OnSame(c)
    BY <1>2, GoneTo DEF Places, Transacting, Deciding
  <1>type. TypeOK'
    BY <1>2, <1>6, <1>moved DEF TypeOK, Moved, CallRecord
  <1>same. \A u \in Jobs \ {t} : SameJob(u)
    BY <1>2, <1>6 DEF SameJob
  <1>7. Refers(t, i)' /\ Holds(t, i)' /\ ~Succeeded(t, i)' /\ ~Refers(t, i)
    <2>1. /\ manifest'[t].decisions[i] = d /\ manifest'[t].hashes = d.bundle
          /\ manifest'[t].reference = i
      BY <1>4, <1>5, <1>6
    <2>2. Refers(t, i)' /\ Holds(t, i)'
      BY <1>4, <2>1 DEF Refers, Holds
    <2>3. ~Succeeded(t, i)' /\ ~Refers(t, i)
      BY <1>3, <1>4, <2>1 DEF Refers, Succeeded
    <2> QED
      BY <2>2, <2>3
  <1>8. \A o \in Ids \ {i} : Refers(t, o)' <=> Refers(t, o)
    BY <1>5, <1>6 DEF Refers
  <1>9. StateInv(t)'
    BY <1>1, <1>2, <1>3, <1>5, <1>6, <1>type DEF StateInv, TypeOK, CutOff
  <1>10. DecisionInv(t, i)'
    <2>1. Alone(t, i)'
      BY <1>2, <1>3, <1>8 DEF Alone
    <2>2. (Whole(journal[t][i].bundle))'
      BY <1>1, <1>2, <1>3 DEF DecisionInv, Whole, CutOff
    <2>3. manifest'[t].state = "CREATED" /\ manifest'[t].decisions[i] = d
      BY <1>5, <1>6
    <2>4. journal'[t][i].prepared <= written'[t]
      BY <1>2, <1>3, <1>6
    <2> QED
      BY <1>2, <1>3, <1>4, <1>5, <1>6, <1>7, <2>1, <2>2, <2>3, <2>4 DEF DecisionInv, CutOff
  <1>11. ASSUME NEW o \in Ids, o # i PROVE DecisionInv(t, o)'
    <2>1. ~Succeeded(t, o)
      BY <1>3, NotYet
    <2>2. ASSUME Refers(t, o)
          PROVE  /\ Alone(t, o)'
                 /\ journal'[t][o].prepared <= written'[t]
                 /\ journal'[t][o].prepared # manifest'[t].generation
      <3>1. DecisionInv(t, o)
        BY <1>1 DEF JobInv
      <3>2. Alone(t, o) /\ journal[t][o].prepared <= written[t] /\ journal[t][o].prepared # e.prepared
        BY <1>3, <1>11, <2>2, <3>1 DEF DecisionInv, Alone, CutOff
      <3>3. Alone(t, o)'
        BY <1>2, <1>8, <3>2 DEF Alone
      <3> QED
        BY <1>2, <1>5, <1>6, <3>2, <3>3
    <2> QED
      BY <1>2, <1>5, <1>6, <1>11, <2>1, <2>2, DecisionKept
  <1>job. JobInv(t)'
    BY <1>9, <1>10, <1>11 DEF JobInv
  <1>call. CallInv(c)'
    <2>1. call'[c].target = t /\ call'[c].id = i /\ call'[c].pc = "mark"
      BY <1>moved DEF Moved, OnSame
    <2>2. manifest'[t].state = "CREATED" /\ manifest'[t].decisions[i].status = "prepared"
      BY <1>4, <1>5, <1>6
    <2> QED
      BY <1>7, <2>1, <2>2 DEF CallInv, CutOff, Transacting, Deciding
  <1> QED
    <2>1. /\ LocksInv'
          /\ \A k \in Callers : call'[k].pc \in Transacting =>
               \/ call'[k].target # t /\ call'[k] = call[k]
               \/ CallInv(k)'
      BY <1>0, <1>moved, <1>call, OwnStep DEF Places, GoesOn, Transacting, Deciding
    <2> QED
      BY <1>2, <1>type, <1>job, <1>same, <2>1, JobStep

\* One of the result files is copied.
LEMMA CopyStep ==
  ASSUME UInv, NEW c \in Callers, NEW f \in Files, Copy(c, f)
  PROVE  UInv'
  <1> USE DEF UInv
  <1>0. call[c].pc = "copy" /\ call[c].pc \in Deciding /\ call[c].pc \in Transacting
    BY DEF Copy, At, Transacting, Deciding
  <1> PICK t \in Jobs, s \in Jobs, i \in Ids :
         t = call[c].target /\ s = call[c].source /\ i = call[c].id /\ t # s
    BY <1>0, InDecision
  <1>1. JobInv(t) /\ StateInv(t) /\ DecisionInv(t, i) /\ CallInv(c)
    BY <1>0, InDecision
  <1> DEFINE x == files[s][f]
  <1>2. /\ UNCHANGED <<manifest, written, intact, journal, call, launched, recovery,
                       answered, faults, strangers>>
        /\ files' = [files EXCEPT ![t][f] = x]
    BY DEF Copy
  <1>3. files \in [Jobs -> [Files -> Contents \union {NoFile}]] /\ x \in Contents \union {NoFile}
    BY DEF TypeOK
  <1> HIDE DEF x
  <1>4. /\ files' \in [Jobs -> [Files -> Contents \union {NoFile}]]
        /\ \A u \in Jobs \ {t} : files'[u] = files[u]
    BY <1>2, <1>3
  <1>5. TypeOK'
    BY <1>2, <1>4 DEF TypeOK
  <1>6. LocksInv'
    BY <1>2 DEF LocksInv, At
  <1>7. manifest[t].state = "CREATED"
    BY <1>0, <1>1 DEF CallInv, CutOff, Transacting, Deciding
  <1>8. JobInv(t)'
    <2>1. StateInv(t)'
      BY <1>1, <1>2 DEF StateInv, Whole, CutOff
    <2>2. ASSUME NEW o \in Ids PROVE DecisionInv(t, o)'
      <3>1. DecisionInv(t, o) /\ ~Succeeded(t, o)
        BY <1>1, <1>7, NotYet DEF JobInv
      <3> QED
        BY <1>2, <3>1 DEF DecisionInv, Whole, Refers, Alone, Holds, Succeeded, CutOff
    <2> QED
      BY <2>1, <2>2 DEF JobInv
  <1>9. CallInv(c)'
    BY <1>0, <1>1, <1>2 DEF CallInv, Holds, Refers, CutOff, Transacting, Deciding
  <1> QED
    <2>1. \A u \in Jobs \ {t} : SameJob(u)
      BY <1>2, <1>4 DEF SameJob
    <2>2. ASSUME NEW d \in Callers, call'[d].pc \in Transacting
          PROVE  (call'[d].target # t /\ call'[d] = call[d]) \/ CallInv(d)'
      BY <1>0, <1>2, <1>9, <2>2, TargetIsOwn
    <2> QED
      BY <1>2, <1>5, <1>6, <1>8, <2>1, <2>2, JobStep

\* The job is declared done by reference: it holds everything it refers to, and was never
\* submitted.
LEMMA SaveDoneStep ==
  ASSUME UInv, NEW c \in Callers, SaveDone(c)
  PROVE  UInv'
  <1> USE DEF UInv
  <1>0. call[c].pc = "done" /\ call[c].pc \in Deciding /\ call[c].pc \in Transacting
    BY DEF SaveDone, At, Transacting, Deciding
  <1> PICK t \in Jobs, s \in Jobs, i \in Ids :
         t = call[c].target /\ s = call[c].source /\ i = call[c].id /\ t # s
    BY <1>0, InDecision
  <1>1. JobInv(t) /\ StateInv(t) /\ DecisionInv(t, i) /\ CallInv(c)
    BY <1>0, InDecision
  <1> DEFINE d == manifest[t].decisions[i]
             m == [manifest[t] EXCEPT !.state = "DONE", !.decisions[i].status = "succeeded"]
             w == [call[c] EXCEPT !.pc = "record", !.base = written[t] + 1]
  <1>2. /\ UNCHANGED <<files, intact, journal, launched, recovery, answered, faults,
                       strangers>>
        /\ call' = [call EXCEPT ![c] = w] /\ Write(t, m)
    BY DEF SaveDone
  <1>3. /\ manifest[t].state = "CREATED" /\ Holds(t, i) /\ Copied(t, i)
        /\ t \in launched => CutOff(t)
        /\ manifest[t].hashes = d.bundle /\ Whole(d.bundle) /\ d.action = "reference"
    <2>1. manifest[t].state = "CREATED" /\ Holds(t, i) /\ Copied(t, i)
      BY <1>0, <1>1 DEF CallInv, CutOff, Transacting, Deciding
    <2> QED
      BY <1>1, <2>1 DEF StateInv, DecisionInv, Holds, Refers, CutOff
  <1>4. manifest[t] \in Manifest /\ d \in Decision /\ d # NoDecision
    <2>1. manifest[t] \in Manifest /\ d # NoDecision
      BY <1>3 DEF Holds, Refers, TypeOK
    <2> QED
      BY <2>1 DEF Manifest
  <1>5. /\ m \in Manifest /\ m.state = "DONE" /\ m.hashes = manifest[t].hashes
        /\ m.reference = manifest[t].reference
        /\ m.decisions[i] # NoDecision /\ m.decisions[i].action = "reference"
        /\ m.decisions[i].status = "succeeded" /\ m.decisions[i].bundle = d.bundle
        /\ \A o \in Ids \ {i} : m.decisions[o] = manifest[t].decisions[o]
    <2> DEFINE e == [d EXCEPT !.status = "succeeded"]
    <2>1. /\ e \in Decision /\ e # NoDecision /\ e.action = "reference"
          /\ e.status = "succeeded" /\ e.bundle = d.bundle
      BY <1>3, <1>4, NothingAssumption DEF Decision
    <2>2. m = [manifest[t] EXCEPT !.state = "DONE", !.decisions = [manifest[t].decisions EXCEPT ![i] = e]]
      BY <1>4 DEF Manifest
    <2> HIDE DEF e, m
    <2> QED
      BY <1>4, <2>1, <2>2 DEF Manifest
  <1> HIDE DEF m
  <1>6. Rewritten(t, m)
    BY <1>2, <1>5, WriteResult
  <1>7. w \in CallRecord /\ w.pc = "record" /\ w.target = t /\ w.source = s /\ w.id = i
    <2>1. written[t] + 1 \in Nat /\ call[c] \in CallRecord
      BY <1>0, InDecision DEF TypeOK
    <2> QED
      BY <2>1 DEF CallRecord, Places, Transacting, Deciding
  <1> HIDE DEF w
  <1>moved. Moved(c, "record") /\ OnSame(c)
    BY <1>2, <1>7 DEF Moved, OnSame, TypeOK, CallRecord
  <1>type. TypeOK'
    BY <1>2, <1>6, <1>moved DEF TypeOK, Moved, CallRecord, Rewritten
  <1>same. \A u \in Jobs \ {t} : SameJob(u)
    BY <1>2, <1>6 DEF SameJob, Rewritten
  <1>8. Holds(t, i)' /\ Succeeded(t, i)' /\ Copied(t, i)'
    <2>1. /\ manifest'[t].hashes = manifest[t].hashes
          /\ manifest'[t].reference = manifest[t].reference
          /\ manifest'[t].decisions[i] # NoDecision
          /\ manifest'[t].decisions[i].action = "reference"
          /\ manifest'[t].decisions[i].status = "succeeded"
          /\ manifest'[t].decisions[i].bundle = d.bundle
      BY <1>5, <1>6 DEF Rewritten
    <2>2. Holds(t, i)' /\ Succeeded(t, i)'
      BY <1>3, <2>1 DEF Holds, Refers, Succeeded
    <2>3. Copied(t, i)'
      BY <1>2, <1>3, <2>1 DEF Copied
    <2> QED
      BY <2>2, <2>3
  <1>9. \A o \in Ids : Refers(t, o)' <=> Refers(t, o)
    <2>1. Refers(t, i)' /\ Refers(t, i)
      BY <1>3, <1>8 DEF Holds
    <2>2. \A o \in Ids \ {i} : Refers(t, o)' <=> Refers(t, o)
      BY <1>5, <1>6 DEF Refers, Rewritten
    <2> QED
      BY <2>1, <2>2
  <1>10. \A o \in Ids : Alone(t, o)' <=> Alone(t, o)
    BY <1>2, <1>9 DEF Alone
  <1>11. StateInv(t)'
    BY <1>1, <1>2, <1>3, <1>5, <1>6, <1>type DEF StateInv, Rewritten, TypeOK, Whole, CutOff
  <1>12. DecisionInv(t, i)'
    <2>1. /\ journal[t][i] # NoJournal /\ d.bundle = journal[t][i].bundle
          /\ journal[t][i].prepared <= written[t] /\ Alone(t, i) /\ Whole(journal[t][i].bundle)
      BY <1>1, <1>3 DEF DecisionInv, Holds, CutOff
    <2>2. journal[t][i].prepared \in Nat /\ written[t] \in Nat
      BY <2>1 DEF TypeOK, Journal
    <2>3. journal[t][i].prepared <= written'[t] /\ journal[t][i].prepared # manifest'[t].generation
      <3>1. written'[t] = written[t] + 1 /\ manifest'[t].generation = written'[t]
        BY <1>6 DEF Rewritten
      <3> QED
        BY ONLY <2>1, <2>2, <3>1
    <2>4. (Whole(journal[t][i].bundle))' /\ Alone(t, i)'
      BY <1>2, <1>10, <2>1 DEF Whole
    <2>5. manifest'[t].state = "DONE" /\ manifest'[t].decisions[i].bundle = d.bundle
      BY <1>5, <1>6 DEF Rewritten
    <2> QED
      BY <1>2, <1>3, <1>8, <2>1, <2>3, <2>4, <2>5 DEF DecisionInv, CutOff
  <1>13. ASSUME NEW o \in Ids, o # i PROVE DecisionInv(t, o)'
    <2>1. ~Succeeded(t, o) /\ (Refers(t, o) => Alone(t, o)')
      BY <1>1, <1>3, <1>10, NotYet DEF JobInv, DecisionInv, CutOff
    <2>2. manifest'[t].generation = written'[t] /\ written'[t] = written[t] + 1
      BY <1>6 DEF Rewritten
    <2> QED
      BY <1>2, <1>5, <1>6, <1>13, <2>1, <2>2, NewestIsNew, DecisionKept DEF Rewritten
  <1>job. JobInv(t)'
    BY <1>11, <1>12, <1>13 DEF JobInv
  <1>call. CallInv(c)'
    <2>1. call'[c].target = t /\ call'[c].id = i /\ call'[c].pc = "record"
      BY <1>moved DEF Moved, OnSame
    <2> QED
      BY <1>8, <2>1 DEF CallInv, CutOff, Transacting, Deciding
  <1> QED
    <2>1. /\ LocksInv'
          /\ \A k \in Callers : call'[k].pc \in Transacting =>
               \/ call'[k].target # t /\ call'[k] = call[k]
               \/ CallInv(k)'
      BY <1>0, <1>moved, <1>call, OwnStep DEF Places, GoesOn, Transacting, Deciding
    <2> QED
      BY <1>2, <1>type, <1>job, <1>same, <2>1, JobStep

\* The same bytes as were prepared are put back; nobody else's decision was prepared with them.
LEMMA UndoStep ==
  ASSUME UInv, NEW c \in Callers, Undo(c)
  PROVE  UInv'
  <1> USE DEF UInv
  <1>0. call[c].pc = "undo" /\ call[c].pc \in Deciding /\ call[c].pc \in Transacting
    BY DEF Undo, At, Transacting, Deciding
  <1> PICK t \in Jobs, s \in Jobs, i \in Ids :
         t = call[c].target /\ s = call[c].source /\ i = call[c].id /\ t # s
    BY <1>0, InDecision
  <1>1. JobInv(t) /\ StateInv(t) /\ DecisionInv(t, i) /\ CallInv(c)
    BY <1>0, InDecision
  <1> DEFINE d == manifest[t].decisions[i]
             g == journal[t][i].prepared
             m == [manifest[t] EXCEPT !.state = "CREATED", !.decisions[i].status = "prepared",
                                      !.generation = g]
  <1>2. /\ UNCHANGED <<written, files, intact, journal, launched, recovery, answered,
                       faults, strangers>>
        /\ Goto(c, "unmark") /\ manifest' = [manifest EXCEPT ![t] = m]
    BY DEF Undo
  <1>3. /\ Holds(t, i) /\ Refers(t, i) /\ d # NoDecision
        /\ t \in launched => CutOff(t)
        /\ d.action = "reference" /\ manifest[t].hashes = d.bundle /\ manifest[t].reference = i
    BY <1>0, <1>1 DEF CallInv, Holds, Refers, CutOff, Transacting, Deciding
  <1>4. /\ journal[t][i] # NoJournal /\ d.bundle = journal[t][i].bundle
        /\ g <= written[t] /\ Alone(t, i) /\ Whole(journal[t][i].bundle)
    BY <1>1, <1>3 DEF DecisionInv, CutOff
  <1>5. /\ manifest[t] \in Manifest /\ d \in Decision /\ g \in Nat
    <2>1. manifest[t] \in Manifest /\ journal[t][i] \in Journal
      BY <1>4 DEF TypeOK
    <2> QED
      BY <1>3, <2>1 DEF Manifest, Journal
  <1>6. /\ m \in Manifest /\ m.state = "CREATED" /\ m.hashes = manifest[t].hashes
        /\ m.reference = manifest[t].reference /\ m.generation = g
        /\ m.decisions[i] # NoDecision /\ m.decisions[i].action = "reference"
        /\ m.decisions[i].status = "prepared" /\ m.decisions[i].bundle = d.bundle
        /\ \A o \in Ids \ {i} : m.decisions[o] = manifest[t].decisions[o]
    <2> DEFINE e == [d EXCEPT !.status = "prepared"]
    <2>1. /\ e \in Decision /\ e # NoDecision /\ e.action = "reference"
          /\ e.status = "prepared" /\ e.bundle = d.bundle
      BY <1>3, <1>5, NothingAssumption DEF Decision
    <2>2. m = [manifest[t] EXCEPT !.state = "CREATED", !.generation = g,
                                  !.decisions = [manifest[t].decisions EXCEPT ![i] = e]]
      BY <1>5 DEF Manifest
    <2> HIDE DEF e, m, g
    <2> QED
      BY <1>5, <2>1, <2>2 DEF Manifest
  <1> HIDE DEF m
  <1>7. /\ manifest' \in [Jobs -> Manifest] /\ manifest'[t] = m
        /\ \A u \in Jobs \ {t} : manifest'[u] = manifest[u]
    BY <1>2, <1>6 DEF TypeOK
  <1>moved. Moved(c, "unmark") /\ OnSame(c)
    BY <1>2, GoneTo DEF Places, Transacting, Deciding
  <1>type. TypeOK'
    BY <1>2, <1>7, <1>moved DEF TypeOK, Moved, CallRecord
  <1>same. \A u \in Jobs \ {t} : SameJob(u)
    BY <1>2, <1>7 DEF SameJob
  <1>8. Holds(t, i)' /\ ~Succeeded(t, i)'
    BY <1>3, <1>6, <1>7 DEF Holds, Refers, Succeeded
  <1>9. \A o \in Ids : Refers(t, o)' <=> Refers(t, o)
    <2>1. Refers(t, i)' /\ Refers(t, i)
      BY <1>3, <1>8 DEF Holds
    <2>2. \A o \in Ids \ {i} : Refers(t, o)' <=> Refers(t, o)
      BY <1>6, <1>7 DEF Refers
    <2> QED
      BY <2>1, <2>2
  <1>10. \A o \in Ids : Alone(t, o)' <=> Alone(t, o)
    BY <1>2, <1>9 DEF Alone
  <1>11. StateInv(t)'
    BY <1>2, <1>3, <1>4, <1>6, <1>7 DEF StateInv, CutOff
  <1>12. DecisionInv(t, i)'
    <2>1. (Whole(journal[t][i].bundle))' /\ Alone(t, i)'
      BY <1>2, <1>4, <1>10 DEF Whole
    <2> QED
      BY <1>2, <1>4, <1>6, <1>7, <1>8, <2>1 DEF DecisionInv, CutOff
  <1>13. ASSUME NEW o \in Ids, o # i PROVE DecisionInv(t, o)'
    <2>1. DecisionInv(t, o)
      BY <1>1 DEF JobInv
    <2>2. ~Succeeded(t, o)
      BY <1>3, <1>13, <2>1 DEF DecisionInv, Holds, CutOff
    <2>3. ~Succeeded(t, o)'
      BY <1>6, <1>7, <1>13, <2>2 DEF Succeeded
    <2>4. manifest'[t].decisions[o] = manifest[t].decisions[o] /\ manifest'[t].generation = g
      BY <1>6, <1>7, <1>13
    <2>5. Refers(t, o) => journal'[t][o].prepared # manifest'[t].generation
      BY <1>2, <1>4, <1>13, <2>4 DEF Alone
    <2>6. (journal[t][o] # NoJournal => Whole(journal[t][o].bundle))'
      BY <1>2, <2>1 DEF DecisionInv, Whole, CutOff
    <2> QED
      BY <1>2, <1>9, <1>10, <2>1, <2>3, <2>4, <2>5, <2>6 DEF DecisionInv, CutOff
  <1>job. JobInv(t)'
    BY <1>11, <1>12, <1>13 DEF JobInv
  <1>call. CallInv(c)'
    <2>1. call'[c].target = t /\ call'[c].id = i /\ call'[c].pc = "unmark"
      BY <1>moved DEF Moved, OnSame
    <2> QED
      BY <1>6, <1>7, <1>8, <2>1 DEF CallInv, CutOff, Transacting, Deciding
  <1> QED
    <2>1. /\ LocksInv'
          /\ \A k \in Callers : call'[k].pc \in Transacting =>
               \/ call'[k].target # t /\ call'[k] = call[k]
               \/ CallInv(k)'
      BY <1>0, <1>moved, <1>call, OwnStep DEF Places, GoesOn, Transacting, Deciding
    <2> QED
      BY <1>2, <1>type, <1>job, <1>same, <2>1, JobStep

-----------------------------------------------------------------------------
(* Recalculation and strangers.                                                 *)

\* A job is written and none of its decisions had succeeded or is touched, but for
\* those of a set that refer to nothing.
LEMMA RewriteStep ==
  ASSUME UInv, NEW t \in Jobs, NEW m \in Manifest, Write(t, m),
         \A d \in Callers : call'[d].pc \in Transacting =>
           \/ call'[d].target # t /\ call'[d] = call[d]
           \/ CallInv(d)',
         TypeOK', LocksInv', journal' = journal, launched \subseteq launched',
         \A u \in Jobs \ {t} : /\ files'[u] = files[u]
                              /\ (u \in launched' <=> u \in launched)
                              /\ (u \in recovery' <=> u \in recovery),
         \A o \in Ids : ~Succeeded(t, o),
         \A o \in Ids : m.decisions[o] = manifest[t].decisions[o]
                       \/ m.decisions[o] = [action |-> "force"],
         m.state = "CREATED" /\ t \in launched' => CutOff(t)',
         m.state = "SUBMITTED" => t \in launched',
         m.state = "DONE" => Whole(m.hashes)
  PROVE  UInv'
  <1> USE DEF UInv
  <1>1. Rewritten(t, m)
    BY WriteResult
  <1>2. \A u \in Jobs \ {t} : SameJob(u)
    BY <1>1 DEF SameJob, Rewritten
  <1>3. \A o \in Ids : Refers(t, o)' => Refers(t, o) /\ m.decisions[o] = manifest[t].decisions[o]
    BY <1>1 DEF Refers, Rewritten
  <1>4. StateInv(t)'
    BY <1>1 DEF StateInv, Rewritten, TypeOK, Whole, CutOff
  <1>5. ASSUME NEW o \in Ids PROVE DecisionInv(t, o)'
    <2>1. DecisionInv(t, o)
      BY DEF JobInv
    <2>2. CASE m.decisions[o] = manifest[t].decisions[o]
      <3>1. Refers(t, o) => Alone(t, o)'
        BY <1>3, <2>1 DEF DecisionInv, Alone, CutOff
      <3>2. manifest'[t].generation = written'[t] /\ written'[t] = written[t] + 1
            /\ manifest'[t].decisions[o] = manifest[t].decisions[o]
        BY <1>1, <2>2 DEF Rewritten
      <3> QED
        BY <3>1, <3>2, NewestIsNew, DecisionKept
    <2>3. CASE m.decisions[o] = [action |-> "force"]
      <3>1. ~Refers(t, o)' /\ ~Succeeded(t, o)'
        BY <1>1, <2>3 DEF Refers, Succeeded, Rewritten
      <3>2. (journal[t][o] # NoJournal => Whole(journal[t][o].bundle))'
        BY <2>1 DEF DecisionInv, Whole, CutOff
      <3> QED
        BY <3>1, <3>2 DEF DecisionInv, CutOff
    <2> QED
      BY <2>2, <2>3
  <1>6. JobInv(t)'
    BY <1>4, <1>5 DEF JobInv
  <1> QED
    BY <1>2, <1>6, JobStep

\* The user insists on a recalculation.
LEMMA ForceStep ==
  ASSUME UInv, NEW t \in Jobs, NEW i \in Ids, ForceRecalculation(t, i)
  PROVE  UInv'
  <1> USE DEF UInv
  <1> DEFINE m == [manifest[t] EXCEPT !.decisions[i] = [action |-> "force"]]
  <1>1. /\ UNCHANGED <<files, intact, journal, call, launched, recovery, answered, faults,
                       strangers>>
        /\ Free(t) /\ Write(t, m) /\ manifest[t].state = "CREATED"
    BY DEF ForceRecalculation
  <1>2. manifest[t] \in Manifest
    BY DEF TypeOK
  <1>3. /\ m \in Manifest /\ m.state = "CREATED" /\ m.decisions[i] = [action |-> "force"]
        /\ \A o \in Ids \ {i} : m.decisions[o] = manifest[t].decisions[o]
    <2>1. [action |-> "force"] \in Decision
      BY DEF Decision
    <2> QED
      BY <1>1, <1>2, <2>1 DEF Manifest
  <1> HIDE DEF m
  <1>4. Rewritten(t, m)
    BY <1>1, <1>3, WriteResult
  <1>5. TypeOK'
    BY <1>1, <1>4 DEF TypeOK, Rewritten
  <1>6. LocksInv' /\ \A d \in Callers : call'[d] = call[d]
    BY <1>1 DEF LocksInv, At
  <1>7. \A o \in Ids : ~Succeeded(t, o)
    BY <1>1, NotYet
  <1>8. t \in launched => CutOff(t)
    BY <1>1 DEF JobInv, StateInv, CutOff
  <1>9. \A d \in Callers : call'[d].pc \in Transacting => call'[d].target # t
    BY <1>1, <1>6 DEF Free
  <1>10. CutOff(t)' <=> CutOff(t)
    BY <1>1 DEF CutOff
  <1> QED
    BY <1>1, <1>3, <1>5, <1>6, <1>7, <1>8, <1>9, <1>10, RewriteStep

\* Whoever goes on to submit took no lock.
LEMMA GuardStep ==
  ASSUME UInv, NEW c \in Callers, NEW t \in Jobs, Guard(c, t)
  PROVE  UInv'
  <1> USE DEF UInv
  <1> DEFINE w == [NoCall EXCEPT !.pc = "submit", !.target = t]
  <1>1. /\ UNCHANGED <<manifest, written, files, intact, journal, launched, recovery,
                       answered, faults, strangers>>
        /\ call[c].pc = "idle" /\ call' = [call EXCEPT ![c] = w]
    BY DEF Guard, At
  <1>2. w \in CallRecord /\ w.pc = "submit" /\ w.target = t /\ w.source = NoJob
    BY DEF NoCall, CallRecord, Places, Transacting, Deciding
  <1> HIDE DEF w
  <1>3. /\ call' \in [Callers -> CallRecord] /\ call'[c] = w
        /\ \A d \in Callers \ {c} : call'[d] = call[d]
    BY <1>1, <1>2 DEF TypeOK, CallRecord
  <1>4. TypeOK'
    BY <1>1, <1>3 DEF TypeOK, CallRecord
  <1>5. LocksInv'
    BY <1>2, <1>3 DEF LocksInv, At, Transacting, Deciding
  <1>6. \A d \in Callers : call'[d].pc \in Transacting => call'[d] = call[d]
    BY <1>2, <1>3 DEF Transacting, Deciding
  <1> QED
    BY <1>1, <1>4, <1>5, <1>6, QuietStep

\* A submission leaves its record before it does anything.
LEMMA SubmitStep ==
  ASSUME UInv, NEW c \in Callers, Submit(c)
  PROVE  UInv'
  <1> USE DEF UInv
  <1>1. call[c].pc = "submit" /\ call[c].target \in Jobs /\ call[c].source = NoJob
    BY DEF Submit, LocksInv, At
  <1> PICK t \in Jobs : t = call[c].target
    BY <1>1
  <1>2. /\ UNCHANGED <<manifest, written, files, intact, journal, launched, answered,
                       faults, strangers>>
        /\ recovery' = recovery \union {t} /\ Goto(c, "launch")
        /\ Free(t) /\ manifest[t].state = "CREATED"
    BY DEF Submit, Submittable
  <1>3. Moved(c, "launch") /\ OnSame(c)
    BY <1>2, GoneTo DEF Places, Transacting, Deciding
  <1>4. TypeOK'
    BY <1>2, <1>3 DEF TypeOK, Moved, CallRecord
  <1>5. \A d \in Callers \ {c} : call'[d].pc \in Transacting =>
          call'[d] = call[d] /\ t \notin {call[d].target, call[d].source}
    BY <1>2, <1>3 DEF Free, Moved
  <1>6. LocksInv'
    <2>1. /\ call'[c].pc = "launch" /\ call'[c].target = t /\ call'[c].source = NoJob
          /\ \A d \in Callers \ {c} : call'[d] = call[d]
      BY <1>1, <1>3 DEF Moved, OnSame
    <2>2. \A d, e \in Callers :
            d # e /\ call'[d].pc \in Transacting /\ call'[e].pc \in Transacting =>
              {call'[d].target, call'[d].source} \intersect {call'[e].target, call'[e].source}
                \subseteq {NoJob}
      BY <1>5, <2>1 DEF LocksInv
    <2> QED
      BY <2>1, <2>2 DEF LocksInv, Deciding
  <1>7. JobInv(t)'
    <2>1. t \in launched' => CutOff(t)'
      BY <1>2 DEF CutOff
    <2>2. StateInv(t)'
      BY <1>2, <2>1 DEF JobInv, StateInv, Whole, CutOff
    <2>3. ASSUME NEW o \in Ids PROVE DecisionInv(t, o)'
      <3>1. DecisionInv(t, o)
        BY DEF JobInv
      <3> QED
        BY <1>2, <2>1, <3>1 DEF DecisionInv, Whole, Refers, Alone, Holds, Copied, Succeeded, CutOff
    <2> QED
      BY <2>2, <2>3 DEF JobInv
  <1>8. CallInv(c)'
    BY <1>2, <1>3 DEF CallInv, Moved, OnSame, CutOff, Transacting, Deciding
  <1>9. \A u \in Jobs \ {t} : SameJob(u)
    BY <1>2 DEF SameJob
  <1>10. \A d \in Callers : call'[d].pc \in Transacting =>
           (call'[d].target # t /\ call'[d] = call[d]) \/ CallInv(d)'
    BY <1>5, <1>8
  <1> QED
    BY <1>2, <1>4, <1>6, <1>7, <1>9, <1>10, JobStep

\* A record is removed only where the manifest names the job, and then nothing is referred to.
LEMMA ReplayStep ==
  ASSUME UInv, NEW c \in Callers, Replay(c)
  PROVE  UInv'
  <1> USE DEF UInv
  <1>1. call[c].pc = "submit" /\ call[c].target \in Jobs
    BY DEF Replay, LocksInv, At
  <1> PICK t \in Jobs : t = call[c].target
    BY <1>1
  <1>2. /\ UNCHANGED <<manifest, written, files, intact, journal, launched, answered,
                       faults, strangers>>
        /\ End(c)
    BY DEF Replay
  <1>3. Moved(c, "idle")
    BY <1>2, Ended
  <1>4. CASE Free(t) /\ Recorded(t)
    <2>1. recovery' = recovery \ {t} /\ manifest[t].state # "CREATED"
      BY <1>4 DEF Replay, Recorded
    <2>2. \A o \in Ids : ~Succeeded(t, o)
      BY <1>4, NamesAssumption DEF JobInv, DecisionInv, Holds, Recorded, CutOff
    <2>3. TypeOK'
      BY <1>2, <1>3, <2>1 DEF TypeOK, Moved, CallRecord
    <2>4. LocksInv' /\ \A d \in Callers : call'[d].pc \in Transacting => call'[d] = call[d]
      BY <1>3, LocksStay DEF Moved, Transacting, Deciding
    <2>5. \A d \in Callers : call'[d].pc \in Transacting => call'[d].target # t
      BY <1>4, <2>4 DEF Free
    <2>6. JobInv(t)'
      <3>1. StateInv(t)'
        BY <1>2, <2>1 DEF JobInv, StateInv, Whole, CutOff
      <3>2. ASSUME NEW o \in Ids PROVE DecisionInv(t, o)'
        <4>1. DecisionInv(t, o) /\ ~Succeeded(t, o)'
          BY <1>2, <2>2 DEF JobInv, Succeeded
        <4> QED
          BY <1>2, <4>1 DEF DecisionInv, Whole, Refers, Alone, Holds, CutOff
      <3> QED
        BY <3>1, <3>2 DEF JobInv
    <2>7. \A u \in Jobs \ {t} : SameJob(u)
      BY <1>2, <2>1 DEF SameJob
    <2> QED
      BY <1>2, <2>3, <2>4, <2>5, <2>6, <2>7, JobStep
  <1>5. CASE ~(Free(t) /\ Recorded(t))
    <2>1. recovery' = recovery
      BY <1>5 DEF Replay
    <2> QED
      BY <1>2, <2>1, EndStep DEF TypeOK
  <1> QED
    BY <1>4, <1>5

\* The scheduler has the job while the record lies there.
LEMMA LaunchStep ==
  ASSUME UInv, NEW c \in Callers, Launch(c)
  PROVE  UInv'
  <1> USE DEF UInv
  <1>0. call[c].pc = "launch" /\ call[c].pc \in Transacting
    BY DEF Launch, At, Transacting, Deciding
  <1> PICK t \in Jobs : t = call[c].target
    BY <1>0, InTransaction
  <1>1. /\ UNCHANGED <<manifest, written, files, intact, journal, recovery, answered, faults,
                       strangers>>
        /\ launched' = launched \union {t} /\ Goto(c, "saving")
    BY DEF Launch
  <1>2. manifest[t].state = "CREATED" /\ t \in recovery
    BY <1>0, InTransaction DEF CallInv, Transacting, CutOff, Deciding
  <1>3. Moved(c, "saving") /\ OnSame(c)
    BY <1>1, GoneTo DEF Places, Transacting, Deciding
  <1>4. TypeOK'
    BY <1>1, <1>3 DEF TypeOK, Moved, CallRecord
  <1>5. JobInv(t)'
    <2>1. StateInv(t)'
      BY <1>1, <1>2 DEF JobInv, StateInv, CutOff, Whole
    <2>2. ASSUME NEW o \in Ids PROVE DecisionInv(t, o)'
      <3>1. DecisionInv(t, o) /\ ~Succeeded(t, o)'
        BY <1>1, <1>2, NotYet DEF JobInv, Succeeded
      <3> QED
        BY <1>1, <3>1 DEF DecisionInv, Whole, Refers, Alone, Holds, CutOff
    <2> QED
      BY <2>1, <2>2 DEF JobInv
  <1>6. CallInv(c)'
    BY <1>1, <1>2, <1>3 DEF CallInv, Moved, OnSame, CutOff, Transacting, Deciding
  <1>7. \A u \in Jobs \ {t} : SameJob(u)
    BY <1>1 DEF SameJob
  <1>8. /\ LocksInv'
        /\ \A d \in Callers : call'[d].pc \in Transacting =>
             \/ call'[d].target # t /\ call'[d] = call[d]
             \/ CallInv(d)'
    BY <1>0, <1>3, <1>6, OwnStep DEF Places, GoesOn, Transacting, Deciding
  <1> QED
    BY <1>1, <1>4, <1>5, <1>7, <1>8, JobStep

\* The end of a submission, recorded or not.
LEMMA SubmittedStep ==
  ASSUME UInv, NEW c \in Callers, SaveSubmitted(c) \/ Unanswered(c)
  PROVE  UInv'
  <1> USE DEF UInv
  <1>0. call[c].pc \in {"launch", "saving"} /\ call[c].pc \in Transacting
    BY DEF SaveSubmitted, Unanswered, At, Transacting, Deciding
  <1> PICK t \in Jobs : t = call[c].target
    BY <1>0, InTransaction
  <1>1. PICK state \in {"UPLOADED", "SUBMITTED"} :
          /\ Write(t, [manifest[t] EXCEPT !.state = state])
          /\ state = "SUBMITTED" => call[c].pc = "saving"
    BY DEF SaveSubmitted, Unanswered, At
  <1>2. /\ UNCHANGED <<files, intact, journal, launched, answered, strangers>>
        /\ End(c) /\ faults' \in Nat /\ recovery' \in {recovery, recovery \ {t}}
    BY DEF SaveSubmitted, Unanswered, Fault, TypeOK
  <1> DEFINE m == [manifest[t] EXCEPT !.state = state]
  <1>3. m \in Manifest /\ m.state = state /\ m.decisions = manifest[t].decisions
    <2>1. manifest[t] \in Manifest
      BY DEF TypeOK
    <2> QED
      BY <2>1 DEF Manifest
  <1>4. Write(t, m)
    BY <1>1
  <1> HIDE DEF m
  <1>5. manifest[t].state = "CREATED" /\ (state = "SUBMITTED" => t \in launched)
    BY <1>0, <1>1, InTransaction DEF CallInv, Transacting, CutOff, Deciding
  <1>6. \A o \in Ids : ~Succeeded(t, o)
    BY <1>5, NotYet
  <1>7. Moved(c, "idle")
    BY <1>2, Ended
  <1>8. TypeOK'
    <2>1. Rewritten(t, m)
      BY <1>3, <1>4, WriteResult
    <2> QED
      BY <1>2, <1>7, <2>1 DEF TypeOK, Rewritten, Moved, CallRecord
  <1>9. /\ LocksInv'
        /\ \A d \in Callers : call'[d].pc \in Transacting =>
             \/ call'[d].target # t /\ call'[d] = call[d]
             \/ CallInv(d)'
    BY <1>0, <1>7, OwnStep DEF Places, GoesOn, Transacting, Deciding
  <1> QED
    BY <1>2, <1>3, <1>4, <1>5, <1>6, <1>8, <1>9, RewriteStep

\* What ends was submitted, and holds its own results.
LEMMA FinishStep ==
  ASSUME UInv, NEW t \in Jobs, Finish(t)
  PROVE  UInv'
  <1> USE DEF UInv
  <1> DEFINE m == [manifest[t] EXCEPT !.state = "DONE", !.hashes = [f \in Files |-> t]]
  <1>1. /\ UNCHANGED <<intact, journal, call, launched, recovery, answered, faults,
                       strangers>>
        /\ Free(t) /\ Write(t, m) /\ manifest[t].state = "SUBMITTED"
        /\ files' = [files EXCEPT ![t] = ResultsOf(t)]
    BY DEF Finish, ResultsOf
  <1>2. m \in Manifest /\ m.state = "DONE" /\ m.hashes = ResultsOf(t)
        /\ m.decisions = manifest[t].decisions
    <2>1. manifest[t] \in Manifest
      BY DEF TypeOK
    <2>2. [f \in Files |-> t] \in Bundle /\ [f \in Files |-> t] = ResultsOf(t)
      BY DEF Bundle, Contents, ResultsOf
    <2> QED
      BY <2>1, <2>2 DEF Manifest
  <1> HIDE DEF m
  <1>3. ResultsOf(t) \in [Files -> Contents \union {NoFile}]
    BY DEF ResultsOf, Contents
  <1>4. /\ files' \in [Jobs -> [Files -> Contents \union {NoFile}]]
        /\ \A u \in Jobs \ {t} : files'[u] = files[u]
    BY <1>1, <1>3 DEF TypeOK
  <1>5. TypeOK'
    BY <1>1, <1>2, <1>4, WriteResult DEF TypeOK, Rewritten
  <1>6. LocksInv' /\ \A d \in Callers : call'[d] = call[d]
    BY <1>1 DEF LocksInv, At
  <1>7. \A o \in Ids : ~Succeeded(t, o)
    BY <1>1, NotYet
  <1>8. Whole(m.hashes)
    BY <1>1, <1>2 DEF JobInv, StateInv, Whole, CutOff
  <1> QED
    <2>1. \A d \in Callers : call'[d].pc \in Transacting => call'[d].target # t
      BY <1>1, <1>6 DEF Free
    <2> QED
      BY <1>1, <1>2, <1>4, <1>5, <1>6, <1>7, <1>8, <2>1, RewriteStep

\* A manifest is saved again by somebody else, in a generation in which nothing was prepared.
LEMMA TouchManifestStep ==
  ASSUME UInv, NEW t \in Jobs, TouchManifest(t)
  PROVE  UInv'
  <1> USE DEF UInv
  <1>1. /\ UNCHANGED <<files, intact, journal, call, launched, recovery, answered, faults>>
        /\ Write(t, manifest[t]) /\ strangers' \in Nat
    BY DEF TouchManifest, Stranger, TypeOK
  <1>2. Rewritten(t, manifest[t])
    BY <1>1, WriteResult DEF TypeOK
  <1>3. TypeOK'
    BY <1>1, <1>2 DEF TypeOK, Rewritten
  <1>4. LocksInv'
    BY <1>1 DEF LocksInv, At
  <1>5. \A u \in Jobs \ {t} : SameJob(u)
    BY <1>1, <1>2 DEF SameJob, Rewritten
  <1>6. ASSUME NEW o \in Ids
        PROVE  /\ Holds(t, o)' <=> Holds(t, o)
               /\ Copied(t, o)' <=> Copied(t, o)
               /\ Alone(t, o)' <=> Alone(t, o)
               /\ Succeeded(t, o)' <=> Succeeded(t, o)
    BY <1>1, <1>2 DEF Holds, Refers, Copied, Alone, Succeeded, Rewritten
  <1>7. StateInv(t)'
    BY <1>1, <1>2, <1>3 DEF JobInv, StateInv, Rewritten, TypeOK, Whole, CutOff
  <1>8. ASSUME NEW o \in Ids PROVE DecisionInv(t, o)'
    <2>1. DecisionInv(t, o)
      BY DEF JobInv
    <2>2. /\ Refers(t, o) => Alone(t, o)'
          /\ Succeeded(t, o) =>
               /\ manifest'[t].state = "DONE" /\ Holds(t, o)' /\ Copied(t, o)'
               /\ t \in launched' => CutOff(t)'
      BY <1>1, <1>2, <1>6, <2>1 DEF DecisionInv, Rewritten, CutOff
    <2>3. manifest'[t].generation = written'[t] /\ written'[t] = written[t] + 1
          /\ manifest'[t].decisions[o] = manifest[t].decisions[o]
      BY <1>2 DEF Rewritten
    <2> QED
      BY <1>1, <2>2, <2>3, NewestIsNew, DecisionKept
  <1>9. JobInv(t)'
    BY <1>7, <1>8 DEF JobInv
  <1>10. ASSUME NEW c \in Callers, call'[c].pc \in Transacting
         PROVE  (call'[c].target # t /\ call'[c] = call[c]) \/ CallInv(c)'
    <2>1. CASE call[c].target # t
      BY <1>1, <2>1
    <2>2. CASE call[c].target = t
      <3> PICK i : i = call[c].id
        OBVIOUS
      <3>1. CallInv(c)
        BY <1>1, <1>10
      <3>2. /\ manifest'[t].state = manifest[t].state
            /\ manifest'[t].decisions = manifest[t].decisions
        BY <1>2 DEF Rewritten
      <3>3. call[c].pc = "save" => journal[t][i].prepared <= written'[t]
        <4> SUFFICES ASSUME call[c].pc = "save" PROVE journal[t][i].prepared <= written'[t]
          OBVIOUS
        <4>1. journal[t][i] # NoJournal /\ journal[t][i].prepared <= written[t]
          BY <2>2, <3>1 DEF CallInv, CutOff, Transacting, Deciding
        <4>2. journal[t][i].prepared \in Nat /\ written[t] \in Nat /\ written'[t] = written[t] + 1
          <5>1. i \in Ids
            BY <1>1, <1>10, InDecision DEF Deciding
          <5>2. journal[t][i] \in Journal
            BY <4>1, <5>1 DEF TypeOK
          <5> QED
            BY <1>2, <5>2 DEF TypeOK, Journal, Rewritten
        <4> QED
          BY <4>1, <4>2
      <3>4. CutOff(t)' <=> CutOff(t)
        BY <1>1 DEF CutOff
      <3>5. CASE call[c].pc \in Deciding
        <4>1. i \in Ids
          BY <1>1, <1>10, <3>5, InDecision
        <4> QED
          BY <1>1, <1>6, <2>2, <3>1, <3>2, <3>3, <3>4, <3>5, <4>1 DEF CallInv, Transacting, Deciding
      <3>6. CASE call[c].pc \in {"launch", "saving"}
        BY <1>1, <2>2, <3>1, <3>2, <3>6 DEF CallInv, Transacting, Deciding
      <3> QED
        BY <1>1, <1>10, <3>5, <3>6 DEF Transacting
    <2> QED
      BY <2>1, <2>2
  <1> QED
    BY <1>1, <1>3, <1>4, <1>5, <1>9, <1>10, JobStep

\* The inputs of a job are changed.
LEMMA TouchInputsStep ==
  ASSUME UInv, NEW t \in Jobs, TouchInputs(t)
  PROVE  UInv'
  <1> USE DEF UInv
  <1>1. /\ UNCHANGED <<manifest, written, files, journal, call, launched, recovery,
                       answered, faults>>
        /\ intact' \in [Jobs -> BOOLEAN] /\ strangers' \in Nat
    BY DEF TouchInputs, Stranger, TypeOK
  <1>2. TypeOK' /\ LocksInv'
    BY <1>1 DEF TypeOK, LocksInv, At
  <1> QED
    BY <1>1, <1>2, QuietStep

\* A file is changed: it shows.
LEMMA TouchFileStep ==
  ASSUME UInv, NEW t \in Jobs, NEW f \in Files, TouchFile(t, f)
  PROVE  UInv'
  <1> USE DEF UInv
  <1>1. /\ UNCHANGED <<manifest, written, intact, journal, call, launched, recovery,
                       answered, faults>>
        /\ files' = [files EXCEPT ![t][f] = Junk] /\ strangers' \in Nat
    BY DEF TouchFile, Stranger, TypeOK
  <1>2. /\ files' \in [Jobs -> [Files -> Contents \union {NoFile}]]
        /\ \A u \in Jobs \ {t} : files'[u] = files[u]
        /\ \A g \in Files : files'[t][g] = files[t][g] \/ files'[t][g] = Junk
    BY <1>1 DEF TypeOK, Contents
  <1>3. TypeOK' /\ LocksInv'
    BY <1>1, <1>2 DEF TypeOK, LocksInv, At
  <1>4. \A u \in Jobs \ {t} : SameJob(u)
    BY <1>1, <1>2 DEF SameJob
  <1>5. \A o \in Ids : Copied(t, o) => Copied(t, o)'
    BY <1>1, <1>2 DEF Copied
  <1>6. \A o \in Ids : /\ Holds(t, o)' <=> Holds(t, o)
                       /\ Alone(t, o)' <=> Alone(t, o)
                       /\ Succeeded(t, o)' <=> Succeeded(t, o)
                       /\ Refers(t, o)' <=> Refers(t, o)
    BY <1>1 DEF Holds, Refers, Alone, Succeeded
  <1>7. JobInv(t)'
    <2>1. StateInv(t)'
      BY <1>1 DEF JobInv, StateInv, Whole, CutOff
    <2>2. ASSUME NEW o \in Ids PROVE DecisionInv(t, o)'
      <3>1. DecisionInv(t, o)
        BY DEF JobInv
      <3> QED
        BY <1>1, <1>5, <1>6, <3>1 DEF DecisionInv, Whole, CutOff
    <2> QED
      BY <2>1, <2>2 DEF JobInv
  <1>8. ASSUME NEW c \in Callers, call'[c].pc \in Transacting
        PROVE  (call'[c].target # t /\ call'[c] = call[c]) \/ CallInv(c)'
    <2>1. CASE call[c].target # t
      BY <1>1, <2>1
    <2>2. CASE call[c].target = t
      <3> PICK i : i = call[c].id
        OBVIOUS
      <3>1. CallInv(c)
        BY <1>1, <1>8
      <3>2. CutOff(t)' <=> CutOff(t)
        BY <1>1 DEF CutOff
      <3>3. CASE call[c].pc \in Deciding
        <4>1. i \in Ids
          BY <1>1, <1>8, <3>3, InDecision
        <4> QED
          BY <1>1, <1>5, <1>6, <2>2, <3>1, <3>2, <3>3, <4>1 DEF CallInv, Transacting, Deciding
      <3>4. CASE call[c].pc \in {"launch", "saving"}
        BY <1>1, <2>2, <3>1, <3>4 DEF CallInv, Transacting, Deciding
      <3> QED
        BY <1>1, <1>8, <3>3, <3>4 DEF Transacting
    <2> QED
      BY <2>1, <2>2
  <1> QED
    BY <1>1, <1>3, <1>4, <1>7, <1>8, JobStep

-----------------------------------------------------------------------------
(* The theorems.                                                                *)

LEMMA InitInv == Init => UInv
  <1> SUFFICES ASSUME Init PROVE UInv
    OBVIOUS
  <1> PICK finished \in SUBSET launched :
        /\ manifest = [j \in Jobs |->
             [state |-> IF j \in finished THEN "DONE"
                        ELSE IF j \in launched THEN "SUBMITTED" ELSE "CREATED",
              hashes |-> IF j \in finished THEN [f \in Files |-> j] ELSE NoFiles,
              decisions |-> NoDecisions, reference |-> NoId, generation |-> 1]]
        /\ files = [j \in Jobs |-> [f \in Files |-> IF j \in finished THEN j ELSE NoFile]]
    BY DEF Init
  <1>1. /\ launched \in SUBSET Jobs /\ written = [j \in Jobs |-> 1]
        /\ intact = [j \in Jobs |-> TRUE]
        /\ journal = [j \in Jobs |-> [i \in Ids |-> NoJournal]]
        /\ call = [c \in Callers |-> NoCall] /\ answered = {} /\ recovery = {}
        /\ faults = 0 /\ strangers = 0
    BY DEF Init
  <1>2. ASSUME NEW t \in Jobs
        PROVE  /\ manifest[t] \in Manifest
               /\ manifest[t].generation = 1 /\ manifest[t].decisions = NoDecisions
               /\ manifest[t].state = "CREATED" => t \notin launched
               /\ manifest[t].state = "SUBMITTED" => t \in launched
               /\ manifest[t].state = "DONE" => t \in launched /\ manifest[t].hashes = ResultsOf(t)
    <2>1. NoDecisions \in [Ids -> Decision \union {NoDecision}] /\ [f \in Files |-> t] \in Bundle
      BY DEF NoDecisions, Bundle, Contents
    <2>2. CASE t \in finished
      BY <2>1, <2>2 DEF Manifest, ResultsOf
    <2>3. CASE t \notin finished /\ t \in launched
      BY <2>1, <2>3 DEF Manifest
    <2>4. CASE t \notin finished /\ t \notin launched
      BY <2>1, <2>4 DEF Manifest
    <2> QED
      BY <2>2, <2>3, <2>4
  <1>3. TypeOK
    <2>1. NoCall \in CallRecord
      BY DEF NoCall, CallRecord, Places, Transacting, Deciding
    <2>2. files \in [Jobs -> [Files -> Contents \union {NoFile}]]
      BY DEF Contents
    <2>3. manifest \in [Jobs -> Manifest]
      <3>1. \A t \in Jobs : manifest[t] \in Manifest
        BY <1>2
      <3>2. manifest = [t \in Jobs |-> manifest[t]]
        OBVIOUS
      <3> QED
        BY <3>1, <3>2
    <2> QED
      BY <1>1, <2>1, <2>2, <2>3 DEF TypeOK, CallRecord
  <1>4. LocksInv
    BY <1>1 DEF LocksInv, NoCall, Transacting, At, Deciding
  <1>5. ASSUME NEW t \in Jobs PROVE JobInv(t)
    <2>1. StateInv(t)
      <3>1. manifest[t].generation = 1 /\ written[t] = 1
        BY <1>1, <1>2
      <3>2. manifest[t].generation <= written[t]
        BY <3>1
      <3>3. manifest[t].state = "DONE" => Whole(manifest[t].hashes)
        BY <1>2 DEF Whole
      <3> QED
        BY <1>2, <3>2, <3>3 DEF StateInv, CutOff
    <2>2. \A i \in Ids : manifest[t].decisions[i] = NoDecision /\ journal[t][i] = NoJournal
      BY <1>1, <1>2 DEF NoDecisions
    <2>3. \A i \in Ids : DecisionInv(t, i)
      BY <2>2 DEF DecisionInv, Refers, Succeeded, CutOff
    <2> QED
      BY <2>1, <2>3 DEF JobInv
  <1>6. \A c \in Callers : call[c].pc \notin Transacting
    BY <1>1 DEF NoCall, Transacting, Deciding
  <1> QED
    BY <1>3, <1>4, <1>5, <1>6 DEF UInv

LEMMA StepInv == UInv /\ [Next]_vars => UInv'
  <1> SUFFICES ASSUME UInv, [Next]_vars PROVE UInv'
    OBVIOUS
  <1>1. ASSUME NEW t \in Jobs, NEW s \in Jobs, NEW i \in Ids, Decide(t, s, i) PROVE UInv'
    BY <1>1, ReferenceStep, RepeatStep DEF Decide
  <1>2. ASSUME NEW c \in Callers, Proceed(c) \/ Stop(c) \/ Unanswered(c) PROVE UInv'
    BY <1>2, PrepareStep, SavePreparedStep, MarkPreparedStep, CopyStep, CompareStep, SaveDoneStep,
       RecordDoneStep, ContradictedStep, UndoStep, UnmarkStep, EndsStep, SubmitStep,
       ReplayStep, LaunchStep, SubmittedStep DEF Proceed
  <1>3. ASSUME NEW c \in Callers, NEW t \in Jobs, Guard(c, t) PROVE UInv'
    BY <1>3, GuardStep
  <1>4. ASSUME NEW t \in Jobs, NEW i \in Ids, ForceRecalculation(t, i) PROVE UInv'
    BY <1>4, ForceStep
  <1>5. ASSUME NEW t \in Jobs, Finish(t) PROVE UInv'
    BY <1>5, FinishStep
  <1>6. CASE Interfere
    BY <1>6, TouchManifestStep, TouchInputsStep, TouchFileStep DEF Interfere
  <1>7. CASE UNCHANGED vars
    <2>1. UNCHANGED <<manifest, written, files, journal, launched, recovery, call>>
      BY <1>7 DEF vars
    <2>2. TypeOK' /\ LocksInv'
      BY <1>7 DEF UInv, TypeOK, LocksInv, At, vars
    <2> QED
      BY <2>1, <2>2, QuietStep
  <1> QED
    BY <1>1, <1>2, <1>3, <1>4, <1>5, <1>6, <1>7 DEF Next

\* The inductive invariant: how manifest, journal and files of a job agree, how far each
\* transaction has got with them, and that no two transactions share a job.
THEOREM Invariance == Spec => []UInv
  BY InitInv, StepInv, PTL DEF Spec

\* Whatever calls, failures and strangers do, a job is computed or holds one reference, and
\* what the scheduler was given is completed by reference only if its submission was cut off
\* before the manifest was saved, with the record of it still there (submit_job saves the
\* manifest after the scheduler's answer, record_reuse_reference does not read the record).
THEOREM ComputedOrReused == Spec => []ReusedOrComputed
  <1>1. UInv => ReusedOrComputed
    BY DEF UInv, JobInv, DecisionInv, Holds, ReusedOrComputed, CutOff
  <1> QED
    BY <1>1, Invariance, PTL

\* What a job refers to is the whole result of one computation, and but for what a stranger
\* did to it that is what lies in its directory, wherever the copies were interrupted.
THEOREM WhatIsReusedIsWhole == Spec => []ReusedIsWhole
  <1>1. UInv => ReusedIsWhole
    <2> SUFFICES ASSUME UInv, NEW t \in Jobs, NEW i \in Ids, Succeeded(t, i)
                 PROVE  \E k \in launched :
                          /\ manifest[t].hashes = [f \in Files |-> k]
                          /\ \A f \in Files : files[t][f] \in {k, Junk}
      BY DEF ReusedIsWhole
    <2>1. manifest[t].state = "DONE" /\ Holds(t, i) /\ Copied(t, i) /\ StateInv(t)
      BY DEF UInv, JobInv, DecisionInv, CutOff
    <2> PICK k \in launched : manifest[t].hashes = ResultsOf(k)
      BY <2>1 DEF StateInv, Whole, CutOff
    <2>2. \A f \in Files : manifest[t].decisions[i].bundle[f] = k
      BY <2>1 DEF Holds, ResultsOf
    <2> QED
      BY <2>1, <2>2 DEF Copied, ResultsOf
  <1> QED
    BY <1>1, Invariance, PTL

=============================================================================
