--------------------------- MODULE DesktopProofs ---------------------------
(* Proofs about the two components of the desktop front end, for all values of *)
(* the constants.                                                              *)
(*                                                                             *)
(* The pipeline supervisor (PipelineSupervisor): there is one scheduler        *)
(* thread, it does not sleep over a wake or a stop, and a stop lets at most    *)
(* one more tick begin.                                                        *)
(*                                                                             *)
(* The preferences store and its windows (WorkspaceState, as MCWorkspaceState  *)
(* instantiates it): no update that is accepted removes an edit its window     *)
(* never had.                                                                  *)
EXTENDS PipelineSupervisor, MCWorkspaceState, TLAPS

-----------------------------------------------------------------------------
(* The pipeline supervisor.                                                    *)

\* Nothing runs yet.
LEMMA InitInv == Init => SInv
  <1> SUFFICES ASSUME Init PROVE SInv
    OBVIOUS
  <1>1. Unborn \in Worker /\ Unborn.snapshot \in State
    BY DEF Unborn, Worker, State, Places, Settings, Intervals
  <1>2. TypeOK
    BY <1>1 DEF Init, TypeOK, Settings, Intervals
  <1>3. \A t \in Threads : worker[t].pc = "unborn"
    BY DEF Init, Unborn
  <1> QED
    BY <1>2, <1>3 DEF Init, SInv, OneWorker, OnlyThread, Orderly, LateTicks, FewLateTicks,
      EventSet, Publishing, PublishedIsCurrent, IsAlive, At, Onward, Committed, Promising

-----------------------------------------------------------------------------
(* What the parts of the invariant say of one thread.                           *)

\* The invariant of the only thread that is alive; the others have no part in it.
OrderlyAt(t) ==
  /\ At(t, "publish") => worker[t].then \in {"check", "wait", "tick", "top", "dead"}
  /\ Onward(t) = "check" => worker[t].sampled \in Intervals
LateAt(t) ==
  /\ ~stop /\ config \in Intervals => late = 0
  /\ late >= 1 => ~Committed(t) /\ (stop \/ ~Promising(t))
  /\ late <= 1
EventAt(t) ==
  /\ Onward(t) \in {"check", "wait", "waiting"} /\ force /\ worker[t].sampled # "bad" => wake
  /\ At(t, "waiting") /\ stop => wake
PublishingAt(t) ==
  /\ At(t, "publish") => worker[t].snapshot = state
  /\ starting = IF publishLock = None THEN {} ELSE {publishLock}
  /\ starting # {} => \/ state = [running |-> TRUE, paused |-> FALSE, ticking |-> FALSE]
                      \/ At(t, "publish")
  /\ published = state \/ At(t, "publish") \/ starting # {}
InvAt(t) == OrderlyAt(t) /\ LateAt(t) /\ EventAt(t) /\ PublishingAt(t)

\* The types of what the threads and the callers share.
SharedOK ==
  /\ config \in Settings /\ state \in State /\ published \in State
  /\ publishLock \in Callers \union {None}
  /\ stop \in BOOLEAN /\ wake \in BOOLEAN /\ force \in BOOLEAN
  /\ starting \subseteq Callers
  /\ finished \in BOOLEAN /\ asked \in BOOLEAN /\ late \in Nat /\ changes \in Nat

\* Once one thread is alive, the invariant is about it alone.
LEMMA AloneFrom ==
  ASSUME SInv, NEW t \in Threads, IsAlive(t)
  PROVE  InvAt(t) /\ thread = t /\ \A u \in Threads \ {t} : ~IsAlive(u)
  <1>1. thread = t /\ \A u \in Threads \ {t} : ~IsAlive(u)
    BY DEF SInv, OneWorker, OnlyThread
  <1>2. \A u \in Threads \ {t} : ~At(u, "publish")
    BY <1>1 DEF IsAlive, At
  <1> QED
    BY <1>1, <1>2 DEF SInv, InvAt, Orderly, OrderlyAt, LateTicks, FewLateTicks, LateAt,
      EventSet, EventAt, Publishing, PublishedIsCurrent, PublishingAt

\* A step of the thread that is alive needs to keep no more than its own part.
LEMMA ThreadStep ==
  ASSUME SInv, NEW t \in Threads, IsAlive(t), NEW w \in Worker,
         worker' = [worker EXCEPT ![t] = w], thread' = thread,
         InvAt(t)',
         SharedOK'
  PROVE  SInv'
  <1>1. thread = t /\ \A u \in Threads \ {t} : ~IsAlive(u)
    BY AloneFrom
  <1>2. worker \in [Threads -> Worker] /\ thread \in Threads \union {None}
    BY DEF SInv, TypeOK
  <1>3. \A u \in Threads \ {t} : worker'[u] = worker[u] /\ ~IsAlive(u)'
    BY <1>1, <1>2 DEF IsAlive
  <1>4. \A u \in Threads \ {t} :
          ~At(u, "publish")' /\ ~At(u, "waiting")' /\ Onward(u)' \in {"unborn", "dead"}
    BY <1>3 DEF IsAlive, At, Onward
  <1>5. TypeOK'
    BY <1>2 DEF TypeOK, SharedOK
  <1>6. OneWorker' /\ OnlyThread'
    BY <1>1, <1>3 DEF OneWorker, OnlyThread
  <1>7. Orderly' /\ EventSet'
    BY <1>4 DEF InvAt, Orderly, OrderlyAt, EventSet, EventAt
  <1>8. LateTicks'
    BY <1>4 DEF InvAt, LateTicks, FewLateTicks, LateAt, Committed, Promising
  <1>9. Publishing'
    BY <1>4 DEF InvAt, Publishing, PublishingAt, PublishedIsCurrent
  <1> QED
    BY <1>5, <1>6, <1>7, <1>8, <1>9 DEF SInv
-----------------------------------------------------------------------------
(* The thread.                                                                   *)

\* The stop event is looked at first.
LEMMA TopStep ==
  ASSUME SInv, NEW t \in Threads, Top(t)
  PROVE  SInv'
  <1> DEFINE w == [worker[t] EXCEPT !.pc = IF stop THEN "finally" ELSE "clear"]
  <1>1. /\ IsAlive(t) /\ TypeOK
        /\ w \in Worker /\ worker' = [worker EXCEPT ![t] = w] /\ worker'[t] = w
    BY DEF Top, At, Goto, IsAlive, SInv, TypeOK, Worker, Places, Settings, Intervals
  <1>2. InvAt(t)'
    BY <1>1, AloneFrom DEF Top, At, InvAt, OrderlyAt, LateAt, EventAt, PublishingAt,
      Onward, Committed, Promising, TypeOK, Worker, shared, seen, events, history
  <1>3. SharedOK' /\ thread' = thread
    BY <1>1 DEF Top, TypeOK, SharedOK, shared, seen, events, owner, history
  <1> QED
    BY <1>1, <1>2, <1>3, ThreadStep

\* The wake event is cleared before the setting and the force are looked at.
LEMMA ClearStep ==
  ASSUME SInv, NEW t \in Threads, Clear(t)
  PROVE  SInv'
  <1> DEFINE w == [worker[t] EXCEPT !.pc = "config"]
  <1>1. /\ IsAlive(t) /\ TypeOK
        /\ w \in Worker /\ worker' = [worker EXCEPT ![t] = w] /\ worker'[t] = w
    BY DEF Clear, At, Goto, IsAlive, SInv, TypeOK, Worker, Places, Settings, Intervals
  <1>2. InvAt(t)'
    BY <1>1, AloneFrom DEF Clear, At, InvAt, OrderlyAt, LateAt, EventAt, PublishingAt,
      Onward, Committed, Promising, TypeOK, Worker, shared, seen, events, history
  <1>3. SharedOK' /\ thread' = thread
    BY <1>1 DEF Clear, TypeOK, SharedOK, shared, seen, events, owner, history
  <1> QED
    BY <1>1, <1>2, <1>3, ThreadStep

\* A setting read now may be acted on, unless a late tick has begun since it was changed.
LEMMA ReadConfigStep ==
  ASSUME SInv, NEW t \in Threads, ReadConfig(t)
  PROVE  SInv'
  <1> DEFINE w == [worker[t] EXCEPT !.pc = "force", !.sampled = config]
  <1>1. /\ IsAlive(t) /\ TypeOK
        /\ w \in Worker /\ worker' = [worker EXCEPT ![t] = w] /\ worker'[t] = w
    <2>1. /\ IsAlive(t) /\ TypeOK /\ worker[t] \in Worker /\ config \in Settings
          /\ worker \in [Threads -> Worker] /\ worker' = [worker EXCEPT ![t] = w]
      BY DEF ReadConfig, At, Goto, IsAlive, SInv, TypeOK
    <2>2. w \in Worker
      BY <2>1 DEF Worker, Places
    <2> QED
      BY <2>1, <2>2
  <1>2. InvAt(t)'
    BY <1>1, AloneFrom DEF ReadConfig, At, InvAt, OrderlyAt, LateAt, EventAt, PublishingAt,
      Onward, Committed, Promising, TypeOK, Worker, shared, seen, events, history
  <1>3. SharedOK' /\ thread' = thread
    BY <1>1 DEF ReadConfig, TypeOK, SharedOK, shared, seen, events, owner, history
  <1> QED
    BY <1>1, <1>2, <1>3, ThreadStep

\* A tick begins that is the only late one.
LEMMA BeginTickStep ==
  ASSUME SInv, NEW t \in Threads, BeginTick(t)
  PROVE  SInv'
  <1> DEFINE w == [worker[t] EXCEPT !.pc = "ticking"]
  <1>1. /\ IsAlive(t) /\ TypeOK
        /\ w \in Worker /\ worker' = [worker EXCEPT ![t] = w] /\ worker'[t] = w
    BY DEF BeginTick, At, Goto, IsAlive, SInv, TypeOK, Worker, Places, Settings, Intervals
  <1>2. InvAt(t)'
    BY <1>1, AloneFrom DEF BeginTick, At, InvAt, OrderlyAt, LateAt, EventAt, PublishingAt,
      Onward, Committed, Promising, TypeOK, Worker, shared, seen, events, history
  <1>3. SharedOK' /\ thread' = thread
    <2>1. late' \in Nat
      BY <1>1 DEF BeginTick, TypeOK
    <2> QED
      BY <1>1, <2>1 DEF BeginTick, TypeOK, SharedOK, shared, seen, events, owner, history
  <1> QED
    BY <1>1, <1>2, <1>3, ThreadStep

\* The wait is entered when no stop was signalled.
LEMMA WaitStep ==
  ASSUME SInv, NEW t \in Threads, Wait(t)
  PROVE  SInv'
  <1> DEFINE w == [worker[t] EXCEPT !.pc = IF stop THEN "top" ELSE "waiting"]
  <1>1. /\ IsAlive(t) /\ TypeOK
        /\ w \in Worker /\ worker' = [worker EXCEPT ![t] = w] /\ worker'[t] = w
    BY DEF Wait, At, Goto, IsAlive, SInv, TypeOK, Worker, Places, Settings, Intervals
  <1>2. InvAt(t)'
    BY <1>1, AloneFrom DEF Wait, At, InvAt, OrderlyAt, LateAt, EventAt, PublishingAt,
      Onward, Committed, Promising, TypeOK, Worker, shared, seen, events, history
  <1>3. SharedOK' /\ thread' = thread
    BY <1>1 DEF Wait, TypeOK, SharedOK, shared, seen, events, owner, history
  <1> QED
    BY <1>1, <1>2, <1>3, ThreadStep

\* The wait ends.
LEMMA WaitedStep ==
  ASSUME SInv, NEW t \in Threads, Waited(t)
  PROVE  SInv'
  <1> DEFINE w == [worker[t] EXCEPT !.pc = "top"]
  <1>1. /\ IsAlive(t) /\ TypeOK
        /\ w \in Worker /\ worker' = [worker EXCEPT ![t] = w] /\ worker'[t] = w
    BY DEF Waited, At, Goto, IsAlive, SInv, TypeOK, Worker, Places, Settings, Intervals
  <1>2. InvAt(t)'
    BY <1>1, AloneFrom DEF Waited, At, InvAt, OrderlyAt, LateAt, EventAt, PublishingAt,
      Onward, Committed, Promising, TypeOK, Worker, shared, seen, events, history
  <1>3. SharedOK' /\ thread' = thread
    BY <1>1 DEF Waited, TypeOK, SharedOK, shared, seen, events, owner, history
  <1> QED
    BY <1>1, <1>2, <1>3, ThreadStep

\* What the thread changed is seen by the subscribers.
LEMMA PublishStep ==
  ASSUME SInv, NEW t \in Threads, Publish(t)
  PROVE  SInv'
  <1> DEFINE w == [worker[t] EXCEPT !.pc = worker[t].then, !.then = Unborn.then,
                                  !.snapshot = Unborn.snapshot]
  <1>1. /\ IsAlive(t) /\ TypeOK
        /\ w \in Worker /\ worker' = [worker EXCEPT ![t] = w] /\ worker'[t] = w
    <2>1. IsAlive(t) /\ TypeOK /\ worker[t] \in Worker
      BY DEF Publish, At, IsAlive, SInv, TypeOK
    <2>2. w \in Worker
      <3>1. worker[t].then \in Places /\ Unborn.then \in Places /\ Unborn.snapshot \in State
        BY <2>1 DEF Worker, Unborn, State, Places
      <3>2. \A p, q \in Places, s \in State :
              [worker[t] EXCEPT !.pc = p, !.then = q, !.snapshot = s] \in Worker
        BY <2>1 DEF Worker
      <3> QED
        BY <3>1, <3>2
    <2>3. worker' = [worker EXCEPT ![t] = w]
      BY <2>1 DEF Publish, TypeOK
    <2> HIDE DEF w
    <2> QED
      BY <2>1, <2>2, <2>3 DEF TypeOK
  <1>2. InvAt(t)'
    BY <1>1, AloneFrom DEF Publish, At, InvAt, OrderlyAt, LateAt, EventAt, PublishingAt,
      Onward, Committed, Promising, TypeOK, Worker, shared, seen, events, history, Unborn, State
  <1>3. SharedOK' /\ thread' = thread
    BY <1>1 DEF Publish, TypeOK, SharedOK, shared, seen, events, owner, history, Worker
  <1> QED
    BY <1>1, <1>2, <1>3, ThreadStep

\* A step that changes the state, to be published next, or finds it as it should be.
LEMMA UpdateStep ==
  ASSUME SInv, NEW t \in Threads, IsAlive(t), ~At(t, "publish"),
         NEW local \in Worker, NEW new \in State,
         NEW then \in {"check", "wait", "tick", "top", "dead"},
         Update(t, local, new, then),
         UNCHANGED <<config, seen, stop, wake, thread, starting, history>>,
         force' \in BOOLEAN, finished' \in BOOLEAN,
         then = "check" => local.sampled \in Intervals,
         late >= 1 => then # "tick" /\ (then = "check" => stop),
         then \in {"check", "wait"} /\ force' /\ local.sampled # "bad" => wake
  PROVE  SInv'
  <1>1. worker \in [Threads -> Worker] /\ TypeOK /\ InvAt(t)
    BY AloneFrom DEF SInv, TypeOK
  <1>2. PICK w \in Worker :
          /\ worker' = [worker EXCEPT ![t] = w]
          /\ w.sampled = local.sampled
          /\ IF new = state THEN w.pc = then
             ELSE w.pc = "publish" /\ w.then = then /\ w.snapshot = new
    <2>1. [local EXCEPT !.pc = then] \in Worker
      BY DEF Worker, Places
    <2>2. [local EXCEPT !.pc = "publish", !.then = then, !.snapshot = new] \in Worker
      BY DEF Worker, Places
    <2> QED
      BY <2>1, <2>2 DEF Update, Worker
  <1>3. worker'[t] = w /\ state' = new
    BY <1>1, <1>2 DEF Update
  <1>4. SharedOK'
    BY <1>1, <1>3 DEF TypeOK, SharedOK, seen, history
  <1>5. Onward(t)' = then /\ (At(t, "publish")' <=> new # state) /\ ~At(t, "waiting")'
    BY <1>2, <1>3 DEF Onward, At
  <1>6. OrderlyAt(t)' /\ EventAt(t)'
    BY <1>2, <1>3, <1>5 DEF OrderlyAt, EventAt, At
  <1>7. LateAt(t)'
    BY <1>1, <1>5 DEF InvAt, LateAt, Committed, Promising, history
  <1>8. PublishingAt(t)'
    BY <1>1, <1>2, <1>3, <1>5 DEF InvAt, PublishingAt, seen
  <1> QED
    BY <1>2, <1>4, <1>6, <1>7, <1>8, ThreadStep DEF InvAt

\* A setting that is rejected or disabled pauses the pipeline; disabling forgets the force.
LEMMA PauseStep ==
  ASSUME SInv, NEW t \in Threads, Rejected(t) \/ Disabled(t)
  PROVE  SInv'
  <1>1. worker[t] \in Worker /\ state \in State /\ IsAlive(t) /\ ~At(t, "publish")
    BY DEF SInv, TypeOK, Rejected, Disabled, At, IsAlive
  <1>2. [state EXCEPT !.paused = TRUE, !.ticking = FALSE] \in State
    BY <1>1 DEF State
  <1>3. UNCHANGED <<config, seen, stop, wake, thread, starting, history>>
        /\ force' \in BOOLEAN /\ finished' \in BOOLEAN
    BY DEF Rejected, Disabled, events, owner, SInv, TypeOK
  <1>4. CASE Rejected(t)
    <2>1. [worker[t] EXCEPT !.deadline = "none", !.previous = "unknown"] \in Worker
      BY <1>1 DEF Worker
    <2>2. [worker[t] EXCEPT !.deadline = "none", !.previous = "unknown"].sampled = "bad"
      BY <1>1, <1>4 DEF Rejected, Worker
    <2> QED
      BY <1>1, <1>2, <1>3, <1>4, <2>1, <2>2, UpdateStep DEF Rejected
  <1>5. CASE Disabled(t)
    <2>1. [worker[t] EXCEPT !.deadline = "none", !.previous = "off", !.first = FALSE] \in Worker
      BY <1>1 DEF Worker
    <2> QED
      BY <1>1, <1>2, <1>3, <1>5, <2>1, UpdateStep DEF Disabled
  <1> QED
    BY <1>4, <1>5

\* An accepted setting consumes the force.
LEMMA EnabledStep ==
  ASSUME SInv, NEW t \in Threads, Enabled(t)
  PROVE  SInv'
  <1>1. worker[t] \in Worker /\ state \in State /\ IsAlive(t) /\ ~At(t, "publish")
    BY DEF SInv, TypeOK, Enabled, At, IsAlive
  <1>2. [state EXCEPT !.paused = FALSE] \in State
    BY <1>1 DEF State
  <1>3. Deadlines(t) \subseteq {"none", "ahead", "due"}
    BY <1>1 DEF Deadlines, Worker
  <1>4. PICK deadline \in {"none", "ahead", "due"} :
          Update(t, [worker[t] EXCEPT !.deadline = deadline,
                       !.previous = worker[t].sampled, !.first = FALSE],
                 [state EXCEPT !.paused = FALSE], "check")
    BY <1>3 DEF Enabled
  <1> DEFINE local == [worker[t] EXCEPT !.deadline = deadline,
                         !.previous = worker[t].sampled, !.first = FALSE]
  <1>5. local \in Worker /\ local.sampled \in Intervals
    BY <1>1 DEF Worker, Enabled
  <1>6. UNCHANGED <<config, seen, stop, wake, thread, starting, history>>
        /\ ~force' /\ force' \in BOOLEAN /\ finished' \in BOOLEAN
    BY DEF Enabled, owner, SInv, TypeOK
  <1>7. late >= 1 => stop
    BY AloneFrom, <1>1 DEF Enabled, At, InvAt, LateAt, Promising, Onward
  <1> HIDE DEF local
  <1> QED
    BY <1>1, <1>2, <1>4, <1>5, <1>6, <1>7, UpdateStep DEF local

\* A tick that is due is announced, unless a stop was signalled.
LEMMA CheckStep ==
  ASSUME SInv, NEW t \in Threads, Check(t)
  PROVE  SInv'
  <1>1. /\ worker[t] \in Worker /\ state \in State /\ IsAlive(t) /\ ~At(t, "publish")
        /\ InvAt(t) /\ TypeOK
    BY AloneFrom DEF SInv, TypeOK, Check, At, IsAlive
  <1>2. /\ UNCHANGED <<config, seen, stop, wake, thread, starting, history, force, finished>>
        /\ force' \in BOOLEAN /\ finished' \in BOOLEAN
    BY DEF Check, events, owner, SInv, TypeOK
  <1>3. CASE ~stop /\ worker[t].deadline = "due"
    <2>1. Update(t, worker[t], [state EXCEPT !.ticking = TRUE], "tick")
      BY <1>3 DEF Check
    <2>2. [state EXCEPT !.ticking = TRUE] \in State
      BY <1>1 DEF State
    <2>3. ~(late >= 1)
      BY <1>1, <1>3 DEF Check, At, InvAt, OrderlyAt, LateAt, Promising, Onward
    <2> QED
      BY <1>1, <1>2, <2>1, <2>2, <2>3, UpdateStep
  <1>4. CASE ~(~stop /\ worker[t].deadline = "due")
    <2> DEFINE w == [worker[t] EXCEPT !.pc = IF stop THEN "finally" ELSE "wait"]
    <2>1. worker' = [worker EXCEPT ![t] = w] /\ worker'[t] = w /\ w \in Worker
          /\ UNCHANGED state
      BY <1>1, <1>4 DEF Check, Goto, TypeOK, Worker, Places
    <2>2. InvAt(t)'
      BY <1>1, <1>2, <2>1 DEF Check, At, InvAt, OrderlyAt, LateAt, EventAt, PublishingAt,
        Onward, Committed, Promising, Worker, seen, history
    <2>3. SharedOK'
      BY <1>1, <1>2, <2>1 DEF TypeOK, SharedOK, seen, history
    <2> QED
      BY <1>1, <1>2, <2>1, <2>2, <2>3, ThreadStep
  <1> QED
    BY <1>3, <1>4

\* A tick that ends, and the end of the thread.
LEMMA EndStep ==
  ASSUME SInv, NEW t \in Threads, EndTick(t) \/ Finally(t)
  PROVE  SInv'
  <1>1. worker[t] \in Worker /\ state \in State /\ IsAlive(t) /\ ~At(t, "publish")
    BY DEF SInv, TypeOK, EndTick, Finally, At, IsAlive
  <1>2. /\ UNCHANGED <<config, seen, stop, wake, thread, starting, history, force>>
        /\ force' \in BOOLEAN /\ finished' \in BOOLEAN
    BY DEF EndTick, Finally, events, owner, SInv, TypeOK
  <1>3. CASE EndTick(t)
    <2>1. [worker[t] EXCEPT !.deadline = "ahead"] \in Worker
          /\ [state EXCEPT !.ticking = FALSE] \in State
      BY <1>1 DEF Worker, State
    <2> QED
      BY <1>1, <1>2, <1>3, <2>1, UpdateStep DEF EndTick
  <1>4. CASE Finally(t)
    <2>1. Unborn \in Worker /\ Unborn.snapshot \in State
      BY DEF Unborn, Worker, State, Places, Settings, Intervals
    <2> QED
      BY <1>1, <1>2, <1>4, <2>1, UpdateStep DEF Finally
  <1> QED
    BY <1>3, <1>4

\* A deadline that comes changes no more than itself.
LEMMA ClockStep ==
  ASSUME SInv, NEW t \in Threads, Clock(t)
  PROVE  SInv'
  <1>1. worker \in [Threads -> Worker] /\ TypeOK
    BY DEF SInv, TypeOK
  <1>2. [worker[t] EXCEPT !.deadline = "due"] \in Worker
    BY <1>1 DEF Worker
  <1>3. worker' \in [Threads -> Worker] /\ \A u \in Threads :
          /\ worker'[u].pc = worker[u].pc /\ worker'[u].then = worker[u].then
          /\ worker'[u].snapshot = worker[u].snapshot
          /\ worker'[u].sampled = worker[u].sampled
    BY <1>1, <1>2 DEF Clock, Worker
  <1>4. UNCHANGED <<config, shared, starting, history>>
    BY DEF Clock
  <1>5. TypeOK'
    BY <1>1, <1>3, <1>4 DEF TypeOK, shared, seen, events, owner, history
  <1>6. \A u \in Threads :
          /\ At(u, "publish")' <=> At(u, "publish")
          /\ At(u, "waiting")' <=> At(u, "waiting")
          /\ Onward(u)' = Onward(u)
          /\ IsAlive(u)' <=> IsAlive(u)
    BY <1>3 DEF At, Onward, IsAlive
  <1>7. OneWorker' /\ OnlyThread' /\ Orderly' /\ EventSet'
    BY <1>3, <1>4, <1>6 DEF SInv, OneWorker, OnlyThread, Orderly, EventSet, shared, events,
      owner
  <1>8. LateTicks'
    BY <1>3, <1>4, <1>6 DEF SInv, LateTicks, FewLateTicks, Committed, Promising, shared,
      events, history
  <1>9. Publishing'
    BY <1>3, <1>4, <1>6 DEF SInv, Publishing, PublishedIsCurrent, shared, seen
  <1> QED
    BY <1>5, <1>7, <1>8, <1>9 DEF SInv

-----------------------------------------------------------------------------
(* The calls.                                                                    *)

\* Steps that leave the threads, the state and what was published alone keep the parts
\* about them.
LEMMA CallStep ==
  ASSUME SInv, UNCHANGED <<worker, thread, state, seen, starting>>,
         TypeOK', LateTicks', EventSet'
  PROVE  SInv'
  <1>1. OneWorker' /\ OnlyThread' /\ Orderly'
    BY DEF SInv, OneWorker, OnlyThread, Orderly, IsAlive, At, Onward
  <1>2. Publishing'
    BY DEF SInv, Publishing, PublishedIsCurrent, At, seen
  <1> QED
    BY <1>1, <1>2 DEF SInv

\* start creates a thread when none is alive.
LEMMA StartStep ==
  ASSUME SInv, NEW c \in Callers, Start(c)
  PROVE  SInv'
  <1>1. TypeOK /\ \A u \in Threads : ~IsAlive(u)
    BY NoneAssumption DEF SInv, OnlyThread, Start, Alive
  <1>2. PICK t \in Threads : /\ worker[t].pc = "unborn" /\ thread' = t
                             /\ worker' = [worker EXCEPT ![t].pc = "top"]
    BY DEF Start
  <1>3. /\ worker' \in [Threads -> Worker] /\ worker'[t].pc = "top"
        /\ \A u \in Threads \ {t} : worker'[u] = worker[u]
    BY <1>1, <1>2 DEF TypeOK, Worker, Places
  <1>4. \A u \in Threads \ {t} :
          ~IsAlive(u)' /\ ~At(u, "publish")' /\ ~At(u, "waiting")'
          /\ Onward(u)' \in {"unborn", "dead"}
    BY <1>1, <1>3 DEF IsAlive, At, Onward
  <1>5. starting = {}
    BY DEF Start, SInv, Publishing
  <1>6. /\ state' = [running |-> TRUE, paused |-> FALSE, ticking |-> FALSE]
        /\ publishLock' = c /\ starting' = {c} /\ late' = 0 /\ c # None
    BY <1>5, NoneAssumption DEF Start
  <1>7. TypeOK'
    <2>1. state' \in State
      BY <1>6 DEF State
    <2>2. late' \in Nat /\ publishLock' \in Callers \union {None} /\ starting' \subseteq Callers
      BY <1>6
    <2> QED
      BY <1>1, <1>2, <1>3, <2>1, <2>2 DEF TypeOK, Start
  <1>8. At(t, "top")' /\ ~At(t, "publish")' /\ ~At(t, "waiting")' /\ Onward(t)' = "top"
    BY <1>3 DEF At, Onward
  <1>9. OneWorker' /\ OnlyThread'
    BY <1>2, <1>4 DEF OneWorker, OnlyThread
  <1>10. Orderly' /\ EventSet' /\ LateTicks'
    BY <1>4, <1>6, <1>8 DEF Orderly, EventSet, LateTicks, FewLateTicks
  <1>11. Publishing'
    BY <1>4, <1>6, <1>8 DEF Publishing, PublishedIsCurrent
  <1> QED
    BY <1>7, <1>9, <1>10, <1>11 DEF SInv

\* The caller of start publishes what the thread has left as it was, or else publishes next.
LEMMA PublishStartStep ==
  ASSUME SInv, NEW c \in Callers, PublishStart(c)
  PROVE  SInv'
  <1>1. TypeOK'
    BY DEF PublishStart, SInv, TypeOK, State, events, owner, history
  <1>2. OneWorker' /\ OnlyThread' /\ Orderly' /\ EventSet'
    BY DEF PublishStart, SInv, OneWorker, OnlyThread, Orderly, EventSet, IsAlive, At, Onward,
      events, owner
  <1>3. LateTicks'
    BY DEF PublishStart, SInv, LateTicks, FewLateTicks, Committed, Promising, At, Onward,
      events, history
  <1>4. starting = {c} /\ starting' = {} /\ publishLock' = None
    BY DEF PublishStart, SInv, Publishing
  <1>5. Publishing'
    BY <1>4 DEF PublishStart, SInv, Publishing, PublishedIsCurrent, At
  <1> QED
    BY <1>1, <1>2, <1>3, <1>5 DEF SInv

\* wake, reconfigure and stop set the event.
LEMMA SignalStep ==
  ASSUME SInv, NEW c \in Callers, Wake(c) \/ Reconfigure(c) \/ Stop(c)
  PROVE  SInv'
  <1>1. /\ UNCHANGED <<worker, thread, state, seen, starting, config, finished, late, changes>>
        /\ wake' = TRUE /\ force' \in BOOLEAN /\ stop' \in {stop, TRUE} /\ asked' \in BOOLEAN
    BY DEF Wake, Reconfigure, Stop, owner, history, SInv, TypeOK
  <1>2. TypeOK'
    BY <1>1 DEF SInv, TypeOK, seen
  <1>3. LateTicks'
    <2>1. \A t \in Threads : (Committed(t)' <=> Committed(t)) /\ (Promising(t)' <=> Promising(t))
      BY <1>1 DEF Committed, Promising, At, Onward
    <2>2. CASE stop' = TRUE
      BY <1>1, <2>1, <2>2 DEF SInv, LateTicks, FewLateTicks
    <2>3. CASE UNCHANGED stop
      BY <1>1, <2>1, <2>3 DEF SInv, LateTicks, FewLateTicks
    <2> QED
      BY <1>1, <2>2, <2>3
  <1>4. EventSet'
    BY <1>1 DEF EventSet
  <1> QED
    BY <1>1, <1>2, <1>3, <1>4, CallStep

\* A setting that enables the pipeline again gives it another late tick to come.
LEMMA ChangeConfigStep ==
  ASSUME SInv, ChangeConfig
  PROVE  SInv'
  <1>1. /\ UNCHANGED <<worker, thread, state, seen, starting, events, finished, asked>>
        /\ config' \in Settings /\ changes' = changes + 1
        /\ late' = IF config' \in Intervals /\ ~stop THEN 0 ELSE late
    BY DEF ChangeConfig, shared, owner
  <1>2. late' \in Nat /\ changes' \in Nat
    BY <1>1 DEF SInv, TypeOK
  <1>3. TypeOK'
    BY <1>1, <1>2 DEF SInv, TypeOK, seen, events
  <1>4. LateTicks'
    BY <1>1 DEF SInv, LateTicks, FewLateTicks, Committed, Promising, At, Onward, events
  <1>5. EventSet'
    BY <1>1 DEF SInv, EventSet, At, Onward, events
  <1> QED
    BY <1>1, <1>3, <1>4, <1>5, CallStep

-----------------------------------------------------------------------------
(* The theorems.                                                                 *)

\* A step of a thread preserves the invariant.
LEMMA RunStep ==
  ASSUME SInv, NEW t \in Threads, Run(t)
  PROVE  SInv'
  BY TopStep, ClearStep, ReadConfigStep, PauseStep, EnabledStep, CheckStep, BeginTickStep,
     EndStep, WaitStep, WaitedStep, PublishStep DEF Run

\* The invariant speaks of no other variable.
LEMMA StutterStep == SInv /\ UNCHANGED vars => SInv'
  <1> SUFFICES ASSUME SInv, UNCHANGED vars PROVE SInv'
    OBVIOUS
  <1>1. UNCHANGED <<config, state, published, publishLock, stop, wake, force, thread, worker,
                    starting, finished, asked, late, changes>>
    BY DEF vars, shared, seen, events, owner, history
  <1>2. TypeOK' /\ EventSet'
    BY <1>1 DEF SInv, TypeOK, EventSet, At, Onward
  <1>3. LateTicks'
    BY <1>1 DEF SInv, LateTicks, FewLateTicks, Committed, Promising, At, Onward
  <1> QED
    BY <1>1, <1>2, <1>3, CallStep DEF seen

\* However the calls and the threads interleave, at most one thread is alive, it owes the
\* subscribers nothing it does not publish next, and no event it has to heed is lost.
THEOREM Invariance == Spec => []SInv
  <1>1. SInv /\ [Next]_vars => SInv'
    BY StartStep, PublishStartStep, SignalStep, ChangeConfigStep, RunStep, ClockStep,
       StutterStep DEF Next
  <1> QED
    BY InitInv, <1>1, PTL DEF Spec

\* The thread never waits on while somebody asks for a tick or for its end.
THEOREM WaitsForNobody == Spec => []PromptWake
  <1>1. SInv => PromptWake
    BY DEF SInv, EventSet, PromptWake, At, Onward
  <1> QED
    BY <1>1, Invariance, PTL

\* At most one scheduler thread exists.
THEOREM ThreadIsAlone == Spec => []OneWorker
  <1>1. SInv => OneWorker
    BY DEF SInv
  <1> QED
    BY <1>1, Invariance, PTL

\* After a stop, or a setting that disables the pipeline, at most one more tick begins.
THEOREM OneLateTick == Spec => []FewLateTicks
  <1>1. SInv => FewLateTicks
    BY DEF SInv, LateTicks
  <1> QED
    BY <1>1, Invariance, PTL

\* Once everybody has published, the subscribers have seen the latest state last.
THEOREM SubscribersAreCurrent == Spec => []PublishedIsCurrent
  <1>1. SInv => PublishedIsCurrent
    BY DEF SInv, Publishing
  <1> QED
    BY <1>1, Invariance, PTL

-----------------------------------------------------------------------------
(* The preferences store and its windows (WorkspaceState).  A version is an      *)
(* authority and a revision; the invariant says what a window that holds one may *)
(* conclude of the store.                                                        *)

\* No version of the store's authority is ahead of the store.
Reached(a, r) == store.kind = "current" /\ store.authority = a => r <= store.revision

\* If the store is still at that version, the content has all of its edits.
Covers(a, r, content) ==
  store.kind = "current" /\ store.authority = a /\ store.revision = r =>
    store.content \subseteq content

StoreOk ==
  /\ store.kind = "current" => store.authority = made.authorities /\ 0 < store.authority
  /\ store.kind # "current" => store.authority = 0 /\ store.content = {}

\* A window whose saves are not blocked has seen all that its version holds.
CopyOk(me) ==
  /\ me.authority <= made.authorities /\ Reached(me.authority, me.revision)
  /\ ~me.blocked => Covers(me.authority, me.revision, me.content)

\* A save on its way: its window has not fallen behind it, and keeps what it sent as
\* long as it stays at the version it sent.
SentOk(me, v) ==
  /\ Reached(v.authority, v.revision) /\ Covers(v.authority, v.revision, v.content)
  /\ v.authority = me.authority =>
       /\ v.revision <= me.revision
       /\ v.revision = me.revision => v.content \subseteq me.content

\* Its answer: the window may go on from the version it made.
AcceptedOk(me, v) ==
  /\ Reached(v.authority, v.revision)
  /\ v.authority = me.authority =>
       v.revision <= me.revision + 1 /\ Covers(v.authority, v.revision, me.content)

\* A refresh that overlaps a save was asked for before it.
SaveOk(me) ==
  /\ me.save.stage # "none" => 0 < me.authority
  /\ me.save.stage \in {"sent", "accepted"} =>
       /\ 0 < me.save.version.authority /\ me.save.version.authority <= me.authority
       /\ me.refresh.stage \in {"sent", "answered"} => ~me.blocked
  /\ me.save.stage = "sent" => SentOk(me, me.save.version)
  /\ me.save.stage = "accepted" => AcceptedOk(me, me.save.version)

\* What a refresh has read is not of an older authority than the copy.
ReadOk(me, v) ==
  /\ me.authority <= v.authority /\ 0 < v.authority /\ v.authority <= made.authorities
  /\ Reached(v.authority, v.revision) /\ Covers(v.authority, v.revision, v.content)
RefreshOk(me) == me.refresh.stage = "answered" => ReadOk(me, me.refresh.version)

WindowOk(me) == CopyOk(me) /\ SaveOk(me) /\ RefreshOk(me)

\* The inductive invariant.
WInv == S!TypeOK /\ StoreOk /\ \A w \in Windows : WindowOk(window[w])

\* The store moves on, and what was said of a version stays true.
MovesOn ==
  /\ made.authorities <= made'.authorities
  /\ \A a, r \in Nat : a <= made.authorities /\ Reached(a, r) =>
       /\ Reached(a, r)'
       /\ \A c \in SUBSET Edits : Covers(a, r, c) => Covers(a, r, c)'

\* What a window may conclude stays true.
LEMMA WindowKept ==
  ASSUME S!TypeOK, made' \in [authorities : Nat, edits : SUBSET Edits], MovesOn,
         NEW me \in S!Window, WindowOk(me)
  PROVE  WindowOk(me)'
  <1>1. /\ me.authority \in Nat /\ me.revision \in Nat /\ me.content \in SUBSET Edits
        /\ me.save.version.authority \in Nat /\ me.save.version.revision \in Nat
        /\ me.save.version.content \in SUBSET Edits
        /\ me.refresh.version.authority \in Nat /\ me.refresh.version.revision \in Nat
        /\ me.refresh.version.content \in SUBSET Edits
    BY DEF S!Window, S!Version
  <1>2. made.authorities \in Nat /\ made'.authorities \in Nat
    BY DEF S!TypeOK
  <1>3. CopyOk(me)'
    BY <1>1, <1>2 DEF WindowOk, CopyOk, MovesOn
  <1>4. SaveOk(me)'
    <2>1. ASSUME me.save.stage = "sent" PROVE SentOk(me, me.save.version)'
      BY <1>1, <1>2, <2>1 DEF WindowOk, CopyOk, SaveOk, SentOk, MovesOn
    <2>2. ASSUME me.save.stage = "accepted" PROVE AcceptedOk(me, me.save.version)'
      BY <1>1, <1>2, <2>2 DEF WindowOk, CopyOk, SaveOk, AcceptedOk, MovesOn
    <2> QED
      BY <2>1, <2>2 DEF WindowOk, SaveOk
  <1>5. RefreshOk(me)'
    BY <1>1, <1>2 DEF WindowOk, RefreshOk, ReadOk, MovesOn
  <1> QED
    BY <1>3, <1>4, <1>5 DEF WindowOk

\* A step of one window, and what it makes of the store.
LEMMA WindowStep ==
  ASSUME WInv, NEW w \in Windows, NEW new \in S!Window, S!Set(w, new),
         store' \in S!File, made' \in [authorities : Nat, edits : SUBSET Edits],
         troubles' \in Nat, StoreOk', MovesOn, WindowOk(new)'
  PROVE  WInv'
  <1>1. window \in [Windows -> S!Window] /\ S!TypeOK
    BY DEF WInv, S!TypeOK
  <1>2. window' \in [Windows -> S!Window] /\ window'[w] = new
        /\ \A d \in Windows : d # w => window'[d] = window[d]
    BY <1>1 DEF S!Set
  <1>3. ASSUME NEW d \in Windows, d # w
        PROVE  WindowOk(window[d])'
    <2>1. window[d] \in S!Window /\ WindowOk(window[d])
      BY <1>1 DEF WInv
    <2>2. PICK me : me = window[d]
      OBVIOUS
    <2>3. WindowOk(me)'
      BY <1>1, <2>1, <2>2, WindowKept
    <2> QED
      BY <1>2, <1>3, <2>2, <2>3
  <1>4. WindowOk(window[w])'
    BY <1>2
  <1> QED
    BY <1>2, <1>3, <1>4 DEF WInv, S!TypeOK

\* A step that leaves the store as it is.
LEMMA QuietStep ==
  ASSUME WInv, NEW w \in Windows, NEW new \in S!Window, S!Set(w, new), store' = store,
         made' \in [authorities : Nat, edits : SUBSET Edits],
         made'.authorities = made.authorities, troubles' \in Nat, WindowOk(new)
  PROVE  WInv'
  <1>1. MovesOn /\ StoreOk'
    BY DEF WInv, S!TypeOK, MovesOn, StoreOk, Reached, Covers
  <1>2. WindowOk(new)'
    BY <1>1, WindowKept DEF WInv
  <1> QED
    BY <1>1, <1>2, WindowStep DEF WInv, S!TypeOK
\* What a window has in memory.
LEMMA WindowTells ==
  ASSUME WInv, NEW w \in Windows
  PROVE  /\ window[w] \in S!Window /\ WindowOk(window[w])
         /\ store \in S!File /\ troubles \in Nat /\ MaxTroubles \in Nat
         /\ made \in [authorities : Nat, edits : SUBSET Edits]
  BY WorkspaceAssumptions DEF WInv, S!TypeOK, S!ConstantsAssumption

\* An edit makes the copy larger.
LEMMA EditStep ==
  ASSUME WInv, NEW w \in Windows, NEW e \in Edits, S!Edit(w, e)
  PROVE  WInv'
  <1>1. PICK me : me = window[w]
    OBVIOUS
  <1>2. me \in S!Window /\ WindowOk(me)
    BY <1>1, WindowTells
  <1>3. PICK new : new = [me EXCEPT !.content = @ \union {e}, !.changed = TRUE,
                                    !.timer = TRUE, !.givenUp = FALSE]
    OBVIOUS
  <1>4. new \in S!Window
    BY <1>2, <1>3 DEF S!Window
  <1>5. /\ new.content = me.content \union {e} /\ new.authority = me.authority
        /\ new.revision = me.revision /\ new.blocked = me.blocked
        /\ new.save = me.save /\ new.refresh = me.refresh
    BY <1>2, <1>3 DEF S!Window
  <1>6. CopyOk(new)
    BY <1>2, <1>5 DEF WindowOk, CopyOk, Covers
  <1>7. SaveOk(new)
    BY <1>2, <1>5 DEF WindowOk, SaveOk, SentOk, AcceptedOk, Covers
  <1>8. RefreshOk(new)
    BY <1>2, <1>5 DEF WindowOk, RefreshOk, ReadOk
  <1>9. /\ S!Set(w, new) /\ store' = store /\ troubles' = troubles
        /\ made' \in [authorities : Nat, edits : SUBSET Edits]
        /\ made'.authorities = made.authorities
    BY <1>1, <1>3, WindowTells DEF S!Edit
  <1> QED
    BY <1>4, <1>6, <1>7, <1>8, <1>9, QuietStep, WindowTells DEF WindowOk

\* The loop of the saves sends what an unblocked window has.
LEMMA Continued ==
  ASSUME NEW me \in S!Window, CopyOk(me), RefreshOk(me), me.authority # 0
  PROVE  S!Continue(me) \in S!Window /\ WindowOk(S!Continue(me))
  <1>1. PICK new : new = S!Continue(me)
    OBVIOUS
  <1>2. CASE me.requested /\ ~me.blocked
    <2>1. PICK v : v = [authority |-> me.authority, revision |-> me.revision,
                        content |-> me.content]
      OBVIOUS
    <2>2. v \in S!Version
      BY <2>1 DEF S!Window, S!Version
    <2>3. new = [me EXCEPT !.requested = FALSE, !.changed = FALSE,
                           !.save = [stage |-> "sent", version |-> v]]
      BY <1>1, <1>2, <2>1 DEF S!Continue
    <2>4. new \in S!Window
      BY <2>2, <2>3 DEF S!Window, S!SaveStages
    <2>5. /\ new.content = me.content /\ new.authority = me.authority
          /\ new.revision = me.revision /\ new.blocked = me.blocked
          /\ new.save = [stage |-> "sent", version |-> v] /\ new.refresh = me.refresh
      BY <2>3 DEF S!Window
    <2>6. new.save.stage = "sent" /\ new.save.version = v
      BY <2>5
    <2>7. /\ v.authority = me.authority /\ v.revision = me.revision /\ v.content = me.content
          /\ me.authority \in Nat /\ me.revision \in Nat
      BY <2>1 DEF S!Window
    <2>8. CopyOk(new)
      BY <2>5 DEF CopyOk
    <2>9. SaveOk(new)
      BY <1>2, <2>5, <2>6, <2>7 DEF SaveOk, SentOk, CopyOk
    <2>10. RefreshOk(new)
      BY <2>5 DEF RefreshOk, ReadOk
    <2> QED
      BY <1>1, <2>4, <2>8, <2>9, <2>10 DEF WindowOk
  <1>3. CASE ~(me.requested /\ ~me.blocked)
    <2>1. new = [me EXCEPT !.save = S!NoSave]
      BY <1>1, <1>3 DEF S!Continue
    <2>2. new \in S!Window
      BY <2>1 DEF S!Window, S!NoSave, S!NoVersion, S!Version, S!SaveStages
    <2>3. /\ new.content = me.content /\ new.authority = me.authority
          /\ new.revision = me.revision /\ new.blocked = me.blocked
          /\ new.save.stage = "none" /\ new.refresh = me.refresh
      BY <2>1 DEF S!Window, S!NoSave
    <2> QED
      BY <1>1, <2>2, <2>3 DEF WindowOk, CopyOk, SaveOk, RefreshOk, ReadOk
  <1> QED
    BY <1>2, <1>3

\* A window that waits for nothing of its own save, blocked or not.
LEMMA Unsaved ==
  ASSUME NEW me \in S!Window, WindowOk(me), NEW new \in S!Window,
         new.content = me.content, new.authority = me.authority,
         new.revision = me.revision, me.blocked => new.blocked,
         new.save.stage \notin {"sent", "accepted"}, new.refresh = me.refresh,
         new.save.stage # "none" => me.save.stage # "none"
  PROVE  WindowOk(new)
  BY DEF WindowOk, CopyOk, SaveOk, RefreshOk, ReadOk

\* A timer asks for a save, and sends it unless one is under way.
LEMMA TimerStep ==
  ASSUME WInv, NEW w \in Windows, S!TimerFires(w)
  PROVE  WInv'
  <1>1. PICK old : old = window[w]
    OBVIOUS
  <1>2. old \in S!Window /\ WindowOk(old)
    BY <1>1, WindowTells
  <1>3. PICK me : me = [old EXCEPT !.timer = FALSE, !.requested = TRUE]
    OBVIOUS
  <1>4. me \in S!Window
    BY <1>2, <1>3 DEF S!Window
  <1>5. /\ me.content = old.content /\ me.authority = old.authority
        /\ me.revision = old.revision /\ me.blocked = old.blocked
        /\ me.save = old.save /\ me.refresh = old.refresh
    BY <1>2, <1>3 DEF S!Window
  <1>6. WindowOk(me)
    BY <1>2, <1>5 DEF WindowOk, CopyOk, SaveOk, SentOk, AcceptedOk, RefreshOk, ReadOk
  <1>7. PICK blockedMe : blockedMe = [me EXCEPT !.blocked = TRUE]
    OBVIOUS
  <1>8. ASSUME me.authority = 0
        PROVE  blockedMe \in S!Window /\ WindowOk(blockedMe)
    <2>1. blockedMe \in S!Window
      BY <1>4, <1>7 DEF S!Window
    <2>2. /\ blockedMe.content = me.content /\ blockedMe.authority = me.authority
          /\ blockedMe.revision = me.revision /\ blockedMe.blocked = TRUE
          /\ blockedMe.save = me.save /\ blockedMe.refresh = me.refresh
      BY <1>4, <1>7 DEF S!Window
    <2>3. me.save.stage = "none"
      BY <1>6, <1>8 DEF WindowOk, SaveOk
    <2> QED
      BY <1>4, <1>6, <2>1, <2>2, <2>3, Unsaved
  <1>9. PICK new : new = IF me.blocked THEN me ELSE IF me.authority = 0 THEN blockedMe
                         ELSE IF me.save.stage = "none" THEN S!Continue(me) ELSE me
    OBVIOUS
  <1>10. new \in S!Window /\ WindowOk(new)
    BY <1>4, <1>6, <1>8, <1>9, Continued DEF WindowOk
  <1>11. S!Set(w, new)
    BY <1>1, <1>3, <1>7, <1>9 DEF S!TimerFires
  <1> QED
    BY <1>10, <1>11, QuietStep, WindowTells DEF S!TimerFires

\* A save fails, or its answer is lost.
LEMMA FailureStep ==
  ASSUME WInv, NEW w \in Windows, S!UpdateFails(w) \/ S!Conflict(w)
  PROVE  WInv'
  <1>1. PICK me : me = window[w]
    OBVIOUS
  <1>2. me \in S!Window /\ WindowOk(me)
    BY <1>1, WindowTells
  <1>3. PICK new : new = IF S!UpdateFails(w)
                         THEN [me EXCEPT !.save = [S!NoSave EXCEPT !.stage = "error"]]
                         ELSE [me EXCEPT !.blocked = TRUE, !.save = S!NoSave]
    OBVIOUS
  <1>4. new \in S!Window
    BY <1>2, <1>3 DEF S!Window, S!NoSave, S!NoVersion, S!Version, S!SaveStages
  <1>5. /\ new.content = me.content /\ new.authority = me.authority
        /\ new.revision = me.revision /\ (me.blocked => new.blocked)
        /\ new.save.stage \in {"none", "error"} /\ new.refresh = me.refresh
        /\ new.save.stage # "none" => me.save.stage # "none"
    BY <1>1, <1>2, <1>3 DEF S!Window, S!NoSave, S!UpdateFails
  <1>6. WindowOk(new)
    BY <1>2, <1>4, <1>5, Unsaved
  <1>7. S!Set(w, new) /\ UNCHANGED <<store, made>> /\ troubles' \in Nat
    BY <1>1, <1>3, WindowTells DEF S!UpdateFails, S!Conflict
  <1> QED
    BY <1>4, <1>6, <1>7, QuietStep, WindowTells
\* An error ends the saves, or goes round once more.
LEMMA ErrorStep ==
  ASSUME WInv, NEW w \in Windows, S!Error(w)
  PROVE  WInv'
  <1>1. PICK me : me = window[w]
    OBVIOUS
  <1>2. me \in S!Window /\ WindowOk(me) /\ me.save.stage = "error"
    BY <1>1, WindowTells DEF S!Error
  <1>3. UNCHANGED <<store, made, troubles>>
    BY DEF S!Error
  <1>4. CASE S!Set(w, [me EXCEPT !.save = S!NoSave, !.givenUp = TRUE])
    <2>1. PICK new : new = [me EXCEPT !.save = S!NoSave, !.givenUp = TRUE]
      OBVIOUS
    <2>2. new \in S!Window
      BY <1>2, <2>1 DEF S!Window, S!NoSave, S!NoVersion, S!Version, S!SaveStages
    <2>3. /\ new.content = me.content /\ new.authority = me.authority
          /\ new.revision = me.revision /\ new.blocked = me.blocked
          /\ new.save.stage = "none" /\ new.refresh = me.refresh
      BY <1>2, <2>1 DEF S!Window, S!NoSave
    <2>4. WindowOk(new)
      BY <1>2, <2>2, <2>3, Unsaved
    <2> QED
      BY <1>3, <1>4, <2>1, <2>2, <2>4, QuietStep, WindowTells
  <1>5. CASE S!Set(w, [S!Continue(me) EXCEPT !.givenUp = ~me.requested])
    <2>1. PICK sent : sent = S!Continue(me)
      OBVIOUS
    <2>2. PICK new : new = [sent EXCEPT !.givenUp = ~me.requested]
      OBVIOUS
    <2>3. sent \in S!Window /\ WindowOk(sent)
      BY <1>2, <2>1, Continued DEF WindowOk, SaveOk
    <2>4. new \in S!Window
      BY <1>2, <2>2, <2>3 DEF S!Window
    <2>5. /\ new.content = sent.content /\ new.authority = sent.authority
          /\ new.revision = sent.revision /\ new.blocked = sent.blocked
          /\ new.save = sent.save /\ new.refresh = sent.refresh
      BY <2>2, <2>3 DEF S!Window
    <2>6. WindowOk(new)
      BY <2>3, <2>5 DEF WindowOk, CopyOk, SaveOk, SentOk, AcceptedOk, RefreshOk, ReadOk
    <2> QED
      BY <1>3, <1>5, <2>1, <2>2, <2>4, <2>6, QuietStep, WindowTells
  <1> QED
    BY <1>1, <1>4, <1>5 DEF S!Error
\* An accepted save: the window goes on from the version that the save has made.
LEMMA AcceptedStep ==
  ASSUME WInv, NEW w \in Windows, S!Accepted(w)
  PROVE  WInv'
  <1>1. PICK me : me = window[w]
    OBVIOUS
  <1>2. me \in S!Window /\ WindowOk(me) /\ me.save.stage = "accepted"
    BY <1>1, WindowTells DEF S!Accepted
  <1>3. UNCHANGED <<store, made, troubles>>
    BY DEF S!Accepted
  <1>4. CASE me.save.version.authority # me.authority
    <2>1. PICK new : new = [me EXCEPT !.blocked = TRUE, !.save = S!NoSave]
      OBVIOUS
    <2>2. new \in S!Window
      BY <1>2, <2>1 DEF S!Window, S!NoSave, S!NoVersion, S!Version, S!SaveStages
    <2>3. /\ new.content = me.content /\ new.authority = me.authority
          /\ new.revision = me.revision /\ new.blocked
          /\ new.save.stage = "none" /\ new.refresh = me.refresh
      BY <1>2, <2>1 DEF S!Window, S!NoSave
    <2>4. WindowOk(new)
      BY <1>2, <2>2, <2>3, Unsaved
    <2>5. S!Set(w, new)
      BY <1>1, <1>4, <2>1 DEF S!Accepted
    <2> QED
      BY <1>3, <2>2, <2>4, <2>5, QuietStep, WindowTells
  <1>5. CASE me.save.version.authority = me.authority
    <2>1. PICK new : new = [me EXCEPT !.revision = me.save.version.revision,
                                      !.blocked = FALSE,
                                      !.requested = @ \/ me.changed]
      OBVIOUS
    <2>2. me.save.version.revision \in Nat
      BY <1>2 DEF S!Window, S!Version
    <2>3. new \in S!Window
      BY <1>2, <2>1, <2>2 DEF S!Window
    <2>4. /\ new.content = me.content /\ new.authority = me.authority
          /\ new.revision = me.save.version.revision /\ new.blocked = FALSE
          /\ new.refresh = me.refresh
      BY <1>2, <2>1 DEF S!Window
    <2>5. CopyOk(new) /\ new.authority # 0
      BY <1>2, <1>5, <2>4 DEF WindowOk, CopyOk, SaveOk, AcceptedOk, S!Window
    <2>6. RefreshOk(new)
      BY <1>2, <2>4 DEF WindowOk, RefreshOk, ReadOk
    <2>7. S!Set(w, S!Continue(new))
      BY <1>1, <1>5, <2>1 DEF S!Accepted
    <2> QED
      BY <1>3, <2>3, <2>5, <2>6, <2>7, Continued, QuietStep, WindowTells
  <1> QED
    BY <1>4, <1>5

\* A refresh is asked for: at once only if no save is under way.
LEMMA RefreshStep ==
  ASSUME WInv, NEW w \in Windows, S!Refresh(w) \/ S!SendRefresh(w)
  PROVE  WInv'
  <1>1. PICK me : me = window[w]
    OBVIOUS
  <1>2. me \in S!Window /\ WindowOk(me)
    BY <1>1, WindowTells
  <1>3. PICK r : r = IF S!Refresh(w)
                     THEN [S!NoRefresh EXCEPT !.stage =
                             IF me.save.stage = "none" THEN "sent" ELSE "waiting"]
                     ELSE [me.refresh EXCEPT !.stage = "sent"]
    OBVIOUS
  <1>4. /\ r \in [stage : S!RefreshStages, version : S!Version]
        /\ r.stage \in {"sent", "waiting"} /\ (r.stage = "sent" => me.save.stage = "none")
    <2>1. me.refresh \in [stage : S!RefreshStages, version : S!Version]
      BY <1>2 DEF S!Window
    <2>2. S!NoRefresh \in [stage : S!RefreshStages, version : S!Version]
      BY DEF S!NoRefresh, S!NoVersion, S!Version, S!RefreshStages
    <2>3. ~S!Refresh(w) => me.save.stage = "none"
      BY <1>1 DEF S!SendRefresh
    <2> QED
      BY <1>3, <2>1, <2>2, <2>3 DEF S!RefreshStages
  <1>5. PICK new : new = [me EXCEPT !.refresh = r]
    OBVIOUS
  <1>6. new \in S!Window
    BY <1>2, <1>4, <1>5 DEF S!Window
  <1>7. /\ new.content = me.content /\ new.authority = me.authority
        /\ new.revision = me.revision /\ new.blocked = me.blocked
        /\ new.save = me.save /\ new.refresh = r
    BY <1>2, <1>5 DEF S!Window
  <1>8. WindowOk(new)
    BY <1>2, <1>4, <1>7 DEF WindowOk, CopyOk, SaveOk, SentOk, AcceptedOk, RefreshOk
  <1>9. S!Set(w, new) /\ UNCHANGED <<store, made, troubles>>
    <2>1. CASE S!Refresh(w)
      BY <1>1, <1>3, <1>5, <2>1 DEF S!Refresh
    <2>2. CASE ~S!Refresh(w)
      <3>1. S!SendRefresh(w)
        BY <2>2
      <3>2. S!Set(w, [me EXCEPT !.refresh.stage = "sent"]) /\ UNCHANGED <<store, made, troubles>>
        BY <1>1, <3>1 DEF S!SendRefresh
      <3>3. r = [me.refresh EXCEPT !.stage = "sent"]
        BY <1>3, <2>2
      <3> QED
        BY <1>5, <3>2, <3>3
    <2> QED
      BY <2>1, <2>2
  <1> QED
    BY <1>6, <1>8, <1>9, QuietStep, WindowTells

\* Forms are filled in and cleared; a page that is loaded again had its saves open.
LEMMA FormStep ==
  ASSUME WInv, BlockedReloads = FALSE, NEW w \in Windows,
         S!MarkUnsaved(w) \/ S!ClearUnsaved(w) \/ S!Reload(w)
  PROVE  WInv'
  <1>1. PICK me : me = window[w]
    OBVIOUS
  <1>2. me \in S!Window /\ WindowOk(me)
    BY <1>1, WindowTells
  <1>3. CASE S!MarkUnsaved(w) \/ S!ClearUnsaved(w)
    <2>1. PICK new : new = IF S!MarkUnsaved(w) THEN [me EXCEPT !.dirty = TRUE]
                           ELSE [me EXCEPT !.dirty = FALSE, !.hold = FALSE]
      OBVIOUS
    <2>2. new \in S!Window
      BY <1>2, <2>1 DEF S!Window
    <2>3. /\ new.content = me.content /\ new.authority = me.authority
          /\ new.revision = me.revision /\ new.blocked = me.blocked
          /\ new.save = me.save /\ new.refresh = me.refresh
      BY <1>2, <2>1 DEF S!Window
    <2>4. WindowOk(new)
      BY <1>2, <2>3 DEF WindowOk, CopyOk, SaveOk, SentOk, AcceptedOk, RefreshOk, ReadOk
    <2>5. S!Set(w, new) /\ UNCHANGED <<store, made, troubles>>
      BY <1>1, <1>3, <2>1 DEF S!MarkUnsaved, S!ClearUnsaved
    <2> QED
      BY <2>2, <2>4, <2>5, QuietStep, WindowTells
  <1>4. CASE S!Reload(w)
    <2>1. PICK new : new = [S!Loaded(me.content, me.authority, me.revision)
                              EXCEPT !.givenUp = TRUE]
      OBVIOUS
    <2>2. ~me.blocked
      BY <1>1, <1>4 DEF S!Reload
    <2>3. new \in S!Window
      BY <1>2, <2>1 DEF S!Loaded, S!Window, S!NoSave, S!NoRefresh, S!NoVersion, S!Version,
        S!SaveStages, S!RefreshStages
    <2>4. /\ new.content = me.content /\ new.authority = me.authority
          /\ new.revision = me.revision /\ new.save.stage = "none"
          /\ new.refresh.stage = "none"
      BY <2>1 DEF S!Loaded, S!NoSave, S!NoRefresh
    <2>5. WindowOk(new)
      BY <1>2, <2>2, <2>4 DEF WindowOk, CopyOk, SaveOk, RefreshOk
    <2>6. S!Set(w, new) /\ UNCHANGED <<store, made>> /\ troubles' \in Nat
      BY <1>1, <1>4, <2>1, WindowTells DEF S!Reload
    <2> QED
      BY <2>3, <2>5, <2>6, QuietStep, WindowTells
  <1> QED
    BY <1>3, <1>4

\* What a refresh has read is adopted, unless it is out of date or nothing new.
LEMMA RefreshedStep ==
  ASSUME WInv, NEW w \in Windows, S!Refreshed(w)
  PROVE  WInv'
  <1>1. PICK old : old = window[w]
    OBVIOUS
  <1>2. old \in S!Window /\ WindowOk(old) /\ old.refresh.stage = "answered"
    BY <1>1, WindowTells DEF S!Refreshed
  <1>3. PICK v : v = old.refresh.version
    OBVIOUS
  <1>4. v \in S!Version /\ ReadOk(old, v) /\ v.authority \in Nat /\ v.revision \in Nat
    BY <1>2, <1>3 DEF WindowOk, RefreshOk, S!Window, S!Version
  <1>5. PICK me : me = [old EXCEPT !.refresh = S!NoRefresh]
    OBVIOUS
  <1>6. me \in S!Window
    BY <1>2, <1>5 DEF S!Window, S!NoRefresh, S!NoVersion, S!Version, S!RefreshStages
  <1>7. /\ me.content = old.content /\ me.authority = old.authority
        /\ me.revision = old.revision /\ me.blocked = old.blocked
        /\ me.save = old.save /\ me.refresh.stage = "none"
    BY <1>2, <1>5 DEF S!Window, S!NoRefresh
  <1>8. WindowOk(me)
    BY <1>2, <1>7 DEF WindowOk, CopyOk, SaveOk, SentOk, AcceptedOk, RefreshOk
  <1>9. me.save.stage \in {"sent", "accepted"} => ~me.blocked
    BY <1>2, <1>7 DEF WindowOk, SaveOk
  <1>10. UNCHANGED <<store, made, troubles>>
    BY DEF S!Refreshed
  <1>11. CASE S!Outdated(me, v)
    <2>1. S!Set(w, me)
      BY <1>1, <1>3, <1>5, <1>11 DEF S!Refreshed
    <2> QED
      BY <1>6, <1>8, <1>10, <2>1, QuietStep, WindowTells
  <1>12. CASE /\ ~S!Outdated(me, v)
              /\ me.authority # v.authority \/ me.revision # v.revision \/ me.blocked
    <2>1. PICK new : new = S!Adopt(me, v)
      OBVIOUS
    <2>2. new \in S!Window
      BY <1>4, <1>6, <2>1 DEF S!Adopt, S!Window, S!Version
    <2>3. /\ new.content = IF me.dirty THEN me.content ELSE v.content
          /\ new.authority = v.authority /\ new.revision = v.revision
          /\ new.blocked = me.dirty /\ new.save = me.save /\ new.refresh = me.refresh
      BY <1>6, <2>1 DEF S!Adopt, S!Window
    <2>4. CopyOk(new)
      BY <1>4, <2>3 DEF CopyOk, ReadOk
    <2>5. RefreshOk(new)
      BY <1>7, <2>3 DEF RefreshOk
    <2>6. /\ me.authority <= v.authority /\ me.authority \in Nat /\ me.revision \in Nat
          /\ me.save.version.authority \in Nat /\ me.save.version.revision \in Nat
      BY <1>4, <1>6, <1>7 DEF ReadOk, S!Window, S!Version
    <2>7. ASSUME me.save.stage \in {"sent", "accepted"}
          PROVE  me.authority = v.authority => me.revision < v.revision
      BY <1>4, <1>9, <1>12, <2>6, <2>7 DEF S!Outdated
    <2>8. ASSUME me.save.stage = "sent"
          PROVE  SentOk(new, me.save.version)
      BY <1>4, <1>8, <2>3, <2>6, <2>7, <2>8 DEF WindowOk, SaveOk, SentOk
    <2>9. ASSUME me.save.stage = "accepted"
          PROVE  AcceptedOk(new, me.save.version)
      <3>1. /\ Reached(me.save.version.authority, me.save.version.revision)
            /\ me.save.version.authority <= me.authority
            /\ me.save.version.authority = me.authority =>
                 /\ me.save.version.revision <= me.revision + 1
                 /\ Covers(me.save.version.authority, me.save.version.revision, me.content)
        BY <1>8, <2>9 DEF WindowOk, SaveOk, AcceptedOk
      <3>2. ASSUME me.save.version.authority = v.authority
            PROVE  /\ me.save.version.revision <= v.revision
                   /\ Covers(me.save.version.authority, me.save.version.revision, new.content)
        <4>1. me.authority = v.authority /\ me.revision < v.revision
          BY <2>6, <2>7, <2>9, <3>1, <3>2
        <4>2. me.save.version.revision <= v.revision
          BY <1>4, <2>6, <3>1, <3>2, <4>1
        <4>3. CASE me.dirty
          BY <2>3, <3>1, <3>2, <4>1, <4>2, <4>3
        <4>4. CASE ~me.dirty
          BY <1>4, <2>3, <2>6, <3>2, <4>2, <4>4, WindowTells
            DEF ReadOk, Covers, Reached, S!File
        <4> QED
          BY <4>2, <4>3, <4>4
      <3> QED
        BY <1>4, <2>3, <2>6, <3>1, <3>2 DEF AcceptedOk
    <2>10. SaveOk(new)
      BY <1>4, <1>7, <1>8, <2>3, <2>6, <2>8, <2>9 DEF WindowOk, SaveOk, ReadOk
    <2>11. S!Set(w, new)
      BY <1>1, <1>3, <1>5, <1>12, <2>1 DEF S!Refreshed
    <2> QED
      BY <1>10, <2>2, <2>4, <2>5, <2>10, <2>11, QuietStep, WindowTells DEF WindowOk
  <1>13. CASE /\ ~S!Outdated(me, v) /\ ~me.blocked
              /\ me.authority = v.authority /\ me.revision = v.revision
    <2>1. PICK new : new = [me EXCEPT !.blocked = me.hold]
      OBVIOUS
    <2>2. new \in S!Window
      BY <1>6, <2>1 DEF S!Window
    <2>3. /\ new.content = me.content /\ new.authority = me.authority
          /\ new.revision = me.revision /\ new.save = me.save /\ new.refresh = me.refresh
      BY <1>6, <2>1 DEF S!Window
    <2>4. WindowOk(new)
      BY <1>7, <1>8, <1>13, <2>3
        DEF WindowOk, CopyOk, SaveOk, SentOk, AcceptedOk, RefreshOk
    <2>5. S!Set(w, new)
      BY <1>1, <1>3, <1>5, <1>13, <2>1 DEF S!Refreshed
    <2> QED
      BY <1>10, <2>2, <2>4, <2>5, QuietStep, WindowTells
  <1> QED
    BY <1>11, <1>12, <1>13
-----------------------------------------------------------------------------
(* The calls of the store.                                                      *)

\* A store that is made anew has an authority nobody has heard of.
LEMMA CurrentTells ==
  ASSUME WInv, NEW file, file = S!Current
  PROVE  /\ file \in S!File /\ file.kind = "current" /\ 0 < file.authority
         /\ store.kind = "current" => file = store
         /\ store.kind # "current" => file.authority = made.authorities + 1
         /\ made.authorities <= file.authority
  <1>1. store \in S!File /\ made.authorities \in Nat /\ StoreOk
    BY DEF WInv, S!TypeOK
  <1>2. CASE store.kind = "current"
    BY <1>1, <1>2 DEF S!Current, S!File, StoreOk
  <1>3. CASE store.kind # "current"
    <2>1. PICK kept : kept = IF store.kind = "legacy" THEN store ELSE S!NoFile
      OBVIOUS
    <2>2. S!NoFile \in S!File
      BY DEF S!NoFile, S!File
    <2>3. kept \in S!File
      BY <1>1, <2>1, <2>2
    <2>4. file = [kept EXCEPT !.kind = "current", !.authority = made.authorities + 1]
      BY <1>3, <2>1 DEF S!Current
    <2>5. PICK n : n = made.authorities + 1
      OBVIOUS
    <2>6. n \in Nat /\ 0 < n /\ made.authorities <= n
      BY <1>1, <2>5
    <2>7. file \in S!File /\ file.kind = "current" /\ file.authority = n
      BY <2>3, <2>4, <2>5, <2>6 DEF S!File
    <2> QED
      BY <1>3, <2>5, <2>6, <2>7
  <1> QED
    BY <1>2, <1>3

\* A call that persists the store as it found it.
LEMMA PersistTells ==
  ASSUME WInv, S!Persist(S!Current)
  PROVE  /\ store' = S!Current /\ store' \in S!File /\ StoreOk' /\ MovesOn
         /\ made' \in [authorities : Nat, edits : SUBSET Edits]
         /\ made'.authorities = store'.authority /\ 0 < store'.authority
  <1>1. /\ made \in [authorities : Nat, edits : SUBSET Edits]
        /\ store \in S!File /\ StoreOk
    BY DEF WInv, S!TypeOK
  <1>2. PICK file : file = S!Current
    OBVIOUS
  <1>3. /\ file \in S!File /\ file.kind = "current" /\ 0 < file.authority
        /\ store.kind = "current" => file = store
        /\ store.kind # "current" => file.authority = made.authorities + 1
    BY <1>2, CurrentTells
  <1>4. /\ store' = file
        /\ made' = [made EXCEPT !.authorities =
                      IF store.kind = "current" THEN @ ELSE made.authorities + 1]
    BY <1>2 DEF S!Persist
  <1>5. made' \in [authorities : Nat, edits : SUBSET Edits] /\ made'.authorities = file.authority
    BY <1>1, <1>3, <1>4 DEF StoreOk
  <1>6. StoreOk'
    BY <1>3, <1>4, <1>5 DEF StoreOk
  <1>7. MovesOn
    <2>1. CASE store.kind = "current"
      <3>1. store' = store /\ made'.authorities = made.authorities
        BY <1>1, <1>3, <1>4, <1>5, <2>1 DEF StoreOk
      <3> QED
        BY <1>1, <3>1 DEF MovesOn, Reached, Covers
    <2>2. CASE store.kind # "current"
      <3>1. store'.authority = made.authorities + 1 /\ made'.authorities = made.authorities + 1
        BY <1>3, <1>4, <1>5, <2>2
      <3> QED
        BY <1>1, <3>1 DEF MovesOn, Reached, Covers
    <2> QED
      BY <2>1, <2>2
  <1> QED
    BY <1>2, <1>3, <1>4, <1>5, <1>6, <1>7

\* A refresh reads the store.
LEMMA ReadStep ==
  ASSUME WInv, NEW w \in Windows, S!Read(w)
  PROVE  WInv'
  <1>1. PICK me : me = window[w]
    OBVIOUS
  <1>2. me \in S!Window /\ WindowOk(me) /\ me.refresh.stage = "sent"
    BY <1>1, WindowTells DEF S!Read
  <1>3. /\ store' = S!Current /\ store' \in S!File /\ StoreOk' /\ MovesOn
        /\ made' \in [authorities : Nat, edits : SUBSET Edits]
        /\ made'.authorities = store'.authority /\ 0 < store'.authority
    BY PersistTells DEF S!Read
  <1>4. PICK v : v = [authority |-> S!Current.authority, revision |-> S!Current.revision,
                      content |-> S!Current.content]
    OBVIOUS
  <1>5. /\ v.authority = store'.authority /\ v.revision = store'.revision
        /\ v.content = store'.content /\ v \in S!Version
    BY <1>3, <1>4 DEF S!File, S!Version
  <1>6. PICK new : new = [me EXCEPT !.refresh = [stage |-> "answered", version |-> v]]
    OBVIOUS
  <1>7. new \in S!Window
    BY <1>2, <1>5, <1>6 DEF S!Window, S!RefreshStages
  <1>8. /\ new.content = me.content /\ new.authority = me.authority
        /\ new.revision = me.revision /\ new.blocked = me.blocked
        /\ new.save = me.save /\ new.refresh.version = v /\ new.refresh.stage = "answered"
    BY <1>2, <1>6 DEF S!Window
  <1>9. WindowOk(me)'
    BY <1>2, <1>3, WindowKept DEF WInv
  <1>10. CopyOk(new)' /\ SaveOk(new)'
    BY <1>2, <1>8, <1>9 DEF WindowOk, CopyOk, SaveOk, SentOk, AcceptedOk
  <1>11. RefreshOk(new)'
    <2>1. me.authority <= made'.authorities
      BY <1>9 DEF WindowOk, CopyOk
    <2>2. store'.authority \in Nat /\ store'.revision \in Nat
      BY <1>3 DEF S!File
    <2> QED
      BY <1>3, <1>5, <1>8, <2>1, <2>2 DEF RefreshOk, ReadOk, Reached, Covers
  <1>12. S!Set(w, new) /\ troubles' \in Nat
    BY <1>1, <1>4, <1>6, WindowTells DEF S!Read
  <1> QED
    BY <1>3, <1>7, <1>10, <1>11, <1>12, WindowStep DEF WindowOk

\* A save whose version is not the store's any more.
LEMMA RefusedStep ==
  ASSUME WInv, NEW w \in Windows, S!Update(w), ~S!Expected(window[w].save.version)
  PROVE  WInv'
  <1>1. PICK me : me = window[w]
    OBVIOUS
  <1>2. me \in S!Window /\ WindowOk(me) /\ me.save.stage = "sent"
    BY <1>1, WindowTells DEF S!Update
  <1>3. /\ store' \in S!File /\ StoreOk' /\ MovesOn
        /\ made' \in [authorities : Nat, edits : SUBSET Edits]
    BY PersistTells DEF S!Update
  <1>4. PICK new : new = [me EXCEPT !.save = [S!NoSave EXCEPT !.stage = "conflict"]]
    OBVIOUS
  <1>5. new \in S!Window
    BY <1>2, <1>4 DEF S!Window, S!NoSave, S!NoVersion, S!Version, S!SaveStages
  <1>6. /\ new.content = me.content /\ new.authority = me.authority
        /\ new.revision = me.revision /\ new.blocked = me.blocked
        /\ new.save.stage = "conflict" /\ new.refresh = me.refresh
    BY <1>2, <1>4 DEF S!Window, S!NoSave
  <1>7. WindowOk(new)
    BY <1>2, <1>5, <1>6, Unsaved
  <1>8. WindowOk(new)'
    BY <1>3, <1>5, <1>7, WindowKept DEF WInv
  <1>9. S!Set(w, new) /\ troubles' \in Nat
    BY <1>1, <1>4, WindowTells DEF S!Update
  <1> QED
    BY <1>3, <1>5, <1>8, <1>9, WindowStep

\* What a save that is accepted does to the store: nothing is removed from it.
LEMMA UpdateTells ==
  ASSUME WInv, NEW w \in Windows, S!Update(w), S!Expected(window[w].save.version),
         NEW v, v = window[w].save.version
  PROVE  /\ store.kind = "current" /\ store.authority = v.authority
         /\ store.revision = v.revision /\ v \in S!Version
         /\ store' = [store EXCEPT !.revision = @ + 1, !.content = v.content]
         /\ store.content \subseteq v.content /\ made' = made
  <1>1. PICK me : me = window[w]
    OBVIOUS
  <1>2. me \in S!Window /\ WindowOk(me) /\ me.save.stage = "sent" /\ v = me.save.version
    BY <1>1, WindowTells DEF S!Update
  <1>3. /\ v \in S!Version /\ v.authority \in Nat /\ me.authority \in Nat
        /\ made \in [authorities : Nat, edits : SUBSET Edits] /\ made.authorities \in Nat
    BY <1>2, WindowTells DEF S!Window, S!Version
  <1>4. PICK file : file = S!Current
    OBVIOUS
  <1>5. v.authority = file.authority /\ v.revision = file.revision
    BY <1>4 DEF S!Expected
  <1>6. v.authority <= made.authorities
    BY <1>2, <1>3 DEF WindowOk, CopyOk, SaveOk
  <1>7. store.kind = "current" /\ file = store
    BY <1>3, <1>4, <1>5, <1>6, CurrentTells
  <1>8. /\ store' = [file EXCEPT !.revision = @ + 1, !.content = v.content]
        /\ made' = [made EXCEPT !.authorities =
                      IF store.kind = "current" THEN @ ELSE made.authorities + 1]
    BY <1>4 DEF S!Update, S!Persist
  <1>9. made' = made
    BY <1>3, <1>7, <1>8
  <1>10. store.content \subseteq v.content
    BY <1>2, <1>5, <1>7 DEF WindowOk, SaveOk, SentOk, Covers
  <1> QED
    BY <1>3, <1>5, <1>7, <1>8, <1>9, <1>10

\* A save that is accepted.
LEMMA SavedStep ==
  ASSUME WInv, NEW w \in Windows, S!Update(w), S!Expected(window[w].save.version)
  PROVE  WInv'
  <1>1. PICK me : me = window[w]
    OBVIOUS
  <1>2. me \in S!Window /\ WindowOk(me) /\ me.save.stage = "sent"
    BY <1>1, WindowTells DEF S!Update
  <1>3. PICK v : v = me.save.version
    OBVIOUS
  <1>4. /\ store.kind = "current" /\ store.authority = v.authority
        /\ store.revision = v.revision /\ v \in S!Version
        /\ store' = [store EXCEPT !.revision = @ + 1, !.content = v.content]
        /\ store.content \subseteq v.content /\ made' = made
    BY <1>1, <1>3, UpdateTells
  <1>5. /\ store \in S!File /\ StoreOk /\ v.revision \in Nat /\ v.authority \in Nat
        /\ v.content \in SUBSET Edits
        /\ made \in [authorities : Nat, edits : SUBSET Edits] /\ made.authorities \in Nat
    BY <1>4, WindowTells DEF WInv, S!Version
  <1>6. /\ store' \in S!File /\ store'.kind = "current" /\ store'.authority = v.authority
        /\ store'.revision = v.revision + 1 /\ store'.content = v.content
    <2>1. PICK n : n = v.revision + 1
      OBVIOUS
    <2>2. n \in Nat /\ store' = [store EXCEPT !.revision = n, !.content = v.content]
      BY <1>4, <1>5, <2>1
    <2>3. /\ store' \in S!File /\ store'.kind = store.kind /\ store'.revision = n
          /\ store'.authority = store.authority /\ store'.content = v.content
      BY <1>5, <2>2 DEF S!File
    <2> QED
      BY <1>4, <2>1, <2>3
  <1>7. StoreOk' /\ MovesOn
    BY <1>4, <1>5, <1>6 DEF StoreOk, MovesOn, Reached, Covers
  <1>8. PICK u : u = [v EXCEPT !.revision = @ + 1, !.content = {}]
    OBVIOUS
  <1>9. u \in S!Version /\ u.authority = v.authority /\ u.revision = v.revision + 1
    <2>1. PICK n : n = v.revision + 1
      OBVIOUS
    <2>2. n \in Nat /\ u = [v EXCEPT !.revision = n, !.content = {}]
      BY <1>5, <1>8, <2>1
    <2> QED
      BY <1>4, <2>1, <2>2 DEF S!Version
  <1>10. PICK new : new = [me EXCEPT !.save = [stage |-> "accepted", version |-> u]]
    OBVIOUS
  <1>11. new \in S!Window
    BY <1>2, <1>9, <1>10 DEF S!Window, S!SaveStages
  <1>12. /\ new.content = me.content /\ new.authority = me.authority
         /\ new.revision = me.revision /\ new.blocked = me.blocked
         /\ new.save.version = u /\ new.save.stage = "accepted" /\ new.refresh = me.refresh
    BY <1>2, <1>10 DEF S!Window
  <1>13. WindowOk(me)'
    BY <1>2, <1>4, <1>5, <1>7, WindowKept DEF WInv
  <1>14. CopyOk(new)' /\ RefreshOk(new)'
    BY <1>12, <1>13 DEF WindowOk, CopyOk, RefreshOk, ReadOk
  <1>15. /\ me.revision \in Nat
         /\ 0 < v.authority /\ v.authority <= me.authority /\ 0 < me.authority
         /\ me.refresh.stage \in {"sent", "answered"} => ~me.blocked
         /\ v.authority = me.authority => v.revision <= me.revision
         /\ v.authority = me.authority /\ v.revision = me.revision => v.content \subseteq me.content
    BY <1>2, <1>3 DEF WindowOk, SaveOk, SentOk, S!Window
  <1>16. Reached(me.authority, me.revision)
    BY <1>2 DEF WindowOk, CopyOk
  <1>17. AcceptedOk(new, u)'
    BY <1>4, <1>5, <1>6, <1>9, <1>12, <1>15, <1>16 DEF AcceptedOk, Reached, Covers
  <1>18. SaveOk(new)'
    BY <1>9, <1>12, <1>15, <1>17 DEF SaveOk
  <1>19. S!Set(w, new) /\ troubles' \in Nat
    BY <1>1, <1>3, <1>8, <1>10, WindowTells DEF S!Update
  <1> QED
    BY <1>4, <1>5, <1>6, <1>7, <1>11, <1>14, <1>18, <1>19, WindowStep DEF WindowOk

\* The file is removed: nobody can save any more but to what is made anew.
LEMMA RemoveStep ==
  ASSUME WInv, S!Remove
  PROVE  WInv'
  <1>1. /\ store' = S!NoFile /\ made' = made /\ window' = window /\ troubles' \in Nat
        /\ S!TypeOK
    BY WorkspaceAssumptions DEF S!Remove, WInv, S!TypeOK, S!ConstantsAssumption
  <1>2. store' \in S!File /\ StoreOk' /\ MovesOn
    BY <1>1 DEF S!NoFile, S!File, StoreOk, MovesOn, Reached, Covers, S!TypeOK
  <1>3. ASSUME NEW d \in Windows
        PROVE  WindowOk(window[d])'
    <2>1. PICK me : me = window[d]
      OBVIOUS
    <2>2. me \in S!Window /\ WindowOk(me)
      BY <1>1, <2>1 DEF WInv, S!TypeOK
    <2>3. WindowOk(me)'
      BY <1>1, <1>2, <2>2, WindowKept DEF S!TypeOK
    <2> QED
      BY <1>1, <2>1, <2>3
  <1> QED
    BY <1>1, <1>2, <1>3 DEF WInv, S!TypeOK

\* WInv is inductive, if a page is not loaded again while its saves are blocked.
LEMMA WindowsPreserved ==
  ASSUME WInv, BlockedReloads = FALSE, [S!Next]_(S!vars)
  PROVE  WInv'
  <1>1. CASE S!Remove
    BY <1>1, RemoveStep
  <1>2. ASSUME NEW w \in Windows, NEW e \in Edits, S!Edit(w, e)
        PROVE  WInv'
    BY <1>2, EditStep
  <1>3. ASSUME NEW w \in Windows, S!Proceed(w)
        PROVE  WInv'
    <2>1. CASE S!TimerFires(w) \/ S!Accepted(w) \/ S!Conflict(w) \/ S!Error(w)
      BY <2>1, TimerStep, AcceptedStep, FailureStep, ErrorStep
    <2>2. CASE S!Update(w)
      BY <2>2, SavedStep, RefusedStep
    <2>3. CASE S!Refresh(w) \/ S!SendRefresh(w) \/ S!Read(w) \/ S!Refreshed(w)
      BY <2>3, RefreshStep, ReadStep, RefreshedStep
    <2> QED
      BY <1>3, <2>1, <2>2, <2>3 DEF S!Proceed
  <1>4. ASSUME NEW w \in Windows,
               S!UpdateFails(w) \/ S!MarkUnsaved(w) \/ S!ClearUnsaved(w) \/ S!Reload(w)
        PROVE  WInv'
    BY <1>4, FailureStep, FormStep
  <1>5. CASE UNCHANGED S!vars
    BY <1>5 DEF S!vars, WInv, S!TypeOK, StoreOk, WindowOk, CopyOk, SaveOk, SentOk, AcceptedOk,
      RefreshOk, ReadOk, Reached, Covers
  <1> QED
    BY <1>1, <1>2, <1>3, <1>4, <1>5 DEF S!Next

\* At first nobody has an authority.
LEMMA WindowsInit == S!Init => WInv
  <1> SUFFICES ASSUME S!Init PROVE WInv
    OBVIOUS
  <1>1. /\ store \in S!File /\ store.kind # "current" /\ store.authority = 0
        /\ store.content = {}
    <2>1. CASE store = S!NoFile
      BY <2>1 DEF S!NoFile, S!File
    <2>2. CASE store = [S!NoFile EXCEPT !.kind = "legacy", !.revision = 1]
      BY <2>2 DEF S!NoFile, S!File
    <2> QED
      BY <2>1, <2>2 DEF S!Init
  <1>2. PICK page : page = S!Loaded({}, 0, 0)
    OBVIOUS
  <1>3. page \in S!Window
    BY <1>2 DEF S!Loaded, S!Window, S!NoSave, S!NoRefresh, S!NoVersion, S!Version,
      S!SaveStages, S!RefreshStages
  <1>4. /\ page.authority = 0 /\ page.save.stage = "none" /\ page.refresh.stage = "none"
    BY <1>2 DEF S!Loaded, S!NoSave, S!NoRefresh
  <1>5. made.authorities = 0 /\ made \in [authorities : Nat, edits : SUBSET Edits]
    BY DEF S!Init
  <1>6. WindowOk(page)
    BY <1>1, <1>4, <1>5 DEF WindowOk, CopyOk, SaveOk, RefreshOk, Reached, Covers
  <1>7. \A w \in Windows : window[w] = page
    BY <1>2 DEF S!Init
  <1>8. window \in [Windows -> S!Window] /\ troubles \in Nat
    BY <1>2, <1>3 DEF S!Init
  <1>9. StoreOk
    BY <1>1 DEF StoreOk
  <1> QED
    BY <1>1, <1>5, <1>6, <1>7, <1>8, <1>9 DEF WInv, S!TypeOK

\* For any windows and edits, whatever fails: what a window holds of the store is true of
\* it (workspace_state.py update; workspace.js saveRemoteState, refreshWorkspaceContext).
THEOREM WindowsAgree ==
  ASSUME BlockedReloads = FALSE
  PROVE  S!Spec => []WInv
  <1>1. WInv /\ [S!Next]_(S!vars) => WInv'
    BY WindowsPreserved
  <1> QED
    BY <1>1, WindowsInit, PTL DEF S!Spec

\* No update that is accepted removes an edit its window never had, if no page is loaded
\* again while its saves are blocked (workspace_state.py update; workspace.js: "CAS never
\* pairs a fresh revision with stale UI state").
THEOREM UpdatesKeepEdits ==
  ASSUME BlockedReloads = FALSE
  PROVE  S!Spec => NothingOverwritten
  <1>1. WInv /\ [S!Next]_(S!vars)
          => [store'.authority = store.authority => store.content \subseteq store'.content]_(S!vars)
    <2> SUFFICES ASSUME WInv, S!Next, store'.authority = store.authority
                 PROVE  store.content \subseteq store'.content
      OBVIOUS
    <2>1. CASE S!Remove
      BY <2>1 DEF S!Remove, S!NoFile, WInv, StoreOk
    <2>2. ASSUME S!Persist(S!Current) PROVE store.content \subseteq store'.content
      BY <2>2, PersistTells, CurrentTells DEF WInv, StoreOk
    <2>3. ASSUME NEW w \in Windows, S!Update(w)
          PROVE  store.content \subseteq store'.content
      <3>1. CASE S!Expected(window[w].save.version)
        <4>1. PICK v : v = window[w].save.version
          OBVIOUS
        <4>2. /\ store' = [store EXCEPT !.revision = @ + 1, !.content = v.content]
              /\ store.content \subseteq v.content
          BY <2>3, <3>1, <4>1, UpdateTells
        <4>3. store \in S!File
          BY DEF WInv, S!TypeOK
        <4> QED
          BY <4>2, <4>3 DEF S!File
      <3>2. CASE ~S!Expected(window[w].save.version)
        BY <2>2, <2>3, <3>2 DEF S!Update
      <3> QED
        BY <3>1, <3>2
    <2>4. ASSUME NEW w \in Windows, S!Read(w)
          PROVE  store.content \subseteq store'.content
      BY <2>2, <2>4 DEF S!Read
    <2>5. ASSUME NEW w \in Windows, NEW e \in Edits, S!Edit(w, e)
          PROVE  store' = store
      BY <2>5 DEF S!Edit
    <2>6. ASSUME NEW w \in Windows,
                 \/ S!TimerFires(w) \/ S!Accepted(w) \/ S!Conflict(w) \/ S!Error(w)
                 \/ S!Refresh(w) \/ S!SendRefresh(w) \/ S!Refreshed(w)
                 \/ S!UpdateFails(w) \/ S!MarkUnsaved(w) \/ S!ClearUnsaved(w) \/ S!Reload(w)
          PROVE  store' = store
      <3>1. CASE S!TimerFires(w) \/ S!Accepted(w) \/ S!Conflict(w) \/ S!Error(w)
        BY <3>1 DEF S!TimerFires, S!Accepted, S!Conflict, S!Error
      <3>2. CASE S!Refresh(w) \/ S!SendRefresh(w) \/ S!Refreshed(w)
        BY <3>2 DEF S!Refresh, S!SendRefresh, S!Refreshed
      <3>3. CASE S!UpdateFails(w) \/ S!MarkUnsaved(w) \/ S!ClearUnsaved(w) \/ S!Reload(w)
        BY <3>3 DEF S!UpdateFails, S!MarkUnsaved, S!ClearUnsaved, S!Reload
      <3> QED
        BY <2>6, <3>1, <3>2, <3>3
    <2> QED
      BY <2>1, <2>3, <2>4, <2>5, <2>6 DEF S!Next, S!Proceed
  <1> QED
    BY <1>1, WindowsAgree, PTL DEF S!Spec, NothingOverwritten, S!NothingOverwritten

=============================================================================
