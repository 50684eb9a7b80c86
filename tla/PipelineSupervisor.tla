------------------------- MODULE PipelineSupervisor -------------------------
(***************************************************************************)
(* The scheduler of the automatic pipeline (src/vcstudio/gui_web/          *)
(* pipeline_supervisor.py): one daemon thread that reads the setting, waits *)
(* for a deadline or an event and runs one tick at a time, and the calls   *)
(* that start, wake, reconfigure and stop it from other threads.           *)
(*                                                                         *)
(* Time is whether the deadline has passed.  Of the published state it     *)
(* keeps who runs; of a tick, that it begins and ends.                     *)
(***************************************************************************)
EXTENDS Naturals, FiniteSets

CONSTANTS
  Callers,      \* threads that call start, wake, reconfigure and stop
  Threads,      \* the scheduler threads start may create, one after the other
  None,
  MaxChanges    \* bound: changes of the setting

VARIABLES
  config,       \* the setting get_config reads
  state,        \* _state: running, paused, ticking
  published,    \* the state the subscribers saw last
  publishLock,  \* _publish_lock
  stop, wake,   \* _stop_event and _wake_event
  force,        \* _force_tick
  thread,       \* _thread
  worker,       \* per thread, where _run stands and its local variables
  starting,     \* the callers of start that have still to publish
  finished,     \* _last_finished_monotonic: a tick has ended, of whatever thread
  asked,        \* history: an accepted wake that no tick has answered yet
  late,         \* history: ticks begun since stop was signalled or the setting disabled
  changes       \* bound

seen == <<published, publishLock>>
events == <<stop, wake, force>>
owner == <<thread, finished>>
shared == <<state, seen, events, owner>>
history == <<asked, late, changes>>
vars == <<config, shared, worker, starting, history>>

ASSUME NoneAssumption == None \notin Threads /\ None \notin Callers
ASSUME ChangesAssumption == MaxChanges \in Nat

\* Enabled with one interval or another, disabled, or rejected.
Intervals == {"short", "long"}
Settings == Intervals \union {"off", "bad"}
State == [running : BOOLEAN, paused : BOOLEAN, ticking : BOOLEAN]

\* unborn and dead: not alive.  publish: _update_state has changed the state, its
\* snapshot is still to be published.
Places == {"unborn", "top", "clear", "config", "force", "check", "wait", "waiting",
           "tick", "ticking", "finally", "publish", "dead"}

\* sampled: the setting last read.  previous: previous_enabled and, if it was
\* enabled, previous_interval.  first: first_valid_config.
Worker == [pc : Places, then : Places, snapshot : State, sampled : Settings,
           previous : Intervals \union {"unknown", "off"}, first : BOOLEAN,
           deadline : {"none", "ahead", "due"}]
Unborn == [pc |-> "unborn", then |-> "unborn",
           snapshot |-> [running |-> FALSE, paused |-> FALSE, ticking |-> FALSE],
           sampled |-> "off", previous |-> "unknown", first |-> TRUE,
           deadline |-> "none"]

TypeOK ==
  /\ config \in Settings
  /\ state \in State /\ published \in State
  /\ publishLock \in Callers \union {None}
  /\ stop \in BOOLEAN /\ wake \in BOOLEAN /\ force \in BOOLEAN
  /\ thread \in Threads \union {None}
  /\ worker \in [Threads -> Worker]
  /\ starting \subseteq Callers
  /\ finished \in BOOLEAN /\ asked \in BOOLEAN /\ late \in Nat /\ changes \in Nat

Init ==
  /\ config \in {"short", "off"}
  /\ state = Unborn.snapshot /\ published = Unborn.snapshot
  /\ publishLock = None
  /\ stop = FALSE /\ wake = FALSE /\ force = FALSE
  /\ thread = None /\ finished = FALSE
  /\ worker = [t \in Threads |-> Unborn]
  /\ starting = {}
  /\ asked = FALSE /\ late = 0 /\ changes = 0

IsAlive(t) == worker[t].pc \notin {"unborn", "dead"}

Alive == thread # None /\ IsAlive(thread)

-----------------------------------------------------------------------------
(* The calls. *)

\* Under both locks the thread is created; the publish lock is kept until the
\* first state is published.
Start(c) ==
  /\ c \notin starting /\ publishLock = None /\ ~Alive
  /\ \E t \in Threads :
       /\ worker[t].pc = "unborn"
       /\ thread' = t
       /\ worker' = [worker EXCEPT ![t].pc = "top"]
  /\ stop' = FALSE /\ wake' = FALSE /\ force' = FALSE
  /\ state' = [running |-> TRUE, paused |-> FALSE, ticking |-> FALSE]
  /\ publishLock' = c
  /\ starting' = starting \union {c}
  /\ asked' = FALSE /\ late' = 0
  /\ UNCHANGED <<config, published, finished, changes>>

\* The snapshot was taken under the lock, before the thread could change anything.
PublishStart(c) ==
  /\ c \in starting
  /\ published' = [running |-> TRUE, paused |-> FALSE, ticking |-> FALSE]
  /\ publishLock' = None
  /\ starting' = starting \ {c}
  /\ UNCHANGED <<config, state, events, owner, worker, history>>

\* api.pipeline_wake and the setting's dialog.
Wake(c) ==
  /\ c \notin starting /\ Alive
  /\ force' = TRUE /\ wake' = TRUE
  /\ asked' = TRUE
  /\ UNCHANGED <<config, state, seen, stop, owner, worker, starting, late, changes>>

Reconfigure(c) ==
  /\ c \notin starting /\ Alive
  /\ wake' = TRUE
  /\ UNCHANGED <<config, state, seen, stop, force, owner, worker, starting, history>>

\* The join, which ends with the thread or with the timeout, changes nothing.
Stop(c) ==
  /\ c \notin starting /\ thread # None
  /\ stop' = TRUE /\ wake' = TRUE
  /\ UNCHANGED <<config, state, seen, force, owner, worker, starting, history>>

\* Somebody changes the setting; its dialog calls reconfigure and wake afterwards.
ChangeConfig ==
  /\ changes < MaxChanges /\ changes' = changes + 1
  /\ config' \in Settings \ {config}
  /\ late' = IF config' \in Intervals /\ ~stop THEN 0 ELSE late
  /\ UNCHANGED <<shared, worker, starting, asked>>

-----------------------------------------------------------------------------
(* The thread. *)

At(t, pc) == worker[t].pc = pc
Goto(t, pc) == worker' = [worker EXCEPT ![t].pc = pc]

\* _update_state: what did not change is not published.
Update(t, local, new, then) ==
  /\ state' = new
  /\ worker' = [worker EXCEPT ![t] =
       IF new = state THEN [local EXCEPT !.pc = then]
       ELSE [local EXCEPT !.pc = "publish", !.then = then, !.snapshot = new]]

Publish(t) ==
  /\ At(t, "publish") /\ publishLock = None
  /\ published' = worker[t].snapshot
  /\ worker' = [worker EXCEPT ![t].pc = worker[t].then, ![t].then = Unborn.then,
                              ![t].snapshot = Unborn.snapshot]
  /\ UNCHANGED <<config, state, publishLock, events, owner, starting, history>>

Top(t) ==
  /\ At(t, "top")
  /\ Goto(t, IF stop THEN "finally" ELSE "clear")
  /\ UNCHANGED <<config, shared, starting, history>>

Clear(t) ==
  /\ At(t, "clear")
  /\ wake' = FALSE
  /\ Goto(t, "config")
  /\ UNCHANGED <<config, state, seen, stop, force, owner, starting, history>>

ReadConfig(t) ==
  /\ At(t, "config")
  /\ worker' = [worker EXCEPT ![t].pc = "force", ![t].sampled = config]
  /\ UNCHANGED <<config, shared, starting, history>>

\* A setting that is rejected forgets the deadline, and keeps the force.
Rejected(t) ==
  /\ At(t, "force") /\ worker[t].sampled = "bad"
  /\ Update(t, [worker[t] EXCEPT !.deadline = "none", !.previous = "unknown"],
            [state EXCEPT !.paused = TRUE, !.ticking = FALSE], "wait")
  /\ UNCHANGED <<config, seen, events, owner, starting, history>>

Disabled(t) ==
  /\ At(t, "force") /\ worker[t].sampled = "off"
  /\ force' = FALSE
  /\ Update(t, [worker[t] EXCEPT !.deadline = "none", !.previous = "off",
                                 !.first = FALSE],
            [state EXCEPT !.paused = TRUE, !.ticking = FALSE], "wait")
  /\ UNCHANGED <<config, seen, stop, wake, owner, starting, history>>

\* Fault: the force is not looked at.
UnforcedDeadlines(t) ==
  CASE worker[t].previous = "unknown" -> {IF worker[t].first THEN "ahead" ELSE "due"}
    [] worker[t].previous = "off"     -> {"due"}
    [] OTHER                          -> {worker[t].deadline}

\* A forced deadline is now; a new interval counts from the tick that ended last,
\* which may put the deadline on either side of now.
Deadlines(t) ==
  LET previous == worker[t].previous
      stale == finished /\ previous \in Intervals \ {worker[t].sampled}
  IN CASE force                          -> {"due"}
       [] ~force /\ previous = "unknown" -> {IF worker[t].first THEN "ahead" ELSE "due"}
       [] ~force /\ previous = "off"     -> {"due"}
       [] ~force /\ stale                -> {"ahead", "due"}
       [] OTHER                          -> {worker[t].deadline}

Enabled(t) ==
  /\ At(t, "force") /\ worker[t].sampled \in Intervals
  /\ force' = FALSE
  /\ \E deadline \in Deadlines(t) :
       Update(t, [worker[t] EXCEPT !.deadline = deadline, !.previous = worker[t].sampled,
                                   !.first = FALSE],
              [state EXCEPT !.paused = FALSE], "check")
  /\ UNCHANGED <<config, seen, stop, wake, owner, starting, history>>

Check(t) ==
  /\ At(t, "check")
  /\ IF ~stop /\ worker[t].deadline = "due"
     THEN Update(t, worker[t], [state EXCEPT !.ticking = TRUE], "tick")
     ELSE Goto(t, IF stop THEN "finally" ELSE "wait") /\ UNCHANGED state
  /\ UNCHANGED <<config, seen, events, owner, starting, history>>

BeginTick(t) ==
  /\ At(t, "tick")
  /\ Goto(t, "ticking")
  /\ asked' = FALSE
  /\ late' = IF stop \/ config \notin Intervals THEN late + 1 ELSE 0
  /\ UNCHANGED <<config, shared, starting, changes>>

\* The outcome is published before the next deadline is set; no reader tells them
\* apart by what the model keeps.
EndTick(t) ==
  /\ At(t, "ticking")
  /\ finished' = TRUE
  /\ Update(t, [worker[t] EXCEPT !.deadline = "ahead"],
            [state EXCEPT !.ticking = FALSE], "top")
  /\ UNCHANGED <<config, seen, events, thread, starting, history>>

\* Fault: the event is cleared just before the wait.
WaitAfterClear(t) ==
  /\ At(t, "wait")
  /\ wake' = FALSE
  /\ Goto(t, IF stop THEN "top" ELSE "waiting")
  /\ UNCHANGED <<config, state, seen, stop, force, owner, starting, history>>

\* _wait, which looks at the stop event first.
Wait(t) ==
  /\ At(t, "wait")
  /\ Goto(t, IF stop THEN "top" ELSE "waiting")
  /\ UNCHANGED <<config, shared, starting, history>>

\* The event came, or config_refresh_interval is over.
Waited(t) ==
  /\ At(t, "waiting")
  /\ Goto(t, "top")
  /\ UNCHANGED <<config, shared, starting, history>>

Clock(t) ==
  /\ worker[t].deadline = "ahead"
  /\ worker' = [worker EXCEPT ![t].deadline = "due"]
  /\ UNCHANGED <<config, shared, starting, history>>

Finally(t) ==
  /\ At(t, "finally")
  /\ Update(t, Unborn, Unborn.snapshot, "dead")
  /\ UNCHANGED <<config, seen, events, owner, starting, history>>

-----------------------------------------------------------------------------
Run(t) ==
  \/ Top(t) \/ Clear(t) \/ ReadConfig(t) \/ Rejected(t) \/ Disabled(t) \/ Enabled(t)
  \/ Check(t) \/ BeginTick(t) \/ EndTick(t) \/ Wait(t) \/ Waited(t) \/ Finally(t)
  \/ Publish(t)

Next ==
  \/ \E c \in Callers :
       Start(c) \/ PublishStart(c) \/ Wake(c) \/ Reconfigure(c) \/ Stop(c)
  \/ ChangeConfig
  \/ \E t \in Threads : Run(t) \/ Clock(t)

Spec == Init /\ [][Next]_vars

\* The thread is scheduled, its waits are bounded and a tick returns; a started
\* call publishes.  Nothing is assumed of the calls, nor of the deadline.
Fairness ==
  /\ \A t \in Threads : WF_vars(Run(t))
  /\ \A c \in Callers : WF_vars(PublishStart(c))
FairSpec == Spec /\ Fairness

-----------------------------------------------------------------------------
(* Properties. *)

\* However start, stop and a tick that outlives the stop's timeout interleave, at
\* most one thread exists (start).
OneWorker == \A t, u \in Threads : IsAlive(t) /\ IsAlive(u) => t = u

\* A stop, or a setting that disables the pipeline, lets at most one more tick begin
\* (_run: what was read before it may still be acted on once).
FewLateTicks == late <= 1

\* The thread never waits on while somebody asks for a tick or for its end, unless
\* the setting is rejected (_run clears the event before it looks, _wait, stop).
PromptWake ==
  \A t \in Threads :
    At(t, "waiting") /\ (stop \/ (force /\ worker[t].sampled # "bad")) => wake

\* Once everybody has published, the subscribers have seen the latest state last
\* (start holds the publish lock through the creation of the thread).
PublishedIsCurrent ==
  \/ published = state
  \/ \E t \in Threads : At(t, "publish")
  \/ starting # {}

\* An accepted wake is followed by a tick without waiting for the deadline, unless
\* the pipeline is stopped, disabled or its setting rejected (wake).
WakeTicks == asked ~> ~asked \/ stop \/ config \notin Intervals

-----------------------------------------------------------------------------
(* The inductive invariant. *)

\* Where the thread goes on to once what it changed is published.
Onward(t) == IF At(t, "publish") THEN worker[t].then ELSE worker[t].pc

OnlyThread == \A t \in Threads : IsAlive(t) => t = thread

\* A thread that begins a tick without looking at stop, or at the setting, again.
Committed(t) == Onward(t) = "tick"
Promising(t) == Onward(t) \in {"force", "check"} /\ worker[t].sampled \in Intervals

LateTicks ==
  /\ ~stop /\ config \in Intervals => late = 0
  /\ late >= 1 => \A t \in Threads : ~Committed(t) /\ (stop \/ ~Promising(t))
  /\ FewLateTicks

\* Between the force it consumed and the next loop, a new one set the event.
EventSet ==
  \A t \in Threads :
    /\ Onward(t) \in {"check", "wait", "waiting"} /\ force /\ worker[t].sampled # "bad" => wake
    /\ At(t, "waiting") /\ stop => wake

Publishing ==
  /\ \A t \in Threads : At(t, "publish") => worker[t].snapshot = state
  /\ starting = IF publishLock = None THEN {} ELSE {publishLock}
  /\ starting # {} => \/ state = [running |-> TRUE, paused |-> FALSE, ticking |-> FALSE]
                      \/ \E t \in Threads : At(t, "publish")
  /\ PublishedIsCurrent

\* A thread that publishes goes on to a place where it has a decision to make or none
\* left, and an accepted setting is one that ticks.
Orderly ==
  \A t \in Threads :
    /\ At(t, "publish") => worker[t].then \in {"check", "wait", "tick", "top", "dead"}
    /\ Onward(t) = "check" => worker[t].sampled \in Intervals

\* At most one thread at any time, and the parts that carry the properties above.
SInv ==
  TypeOK /\ OneWorker /\ OnlyThread /\ Orderly /\ LateTicks /\ EventSet /\ Publishing

=============================================================================
