---------------------------- MODULE RecipePublish ----------------------------
(***************************************************************************)
(* Publication of a confirmed method recipe (src/vcstudio/generate/        *)
(* method_recipe_publish.py, MethodRecipePublisher): the input files of a  *)
(* job are built in a staging directory, a journal is written, the staging *)
(* directory is renamed to the target unless something is there, and the   *)
(* target is registered in the job ledger.  Whatever fails after the       *)
(* journal is taken up again by the next attempt or by the next start of   *)
(* the program.                                                            *)
(*                                                                         *)
(* One target is modelled: a target has a lock, a journal and an entry of  *)
(* its own.  The lock is the operating system's, so at most one            *)
(* publication or recovery is active, and a process that dies gives it     *)
(* back.  The user and the rest of the program do not take it: between two *)
(* steps they move, replace and edit directories, and register and         *)
(* unregister the target.                                                  *)
(***************************************************************************)
EXTENDS JobLedger, FiniteSets, Naturals

CONSTANTS
  Target,       \* the ledger's entry for the target directory
  Plans,        \* confirmed plans for the target, each with a token of its own
  NoPlan, NoDir, NoJournal,
  Foreign,      \* a directory somebody else put at the target
  UnsureWrites, \* whether the journal's first write or its removal may fail after
                \* it was made
  MaxFaults,    \* bound: crashes and failing calls
  MaxStrangers  \* bound: steps of the user and the rest of the program

Txns == Registrations
Unknown == "unknown"

ASSUME TargetAssumption == Entries = {Target} /\ Lifecycles = {}
ASSUME PublishAssumption ==
  /\ NoDir \notin Txns \union {Foreign} /\ Foreign \notin Txns
  /\ NoPlan \notin Plans
  /\ NoJournal \notin [txn : Txns, attempted : BOOLEAN,
                       added : {"added", "found", Unknown}]
  /\ UnsureWrites \in BOOLEAN /\ MaxFaults \in Nat /\ MaxStrangers \in Nat

VARIABLES
  disk,     \* target, staging directories, whose files are as built, journal
  built,    \* per transaction, the plan its directory was built from
  ledger,
  active,   \* the publication or recovery that holds the lock
  history,  \* what happened, for the properties and the bounds
  faults, strangers

vars == <<disk, built, ledger, active, history, faults, strangers>>

\* The journal's claim to the entry: whether registration was attempted, and whether
\* it added the entry or found it.
Claim == [attempted : BOOLEAN, added : {"added", "found", Unknown}]
NoClaim == [attempted |-> FALSE, added |-> Unknown]
Journal == [txn : Txns, attempted : BOOLEAN, added : {"added", "found", Unknown}]
JournalOf(t, claim) == [txn |-> t, attempted |-> claim.attempted, added |-> claim.added]
ClaimOf(j) == [attempted |-> j.attempted, added |-> j.added]

Places == {"idle", "build", "journal", "ensure", "rename", "attempt", "register",
           "record", "verify", "release", "final", "remove", "withdraw", "giveup"}

Idle == [pc |-> "idle", mode |-> "recover", plan |-> NoPlan, txn |-> NoDir,
         claim |-> NoClaim]

TypeOK ==
  /\ disk \in [target : Txns \union {Foreign, NoDir}, stages : SUBSET Txns,
               intact : SUBSET Txns, journal : Journal \union {NoJournal}]
  /\ built \in [Txns -> Plans \union {NoPlan}]
  /\ ledger \in Ledger
  /\ active \in [pc : Places, mode : {"publish", "recover"},
                 plan : Plans \union {NoPlan}, txn : Txns \union {NoDir}, claim : Claim]
  /\ history \in [claimed : BOOLEAN, unregistered : BOOLEAN, moved : BOOLEAN]
  /\ faults \in Nat /\ strangers \in Nat

Init ==
  /\ disk = [target |-> NoDir, stages |-> {}, intact |-> {}, journal |-> NoJournal]
  /\ built = [t \in Txns |-> NoPlan]
  /\ ledger \in {LedgerOf({}), LedgerOf({Target})}
  /\ active = Idle
  /\ history = [claimed |-> Target \in ledger.dirs, unregistered |-> FALSE,
                moved |-> FALSE]
  /\ faults = 0 /\ strangers = 0

At(place) == active.pc = place
Goto(place) == active' = [active EXCEPT !.pc = place]
UnchangedWorld == UNCHANGED <<built, history, faults, strangers>>

-----------------------------------------------------------------------------
(* Failures.  A refusal of the publisher's own keeps the journal; in a       *)
(* recovery, and after any other error, the transaction's entry is withdrawn *)
(* first.                                                                    *)

Refused == Goto(IF active.mode = "publish" THEN "giveup" ELSE "withdraw")
Failed == Goto("withdraw")

\* Withdrawal goes by what was durably observed, except that a recovery has the
\* journal it is working on in memory.
Authority ==
  IF active.mode = "recover" \/ disk.journal = NoJournal
  THEN active.claim ELSE ClaimOf(disk.journal)

\* Fault: the entry is withdrawn whether it was added or found.
WithdrawWhatIsThere ==
  /\ At("withdraw")
  /\ ledger' = IF Authority.attempted THEN Unregister(ledger, Target) ELSE ledger
  /\ Goto("giveup")
  /\ UNCHANGED disk /\ UnchangedWorld

Withdraw ==
  /\ At("withdraw")
  /\ ledger' = IF Authority.attempted /\ Authority.added = "added"
               THEN UnregisterOwned(ledger, Target, active.txn) ELSE ledger
  /\ Goto("giveup")
  /\ UNCHANGED disk /\ UnchangedWorld

\* A recovery writes the journal it has in memory, a publication the one on disk.
GiveUp ==
  /\ At("giveup")
  /\ disk' = IF active.mode = "recover"
             THEN [disk EXCEPT !.journal = JournalOf(active.txn, active.claim)]
             ELSE disk
  /\ active' = Idle
  /\ UNCHANGED ledger /\ UnchangedWorld

-----------------------------------------------------------------------------
(* Publication. *)

TakeUp(plan) ==
  active' = [pc |-> "ensure", mode |-> "recover", plan |-> plan,
             txn |-> disk.journal.txn, claim |-> ClaimOf(disk.journal)]

\* publish: a journal of the same confirmation is taken up, of another one refused.
Publish(plan) ==
  /\ At("idle")
  /\ \/ /\ disk.journal # NoJournal /\ built[disk.journal.txn] = plan
        /\ TakeUp(plan)
     \/ /\ disk.journal = NoJournal /\ disk.target = NoDir
        /\ active' = [Idle EXCEPT !.pc = "build", !.mode = "publish", !.plan = plan]
  /\ UNCHANGED <<disk, ledger>> /\ UnchangedWorld

\* recover_all, when the program starts.
Recover ==
  /\ At("idle") /\ disk.journal # NoJournal
  /\ TakeUp(NoPlan)
  /\ UNCHANGED <<disk, ledger>> /\ UnchangedWorld

\* A staging directory of its own, with the files of the plan.
Build ==
  /\ At("build")
  /\ \E t \in Txns :
       /\ built[t] = NoPlan
       /\ built' = [built EXCEPT ![t] = active.plan]
       /\ disk' = [disk EXCEPT !.stages = @ \union {t}, !.intact = @ \union {t}]
       /\ active' = [active EXCEPT !.pc = "journal", !.txn = t]
  /\ UNCHANGED <<ledger, history, faults, strangers>>

\* Before there is a journal the staging directory is removed.
Abandon ==
  /\ At("journal")
  /\ \/ disk.target # NoDir
     \/ active.txn \notin disk.stages \intersect disk.intact
  /\ disk' = [disk EXCEPT !.stages = @ \ {active.txn}]
  /\ active' = Idle
  /\ UNCHANGED ledger /\ UnchangedWorld

\* Fault: the journal is first written when registration is attempted.
WriteNoJournal ==
  /\ At("journal")
  /\ disk.target = NoDir /\ active.txn \in disk.stages \intersect disk.intact
  /\ Goto("ensure")
  /\ UNCHANGED <<disk, ledger>> /\ UnchangedWorld

WriteJournal ==
  /\ At("journal")
  /\ disk.target = NoDir /\ active.txn \in disk.stages \intersect disk.intact
  /\ disk' = [disk EXCEPT !.journal = JournalOf(active.txn, NoClaim)]
  /\ Goto("ensure")
  /\ UNCHANGED ledger /\ UnchangedWorld

\* The journal is in place, but its directory cannot be synchronised: the write counts
\* as failed, and the staging directory is removed.
WriteJournalUnsure ==
  /\ UnsureWrites
  /\ At("journal")
  /\ disk.target = NoDir /\ active.txn \in disk.stages \intersect disk.intact
  /\ faults < MaxFaults /\ faults' = faults + 1
  /\ disk' = [disk EXCEPT !.journal = JournalOf(active.txn, NoClaim),
                          !.stages = @ \ {active.txn}]
  /\ active' = Idle
  /\ UNCHANGED <<built, ledger, history, strangers>>

\* _ensure_published: the target is the directory that was staged, or there is none and
\* the staged one is as it was built.
Ensure ==
  /\ At("ensure")
  /\ CASE disk.target = active.txn /\ active.txn \notin disk.stages -> Goto("attempt")
       [] disk.target = NoDir
            /\ active.txn \in disk.stages \intersect disk.intact    -> Goto("rename")
       [] OTHER                                                     -> Refused
  /\ UNCHANGED <<disk, ledger>> /\ UnchangedWorld

\* _rename_directory_no_replace.
Renamed ==
  disk' = [disk EXCEPT !.target = active.txn, !.stages = @ \ {active.txn}]

Rename ==
  /\ At("rename")
  /\ IF disk.target = NoDir /\ active.txn \in disk.stages
     THEN Renamed /\ Goto("attempt")
     ELSE Failed /\ UNCHANGED disk
  /\ UNCHANGED ledger /\ UnchangedWorld

-----------------------------------------------------------------------------
(* Registration: _register_and_finalize. *)

\* _assert_bound_bundle.
Bound == disk.target = active.txn /\ active.txn \in disk.intact

\* The intent is durable before the ledger is touched.
Attempt ==
  /\ At("attempt")
  /\ LET claim == [active.claim EXCEPT !.attempted = TRUE]
     IN IF Bound
        THEN /\ disk' = [disk EXCEPT !.journal = JournalOf(active.txn, claim)]
             /\ active' = [active EXCEPT !.pc = "register", !.claim = claim]
        ELSE Refused /\ UNCHANGED disk
  /\ UNCHANGED ledger /\ UnchangedWorld

\* Fault: an entry that is there was found, whoever owns it.
RegisterFound ==
  /\ At("register")
  /\ IF Claimable(ledger, Target, active.txn)
     THEN /\ ledger' = RegisterOwned(ledger, Target, active.txn)
          /\ active' = [active EXCEPT !.pc = "record", !.claim.added =
               IF Target \in ledger.dirs THEN "found" ELSE "added"]
     ELSE Refused /\ UNCHANGED ledger
  /\ UNCHANGED disk /\ UnchangedWorld

\* register_owned: an entry that is owned by this transaction counts as added by it.
RegisterEntry ==
  /\ At("register")
  /\ IF Claimable(ledger, Target, active.txn)
     THEN /\ ledger' = RegisterOwned(ledger, Target, active.txn)
          /\ active' = [active EXCEPT !.pc = "record", !.claim.added =
               IF Owns(ledger', Target, active.txn) THEN "added" ELSE "found"]
     ELSE Refused /\ UNCHANGED ledger
  /\ UNCHANGED disk /\ UnchangedWorld

\* What registration did is durable before anything may be withdrawn.
Record ==
  /\ At("record")
  /\ disk' = [disk EXCEPT !.journal = JournalOf(active.txn, active.claim)]
  /\ Goto("verify")
  /\ UNCHANGED ledger /\ UnchangedWorld

Verify ==
  /\ At("verify")
  /\ IF /\ Bound /\ Target \in ledger.dirs
        /\ active.claim.added = "added" => Owns(ledger, Target, active.txn)
     THEN Goto(IF active.claim.added = "added" THEN "release" ELSE "final")
     ELSE Failed
  /\ UNCHANGED <<disk, ledger>> /\ UnchangedWorld

\* release_registration_owner.
ReleaseEntry ==
  /\ At("release")
  /\ ledger' = ReleaseOwner(ledger, Target, active.txn)
  /\ IF Owns(ledger, Target, active.txn) THEN Goto("final") ELSE Refused
  /\ UNCHANGED disk /\ UnchangedWorld

Final ==
  /\ At("final")
  /\ IF /\ Bound /\ Target \in ledger.dirs
        /\ ~Owns(ledger, Target, active.txn)
     THEN Goto("remove") ELSE Refused
  /\ UNCHANGED <<disk, ledger>> /\ UnchangedWorld

\* _remove_journal, and success.
Remove ==
  /\ At("remove")
  /\ disk' = [disk EXCEPT !.journal = NoJournal]
  /\ active' = Idle
  /\ UNCHANGED ledger /\ UnchangedWorld

-----------------------------------------------------------------------------
(* Faults. *)

\* A call fails, before or after it had its effect on the files or the ledger.
Raises ==
  /\ active.pc \in {"ensure", "rename", "attempt", "register", "record", "verify",
                    "release", "final", "remove"}
  /\ faults < MaxFaults /\ faults' = faults + 1
  /\ \/ UNCHANGED <<disk, ledger>>
     \/ /\ At("rename") /\ disk.target = NoDir /\ active.txn \in disk.stages
        /\ Renamed /\ UNCHANGED ledger
     \/ /\ At("attempt") /\ Bound
        /\ disk' = [disk EXCEPT !.journal =
             JournalOf(active.txn, [active.claim EXCEPT !.attempted = TRUE])]
        /\ UNCHANGED ledger
     \/ /\ At("register") /\ Claimable(ledger, Target, active.txn)
        /\ ledger' = RegisterOwned(ledger, Target, active.txn)
        /\ UNCHANGED disk
     \/ /\ At("record")
        /\ disk' = [disk EXCEPT !.journal = JournalOf(active.txn, active.claim)]
        /\ UNCHANGED ledger
     \/ /\ At("release")
        /\ ledger' = ReleaseOwner(ledger, Target, active.txn)
        /\ UNCHANGED disk
     \/ /\ At("remove") /\ UnsureWrites
        /\ disk' = [disk EXCEPT !.journal = NoJournal]
        /\ UNCHANGED ledger
  /\ IF active.pc \in {"register", "release"} THEN Refused ELSE Failed
  /\ UNCHANGED <<built, history, strangers>>

\* The process dies; a recovery finds what is on disk.
Crash ==
  /\ ~At("idle")
  /\ faults < MaxFaults /\ faults' = faults + 1
  /\ active' = Idle
  /\ UNCHANGED <<disk, built, ledger, history, strangers>>

-----------------------------------------------------------------------------
(* The user, and the rest of the program. *)

Stranger == strangers < MaxStrangers /\ strangers' = strangers + 1

\* What is at the target is taken away, and perhaps something else put there.
MoveTarget ==
  /\ Stranger
  /\ \E d \in {Foreign, NoDir} \ {disk.target} :
       disk' = [disk EXCEPT !.target = d]
  /\ history' = [history EXCEPT !.moved = TRUE]
  /\ UNCHANGED <<built, ledger, active, faults>>

\* A staging directory is cleared away, or a file is changed.
TouchBundle ==
  /\ Stranger
  /\ \/ \E t \in disk.stages : disk' = [disk EXCEPT !.stages = @ \ {t}]
     \/ \E t \in disk.intact : disk' = [disk EXCEPT !.intact = @ \ {t}]
  /\ history' = [history EXCEPT !.moved = TRUE]
  /\ UNCHANGED <<built, ledger, active, faults>>

\* register: an entry that is there is left as it is.
RegisterElsewhere ==
  /\ Stranger
  /\ Target \notin ledger.dirs
  /\ ledger' = Register(ledger, Target)
  /\ history' = [history EXCEPT !.claimed = TRUE]
  /\ UNCHANGED <<disk, built, active, faults>>

UnregisterElsewhere ==
  /\ Stranger
  /\ Target \in ledger.dirs
  /\ ledger' = Unregister(ledger, Target)
  /\ history' = [history EXCEPT !.claimed = FALSE, !.unregistered = TRUE]
  /\ UNCHANGED <<disk, built, active, faults>>

-----------------------------------------------------------------------------
Proceed ==
  \/ Build \/ Abandon \/ WriteJournal \/ Ensure \/ Rename \/ Attempt \/ RegisterEntry
  \/ Record \/ Verify \/ ReleaseEntry \/ Final \/ Remove \/ Withdraw \/ GiveUp

Interfere ==
  MoveTarget \/ TouchBundle \/ RegisterElsewhere \/ UnregisterElsewhere

Next ==
  \/ \E plan \in Plans : Publish(plan)
  \/ Recover \/ Proceed
  \/ WriteJournalUnsure \/ Raises \/ Crash
  \/ Interfere

Spec == Init /\ [][Next]_vars

\* A call returns, and sooner or later the program is started again.
Fairness == WF_vars(Proceed) /\ WF_vars(Recover)
FairSpec == Spec /\ Fairness

-----------------------------------------------------------------------------
(* Properties. *)

\* Whoever may still take the entry back is in the journal, so that the next start
\* withdraws or releases it (_register_and_finalize, _withdraw_owned_registration).
OwnerIsJournaled ==
  ledger.owner[Target] # NoOwner =>
    disk.journal # NoJournal /\ disk.journal.txn = ledger.owner[Target]

\* A bundle at the target for which nothing is left to do is a registered job, unless
\* somebody unregistered it, however often publication and recovery were cut short.
PublishedIsRegistered ==
  disk.target \in Txns /\ disk.journal = NoJournal =>
    Target \in ledger.dirs \/ history.unregistered

\* An entry that somebody else registered stays until somebody else unregisters it
\* (test_preexisting_ledger_entry_is_never_unregistered_by_transaction_rollback).
ClaimedIsKept == history.claimed => Target \in ledger.dirs

\* Whoever is told that a plan was published finds the directory of that plan.
OthersAreRefused ==
  active.plan # NoPlan /\ active.txn # NoDir => built[active.txn] = active.plan

\* A journal always has its directory, staged or published, unless somebody else moved
\* or changed it (test_every_publish_failure_is_clean_or_journaled_and_allows_safe_retry).
JournalHasBundle ==
  disk.journal # NoJournal /\ ~history.moved =>
    disk.journal.txn \in disk.stages \union {disk.target}

Working == {"ensure", "rename", "attempt", "register", "record", "verify", "release",
            "final", "remove"}
Failing == {"withdraw", "giveup"}

\* The active publication works on the transaction of the journal; there is none before
\* it is written, and none after a removal that counts as failed.
ActiveIsJournaled ==
  /\ active.pc \in Working =>
       /\ active.txn \in Txns
       /\ disk.journal # NoJournal /\ disk.journal.txn = active.txn
  /\ active.pc \in Failing =>
       /\ active.txn \in Txns
       /\ disk.journal = NoJournal => UnsureWrites
       /\ disk.journal # NoJournal => disk.journal.txn = active.txn
  /\ active.pc = "journal" => active.txn \in Txns
  /\ active.pc = "build" => active.txn = NoDir
  /\ active.pc \in {"build", "journal"} => disk.journal = NoJournal

\* The journal goes only when the entry is there for good.
RemovedLast ==
  active.pc = "remove" =>
    /\ ledger.owner[Target] = NoOwner
    /\ Target \in ledger.dirs \/ history.unregistered

\* What holds together: each of the parts above needs the others to be kept by a step.
RInv ==
  /\ TypeOK
  /\ WellFormed(ledger)
  /\ ActiveIsJournaled /\ OwnerIsJournaled /\ OthersAreRefused
  /\ RemovedLast /\ PublishedIsRegistered
  /\ ClaimedIsKept
  /\ history.claimed => ledger.owner[Target] = NoOwner
  /\ ~UnsureWrites => JournalHasBundle

\* A publication that was begun is completed by retries and recoveries, unless somebody
\* else moved or changed the directory.
JournalSettles == disk.journal # NoJournal ~> disk.journal = NoJournal \/ history.moved

=============================================================================
