-------------------------- MODULE RecipePublishProofs --------------------------
(* Proofs about RecipePublish and the job ledger it registers its target in, for *)
(* every set of plans and transactions and any number of failures and strangers: *)
(* what was published is registered, and what others registered is kept.  And    *)
(* about KineticsAuthoring, as MCTransactions composes the two, for every set of *)
(* intents and callers: it implements AtomicSelection.                           *)
EXTENDS MCTransactions, TLAPS

-----------------------------------------------------------------------------
(* What the ledger's operations do to one entry.                                *)

\* A save writes a ledger of its own schema.
LEMMA SaveLedger ==
  ASSUME NEW l \in Ledger, NEW dirs \in SUBSET Entries, NEW owner \in [Entries -> Owners]
  PROVE  /\ Save(l, dirs, owner) \in Ledger /\ WellFormed(Save(l, dirs, owner))
         /\ Save(l, dirs, owner).dirs = dirs
         /\ \A e \in Entries : Save(l, dirs, owner).owner[e] = IF e \in dirs THEN owner[e] ELSE NoOwner
  <1>1. Kept(owner, dirs) \in [Entries -> Owners]
    BY DEF Kept, Owners
  <1>2. ASSUME NEW t \in Lifecycles
        PROVE  (IF l.receipt[t] = NoReceipt THEN NoReceipt
                ELSE [l.receipt[t] EXCEPT !.added = @ \intersect dirs]) \in Receipt \union {NoReceipt}
    <2>1. l.receipt[t] \in Receipt \union {NoReceipt}
      BY DEF Ledger
    <2>2. CASE l.receipt[t] \in Receipt
      BY <2>2 DEF Receipt
    <2> QED
      BY <2>1, <2>2
  <1>3. Save(l, dirs, owner).receipt \in [Lifecycles -> Receipt \union {NoReceipt}]
    BY <1>2 DEF Save
  <1> QED
    BY <1>1, <1>3 DEF Save, Ledger, WellFormed, Kept

\* The registration of an entry that is not there.
LEMMA RegisterLedger ==
  ASSUME NEW l \in Ledger, WellFormed(l), NEW e \in Entries, e \notin l.dirs
  PROVE  /\ Register(l, e) \in Ledger /\ WellFormed(Register(l, e))
         /\ e \in Register(l, e).dirs /\ Register(l, e).owner[e] = NoOwner
  <1>1. l.dirs \union {e} \in SUBSET Entries /\ l.owner \in [Entries -> Owners] /\ l.owner[e] = NoOwner
    BY DEF Ledger, WellFormed
  <1> QED
    BY <1>1, SaveLedger DEF Register

\* The registration by a transaction owns what it added and nothing else.
LEMMA RegisterOwnedLedger ==
  ASSUME NEW l \in Ledger, WellFormed(l), NEW e \in Entries, NEW t \in Registrations
  PROVE  /\ RegisterOwned(l, e, t) \in Ledger /\ WellFormed(RegisterOwned(l, e, t))
         /\ e \in RegisterOwned(l, e, t).dirs
         /\ e \in l.dirs => RegisterOwned(l, e, t) = l
         /\ e \notin l.dirs => RegisterOwned(l, e, t).owner[e] = t
  <1>1. CASE e \in l.dirs
    BY <1>1 DEF RegisterOwned
  <1>2. CASE e \notin l.dirs
    <2> DEFINE owner == [l.owner EXCEPT ![e] = t]
    <2>1. l.dirs \union {e} \in SUBSET Entries /\ owner \in [Entries -> Owners] /\ owner[e] = t
      BY DEF Ledger, Owners
    <2>2. RegisterOwned(l, e, t) = Save(l, l.dirs \union {e}, owner)
      BY <1>2 DEF RegisterOwned
    <2> HIDE DEF owner
    <2> QED
      BY <1>2, <2>1, <2>2, SaveLedger
  <1> QED
    BY <1>1, <1>2

\* Withdrawal takes an entry only from its owner.
LEMMA UnregisterOwnedLedger ==
  ASSUME NEW l \in Ledger, WellFormed(l), NEW e \in Entries, NEW t \in Registrations
  PROVE  /\ UnregisterOwned(l, e, t) \in Ledger /\ WellFormed(UnregisterOwned(l, e, t))
         /\ ~Owns(l, e, t) => UnregisterOwned(l, e, t) = l
         /\ Owns(l, e, t) => UnregisterOwned(l, e, t).owner[e] = NoOwner
  <1>1. l.dirs \ {e} \in SUBSET Entries /\ l.owner \in [Entries -> Owners]
    BY DEF Ledger
  <1> QED
    BY <1>1, SaveLedger DEF UnregisterOwned

\* Release leaves the entry where it is, without its owner.
LEMMA ReleaseOwnerLedger ==
  ASSUME NEW l \in Ledger, WellFormed(l), NEW e \in Entries, NEW t \in Registrations
  PROVE  /\ ReleaseOwner(l, e, t) \in Ledger /\ WellFormed(ReleaseOwner(l, e, t))
         /\ ReleaseOwner(l, e, t).dirs = l.dirs
         /\ ~Owns(l, e, t) => ReleaseOwner(l, e, t) = l
         /\ Owns(l, e, t) => ReleaseOwner(l, e, t).owner[e] = NoOwner
  <1>1. CASE ~Owns(l, e, t)
    BY <1>1 DEF ReleaseOwner
  <1>2. CASE Owns(l, e, t)
    <2> DEFINE owner == [l.owner EXCEPT ![e] = NoOwner]
    <2>1. l.dirs \in SUBSET Entries /\ owner \in [Entries -> Owners] /\ owner[e] = NoOwner
      BY DEF Ledger, Owners
    <2>2. ReleaseOwner(l, e, t) = Save(l, l.dirs, owner)
      BY <1>2 DEF ReleaseOwner
    <2> HIDE DEF owner
    <2> QED
      BY <1>2, <2>1, <2>2, SaveLedger
  <1> QED
    BY <1>1, <1>2

\* What is unregistered is gone, with its owner.
LEMMA UnregisterLedger ==
  ASSUME NEW l \in Ledger, NEW e \in Entries, e \in l.dirs
  PROVE  /\ Unregister(l, e) \in Ledger /\ WellFormed(Unregister(l, e))
         /\ e \notin Unregister(l, e).dirs /\ Unregister(l, e).owner[e] = NoOwner
  <1>1. l.dirs \ {e} \in SUBSET Entries /\ l.owner \in [Entries -> Owners]
    BY DEF Ledger
  <1> QED
    BY <1>1, SaveLedger DEF Unregister

-----------------------------------------------------------------------------
(* The journal and the publication that works on it.                            *)

Disk == [target : Txns \union {Foreign, NoDir}, stages : SUBSET Txns, intact : SUBSET Txns,
         journal : Journal \union {NoJournal}]
Active == [pc : Places, mode : {"publish", "recover"}, plan : Plans \union {NoPlan},
           txn : Txns \union {NoDir}, claim : Claim]

\* A journal names its transaction and its claim, and is a journal.
LEMMA JournalFields ==
  ASSUME NEW t \in Txns, NEW c \in Claim
  PROVE  /\ JournalOf(t, c) \in Journal /\ JournalOf(t, c) # NoJournal
         /\ JournalOf(t, c).txn = t /\ ClaimOf(JournalOf(t, c)) = c
  <1>1. JournalOf(t, c) \in Journal /\ JournalOf(t, c).txn = t
    BY DEF JournalOf, Journal, Claim
  <1>2. ClaimOf(JournalOf(t, c)) = c
    BY DEF JournalOf, ClaimOf, Claim
  <1> QED
    BY <1>1, <1>2, PublishAssumption DEF Journal

\* What is taken up is the journal's transaction.
LEMMA ClaimOfJournal ==
  ASSUME TypeOK, disk.journal # NoJournal
  PROVE  disk.journal \in Journal /\ disk.journal.txn \in Txns /\ ClaimOf(disk.journal) \in Claim
  <1>1. disk.journal \in Journal
    BY DEF TypeOK
  <1> QED
    BY <1>1 DEF Journal, ClaimOf, Claim

\* Going to another place keeps the rest of the publication.
LEMMA GoneTo ==
  ASSUME TypeOK, NEW place \in Places, Goto(place)
  PROVE  /\ active' \in Active /\ active'.pc = place /\ active'.plan = active.plan
         /\ active'.txn = active.txn /\ active'.mode = active.mode
         /\ active'.claim = active.claim
  <1>1. active \in Active
    BY DEF TypeOK, Active
  <1> QED
    BY <1>1 DEF Goto, Active

\* A failure goes to withdrawal or gives up at once.
LEMMA Fails ==
  ASSUME TypeOK, Refused \/ Failed
  PROVE  /\ active' \in Active /\ active'.pc \in Failing /\ active'.plan = active.plan
         /\ active'.txn = active.txn
  BY GoneTo DEF Refused, Failed, Places, Failing

\* Steps of the publication that leave the ledger, and the plans and what happened, alone.
LEMMA DiskStep ==
  ASSUME RInv, UNCHANGED <<ledger, history, built, strangers>>, faults' \in Nat,
         disk' \in Disk, active' \in Active,
         ActiveIsJournaled', OwnerIsJournaled', OthersAreRefused', RemovedLast',
         PublishedIsRegistered', ~UnsureWrites => JournalHasBundle'
  PROVE  RInv'
  <1> USE DEF RInv
  <1>1. TypeOK'
    BY DEF TypeOK, Disk, Active
  <1> QED
    BY <1>1 DEF WellFormed, ClaimedIsKept

\* The initial state satisfies the inductive invariant.
LEMMA InitInv == Init => RInv
  <1> SUFFICES ASSUME Init PROVE RInv
    OBVIOUS
  <1>1. TypeOK
    <2>1. ledger \in Ledger
      <3>1. ASSUME NEW dirs \in SUBSET Entries PROVE LedgerOf(dirs) \in Ledger
        <4>1. [e \in Entries |-> NoOwner] \in [Entries -> Owners]
          BY DEF Owners
        <4>2. [t \in Lifecycles |-> NoReceipt] \in [Lifecycles -> Receipt \union {NoReceipt}]
          OBVIOUS
        <4> QED
          BY <4>1, <4>2 DEF LedgerOf, Ledger
      <3>2. {} \in SUBSET Entries /\ {Target} \in SUBSET Entries
        BY TargetAssumption
      <3>3. ledger = LedgerOf({}) \/ ledger = LedgerOf({Target})
        BY DEF Init
      <3> QED
        BY <3>1, <3>2, <3>3
    <2>2. Idle \in Active
      BY DEF Idle, Active, Places, NoClaim, Claim
    <2> QED
      BY <2>1, <2>2 DEF Init, TypeOK, Active
  <1>2. ledger.owner[Target] = NoOwner /\ WellFormed(ledger)
    BY TargetAssumption DEF Init, LedgerOf, WellFormed
  <1> QED
    BY <1>1, <1>2, PublishAssumption
    DEF RInv, Init, ActiveIsJournaled, OwnerIsJournaled, OthersAreRefused, RemovedLast,
      PublishedIsRegistered, ClaimedIsKept, JournalHasBundle, Idle, Working, Failing

\* A confirmed plan is taken up from its own journal, or there is none.
LEMMA PublishStep ==
  ASSUME RInv, NEW plan \in Plans, Publish(plan)
  PROVE  RInv'
  <1> USE DEF RInv
  <1>1. UNCHANGED <<disk, ledger, built, history, faults, strangers>> /\ faults \in Nat /\ disk \in Disk
    BY DEF Publish, UnchangedWorld, TypeOK, Disk
  <1>2. CASE disk.journal # NoJournal /\ built[disk.journal.txn] = plan /\ TakeUp(plan)
    <2>1. /\ active' \in Active /\ active'.pc = "ensure" /\ active'.plan = plan
          /\ active'.txn = disk.journal.txn /\ active'.txn \in Txns
      BY <1>2, ClaimOfJournal DEF TakeUp, Active, Places
    <2> QED
      BY <1>1, <1>2, <2>1, DiskStep
      DEF ActiveIsJournaled, OwnerIsJournaled, OthersAreRefused, RemovedLast,
        PublishedIsRegistered, JournalHasBundle, Working, Failing
  <1>3. CASE /\ disk.journal = NoJournal
             /\ active' = [Idle EXCEPT !.pc = "build", !.mode = "publish", !.plan = plan]
    <2>1. active' \in Active /\ active'.pc = "build" /\ active'.txn = NoDir
      BY <1>3 DEF Idle, Active, Places, NoClaim, Claim
    <2> QED
      BY <1>1, <1>3, <2>1, DiskStep
      DEF ActiveIsJournaled, OwnerIsJournaled, OthersAreRefused, RemovedLast,
        PublishedIsRegistered, JournalHasBundle, Working, Failing
  <1> QED
    BY <1>2, <1>3 DEF Publish

\* The next start takes up the journal it finds.
LEMMA RecoverStep ==
  ASSUME RInv, Recover
  PROVE  RInv'
  <1> USE DEF RInv
  <1>1. UNCHANGED <<disk, ledger, built, history, faults, strangers>> /\ faults \in Nat
        /\ disk \in Disk /\ disk.journal # NoJournal
    BY DEF Recover, UnchangedWorld, TypeOK, Disk
  <1>2. /\ active' \in Active /\ active'.pc = "ensure" /\ active'.plan = NoPlan
        /\ active'.txn = disk.journal.txn /\ active'.txn \in Txns
    BY <1>1, ClaimOfJournal DEF Recover, TakeUp, Active, Places
  <1> QED
    BY <1>1, <1>2, DiskStep
    DEF ActiveIsJournaled, OwnerIsJournaled, OthersAreRefused, RemovedLast,
      PublishedIsRegistered, JournalHasBundle, Working, Failing

\* The directory is built from the plan that was confirmed.
LEMMA BuildStep ==
  ASSUME RInv, Build
  PROVE  RInv'
  <1> USE DEF RInv
  <1>1. PICK t \in Txns :
          /\ built[t] = NoPlan
          /\ built' = [built EXCEPT ![t] = active.plan]
          /\ disk' = [disk EXCEPT !.stages = @ \union {t}, !.intact = @ \union {t}]
          /\ active' = [active EXCEPT !.pc = "journal", !.txn = t]
    BY DEF Build
  <1>2. UNCHANGED <<ledger, history, faults, strangers>> /\ At("build") /\ disk \in Disk
        /\ active \in Active
    BY DEF Build, TypeOK, Disk, Active
  <1>3. /\ disk' \in Disk /\ disk'.target = disk.target /\ disk'.journal = disk.journal
        /\ disk.journal = NoJournal
    BY <1>1, <1>2 DEF Disk, At, ActiveIsJournaled
  <1>4. /\ active' \in Active /\ active'.pc = "journal" /\ active'.plan = active.plan
        /\ active'.txn = t
    BY <1>1, <1>2 DEF Active, Places
  <1>5. built' \in [Txns -> Plans \union {NoPlan}] /\ built'[t] = active.plan
    BY <1>1, <1>2 DEF TypeOK, Active
  <1>6. TypeOK'
    BY <1>2, <1>3, <1>4, <1>5 DEF TypeOK, Disk, Active
  <1>7. ActiveIsJournaled' /\ OwnerIsJournaled' /\ OthersAreRefused' /\ RemovedLast'
    BY <1>2, <1>3, <1>4, <1>5
    DEF ActiveIsJournaled, OwnerIsJournaled, OthersAreRefused, RemovedLast, Working, Failing
  <1>8. PublishedIsRegistered' /\ JournalHasBundle' /\ ClaimedIsKept' /\ WellFormed(ledger)'
    BY <1>2, <1>3 DEF PublishedIsRegistered, JournalHasBundle, ClaimedIsKept, WellFormed
  <1> QED
    BY <1>2, <1>6, <1>7, <1>8

\* Without a journal nothing of the transaction is anybody's.
LEMMA AbandonStep ==
  ASSUME RInv, Abandon
  PROVE  RInv'
  <1> USE DEF RInv
  <1>1. UNCHANGED <<ledger, built, history, faults, strangers>> /\ faults \in Nat /\ disk \in Disk
    BY DEF Abandon, UnchangedWorld, TypeOK, Disk
  <1>2. /\ disk' \in Disk /\ disk'.target = disk.target /\ disk'.journal = disk.journal
        /\ disk.journal = NoJournal
    BY <1>1 DEF Abandon, Disk, At, ActiveIsJournaled
  <1>3. active' \in Active /\ active'.pc = "idle" /\ active'.plan = NoPlan
    BY DEF Abandon, Idle, Active, Places, NoClaim, Claim
  <1> QED
    BY <1>1, <1>2, <1>3, DiskStep
    DEF ActiveIsJournaled, OwnerIsJournaled, OthersAreRefused, RemovedLast,
      PublishedIsRegistered, JournalHasBundle, Working, Failing

\* The journal names the staging directory; a write that counts as failed removes that.
LEMMA WriteJournalStep ==
  ASSUME RInv, WriteJournal \/ WriteJournalUnsure
  PROVE  RInv'
  <1> USE DEF RInv
  <1>1. /\ UNCHANGED <<ledger, built, history, strangers>> /\ faults' \in Nat /\ disk \in Disk
        /\ active \in Active /\ At("journal") /\ active.txn \in Txns /\ active.txn \in disk.stages
    BY DEF WriteJournal, WriteJournalUnsure, UnchangedWorld, TypeOK, Disk, Active, At,
      ActiveIsJournaled
  <1>2. NoClaim \in Claim
    BY DEF NoClaim, Claim
  <1>3. /\ JournalOf(active.txn, NoClaim) \in Journal /\ JournalOf(active.txn, NoClaim) # NoJournal
        /\ JournalOf(active.txn, NoClaim).txn = active.txn
    BY <1>1, <1>2, JournalFields
  <1>4. ledger.owner[Target] = NoOwner
    BY <1>1 DEF ActiveIsJournaled, OwnerIsJournaled, At
  <1>5. CASE WriteJournal
    <2>1. /\ disk' \in Disk /\ disk'.journal = JournalOf(active.txn, NoClaim)
          /\ disk'.stages = disk.stages
      BY <1>1, <1>3, <1>5 DEF WriteJournal, Disk
    <2>2. /\ active' \in Active /\ active'.pc = "ensure" /\ active'.plan = active.plan
          /\ active'.txn = active.txn
      BY <1>5, GoneTo DEF WriteJournal, Places
    <2> QED
      BY <1>1, <1>3, <1>4, <2>1, <2>2, DiskStep
      DEF ActiveIsJournaled, OwnerIsJournaled, OthersAreRefused, RemovedLast,
        PublishedIsRegistered, JournalHasBundle, Working, Failing
  <1>6. CASE WriteJournalUnsure
    <2>1. disk' \in Disk /\ disk'.journal = JournalOf(active.txn, NoClaim) /\ UnsureWrites
      BY <1>1, <1>3, <1>6 DEF WriteJournalUnsure, Disk
    <2>2. active' \in Active /\ active'.pc = "idle" /\ active'.plan = NoPlan
      BY <1>6 DEF WriteJournalUnsure, Idle, Active, Places, NoClaim, Claim
    <2> QED
      BY <1>1, <1>3, <1>4, <2>1, <2>2, DiskStep
      DEF ActiveIsJournaled, OwnerIsJournaled, OthersAreRefused, RemovedLast,
        PublishedIsRegistered, JournalHasBundle, Working, Failing
  <1> QED
    BY <1>5, <1>6

\* Looking at the directories changes nothing.
LEMMA EnsureStep ==
  ASSUME RInv, Ensure
  PROVE  RInv'
  <1> USE DEF RInv
  <1>1. UNCHANGED <<ledger, built, history, faults, strangers>> /\ faults \in Nat /\ disk \in Disk
        /\ UNCHANGED disk /\ At("ensure")
    BY DEF Ensure, UnchangedWorld, TypeOK, Disk
  <1>2. Goto("attempt") \/ Goto("rename") \/ Refused
    BY DEF Ensure
  <1>3. /\ active' \in Active /\ active'.pc \in {"attempt", "rename"} \union Failing
        /\ active'.plan = active.plan /\ active'.txn = active.txn
    BY <1>2, GoneTo, Fails DEF Places
  <1> QED
    BY <1>1, <1>3, DiskStep
    DEF At, ActiveIsJournaled, OwnerIsJournaled, OthersAreRefused, RemovedLast,
      PublishedIsRegistered, JournalHasBundle, Working, Failing

\* The rename puts the journaled directory at the target, or something was there.
LEMMA RenameStep ==
  ASSUME RInv, Rename
  PROVE  RInv'
  <1> USE DEF RInv
  <1>1. UNCHANGED <<ledger, built, history, faults, strangers>> /\ faults \in Nat /\ disk \in Disk
        /\ At("rename") /\ active.txn \in Txns /\ disk.journal # NoJournal
        /\ disk.journal.txn = active.txn
    BY DEF Rename, UnchangedWorld, TypeOK, Disk, At, ActiveIsJournaled, Working
  <1>2. CASE Renamed /\ Goto("attempt")
    <2>1. /\ disk' \in Disk /\ disk'.target = active.txn /\ disk'.journal = disk.journal
      BY <1>1, <1>2 DEF Renamed, Disk
    <2>2. /\ active' \in Active /\ active'.pc = "attempt" /\ active'.plan = active.plan
          /\ active'.txn = active.txn
      BY <1>2, GoneTo DEF Places
    <2> QED
      BY <1>1, <2>1, <2>2, DiskStep
      DEF ActiveIsJournaled, OwnerIsJournaled, OthersAreRefused, RemovedLast,
        PublishedIsRegistered, JournalHasBundle, Working, Failing
  <1>3. CASE Failed /\ UNCHANGED disk
    <2>1. /\ active' \in Active /\ active'.pc \in Failing /\ active'.plan = active.plan
          /\ active'.txn = active.txn
      BY <1>3, Fails
    <2> QED
      BY <1>1, <1>3, <2>1, DiskStep
      DEF ActiveIsJournaled, OwnerIsJournaled, OthersAreRefused, RemovedLast,
        PublishedIsRegistered, JournalHasBundle, Working, Failing
  <1> QED
    BY <1>2, <1>3 DEF Rename

\* Writing the journal again keeps its transaction.
LEMMA Rewritten ==
  ASSUME TypeOK, active.txn \in Txns, NEW c \in Claim,
         disk' = [disk EXCEPT !.journal = JournalOf(active.txn, c)]
  PROVE  /\ disk' \in Disk /\ disk'.target = disk.target /\ disk'.stages = disk.stages
         /\ disk'.journal # NoJournal /\ disk'.journal.txn = active.txn
  <1>1. disk \in Disk
    BY DEF TypeOK, Disk
  <1>2. /\ JournalOf(active.txn, c) \in Journal /\ JournalOf(active.txn, c) # NoJournal
        /\ JournalOf(active.txn, c).txn = active.txn
    BY JournalFields
  <1> QED
    BY <1>1, <1>2 DEF Disk

\* The intent is written down.
LEMMA AttemptStep ==
  ASSUME RInv, Attempt
  PROVE  RInv'
  <1> USE DEF RInv
  <1>1. UNCHANGED <<ledger, built, history, faults, strangers>> /\ faults \in Nat /\ disk \in Disk
        /\ At("attempt") /\ active.txn \in Txns /\ disk.journal # NoJournal
        /\ disk.journal.txn = active.txn /\ active \in Active
    BY DEF Attempt, UnchangedWorld, TypeOK, Disk, Active, At, ActiveIsJournaled, Working
  <1> DEFINE claim == [active.claim EXCEPT !.attempted = TRUE]
  <1>2. CASE /\ disk' = [disk EXCEPT !.journal = JournalOf(active.txn, claim)]
             /\ active' = [active EXCEPT !.pc = "register", !.claim = claim]
    <2>1. claim \in Claim
      BY <1>1 DEF Active, Claim
    <2> HIDE DEF claim
    <2>2. /\ disk' \in Disk /\ disk'.target = disk.target /\ disk'.stages = disk.stages
          /\ disk'.journal # NoJournal /\ disk'.journal.txn = active.txn
      BY <1>1, <1>2, <2>1, Rewritten
    <2>3. /\ active' \in Active /\ active'.pc = "register" /\ active'.plan = active.plan
          /\ active'.txn = active.txn
      BY <1>1, <1>2, <2>1 DEF Active, Places
    <2> QED
      BY <1>1, <2>2, <2>3, DiskStep
      DEF ActiveIsJournaled, OwnerIsJournaled, OthersAreRefused, RemovedLast,
        PublishedIsRegistered, JournalHasBundle, Working, Failing
  <1>3. CASE Refused /\ UNCHANGED disk
    <2>1. /\ active' \in Active /\ active'.pc \in Failing /\ active'.plan = active.plan
          /\ active'.txn = active.txn
      BY <1>3, Fails
    <2> QED
      BY <1>1, <1>3, <2>1, DiskStep
      DEF ActiveIsJournaled, OwnerIsJournaled, OthersAreRefused, RemovedLast,
        PublishedIsRegistered, JournalHasBundle, Working, Failing
  <1> QED
    BY <1>2, <1>3 DEF Attempt

\* What registration did is written down.
LEMMA RecordStep ==
  ASSUME RInv, Record
  PROVE  RInv'
  <1> USE DEF RInv
  <1>1. UNCHANGED <<ledger, built, history, faults, strangers>> /\ faults \in Nat /\ disk \in Disk
        /\ At("record") /\ active.txn \in Txns /\ disk.journal # NoJournal
        /\ disk.journal.txn = active.txn /\ active \in Active
    BY DEF Record, UnchangedWorld, TypeOK, Disk, Active, At, ActiveIsJournaled, Working
  <1>2. /\ disk' \in Disk /\ disk'.target = disk.target /\ disk'.stages = disk.stages
        /\ disk'.journal # NoJournal /\ disk'.journal.txn = active.txn
    <2>1. active.claim \in Claim
      BY <1>1 DEF Active
    <2> QED
      BY <1>1, <2>1, Rewritten DEF Record
  <1>3. /\ active' \in Active /\ active'.pc = "verify" /\ active'.plan = active.plan
        /\ active'.txn = active.txn
    BY GoneTo DEF Record, Places
  <1> QED
    BY <1>1, <1>2, <1>3, DiskStep
    DEF ActiveIsJournaled, OwnerIsJournaled, OthersAreRefused, RemovedLast,
      PublishedIsRegistered, JournalHasBundle, Working, Failing

\* Looking again changes nothing.
LEMMA VerifyStep ==
  ASSUME RInv, Verify
  PROVE  RInv'
  <1> USE DEF RInv
  <1>1. UNCHANGED <<ledger, built, history, faults, strangers>> /\ faults \in Nat /\ disk \in Disk
        /\ At("verify") /\ active.txn \in Txns /\ disk.journal # NoJournal
        /\ disk.journal.txn = active.txn /\ active \in Active
    BY DEF Verify, UnchangedWorld, TypeOK, Disk, Active, At, ActiveIsJournaled, Working
  <1>2. UNCHANGED disk /\ (Goto("release") \/ Goto("final") \/ Failed)
    BY DEF Verify
  <1>3. /\ active' \in Active /\ active'.pc \in {"release", "final"} \union Failing
        /\ active'.plan = active.plan /\ active'.txn = active.txn
    BY <1>2, GoneTo, Fails DEF Places
  <1> QED
    BY <1>1, <1>2, <1>3, DiskStep
    DEF ActiveIsJournaled, OwnerIsJournaled, OthersAreRefused, RemovedLast,
      PublishedIsRegistered, JournalHasBundle, Working, Failing

\* The journal may go: the entry is there and nobody's.
LEMMA FinalStep ==
  ASSUME RInv, Final
  PROVE  RInv'
  <1> USE DEF RInv
  <1>1. UNCHANGED <<ledger, built, history, faults, strangers>> /\ faults \in Nat /\ disk \in Disk
        /\ At("final") /\ active.txn \in Txns /\ disk.journal # NoJournal
        /\ disk.journal.txn = active.txn /\ active \in Active
    BY DEF Final, UnchangedWorld, TypeOK, Disk, Active, At, ActiveIsJournaled, Working
  <1>2. UNCHANGED disk
    BY DEF Final
  <1>3. CASE Target \in ledger.dirs /\ ~Owns(ledger, Target, active.txn) /\ Goto("remove")
    <2>1. ledger.owner[Target] = NoOwner
      BY <1>1, <1>3 DEF Owns, OwnerIsJournaled
    <2>2. /\ active' \in Active /\ active'.pc = "remove" /\ active'.plan = active.plan
          /\ active'.txn = active.txn
      BY <1>3, GoneTo DEF Places
    <2> QED
      BY <1>1, <1>2, <1>3, <2>1, <2>2, DiskStep
      DEF ActiveIsJournaled, OwnerIsJournaled, OthersAreRefused, RemovedLast,
        PublishedIsRegistered, JournalHasBundle, Working, Failing
  <1>4. CASE Refused
    <2>1. /\ active' \in Active /\ active'.pc \in Failing /\ active'.plan = active.plan
          /\ active'.txn = active.txn
      BY <1>4, Fails
    <2> QED
      BY <1>1, <1>2, <2>1, DiskStep
      DEF ActiveIsJournaled, OwnerIsJournaled, OthersAreRefused, RemovedLast,
        PublishedIsRegistered, JournalHasBundle, Working, Failing
  <1> QED
    BY <1>3, <1>4 DEF Final

\* When the journal is gone the entry is there for good.
LEMMA RemoveStep ==
  ASSUME RInv, Remove
  PROVE  RInv'
  <1> USE DEF RInv
  <1>1. UNCHANGED <<ledger, built, history, faults, strangers>> /\ faults \in Nat /\ disk \in Disk
        /\ At("remove") /\ active.txn \in Txns /\ disk.journal # NoJournal
        /\ disk.journal.txn = active.txn /\ active \in Active
    BY DEF Remove, UnchangedWorld, TypeOK, Disk, Active, At, ActiveIsJournaled, Working
  <1>2. disk' \in Disk /\ disk'.target = disk.target /\ disk'.journal = NoJournal
    BY <1>1 DEF Remove, Disk
  <1>3. active' \in Active /\ active'.pc = "idle" /\ active'.plan = NoPlan
    BY DEF Remove, Idle, Active, Places, NoClaim, Claim
  <1> QED
    BY <1>1, <1>2, <1>3, DiskStep
    DEF At, ActiveIsJournaled, OwnerIsJournaled, OthersAreRefused, RemovedLast,
      PublishedIsRegistered, JournalHasBundle, Working, Failing

\* A recovery that gives up leaves its journal, a publication the one that is there.
LEMMA GiveUpStep ==
  ASSUME RInv, GiveUp
  PROVE  RInv'
  <1> USE DEF RInv
  <1>1. UNCHANGED <<ledger, built, history, faults, strangers>> /\ faults \in Nat /\ disk \in Disk
        /\ At("giveup") /\ active.txn \in Txns /\ active \in Active
        /\ (disk.journal = NoJournal => UnsureWrites)
        /\ (disk.journal # NoJournal => disk.journal.txn = active.txn)
    BY DEF GiveUp, UnchangedWorld, TypeOK, Disk, Active, At, ActiveIsJournaled, Failing
  <1>2. active' \in Active /\ active'.pc = "idle" /\ active'.plan = NoPlan
    BY DEF GiveUp, Idle, Active, Places, NoClaim, Claim
  <1>3. CASE disk' = [disk EXCEPT !.journal = JournalOf(active.txn, active.claim)]
    <2>1. /\ disk' \in Disk /\ disk'.target = disk.target /\ disk'.stages = disk.stages
          /\ disk'.journal # NoJournal /\ disk'.journal.txn = active.txn
      <3>1. active.claim \in Claim
        BY <1>1 DEF Active
      <3> QED
        BY <1>1, <1>3, <3>1, Rewritten
    <2> QED
      BY <1>1, <1>2, <2>1, DiskStep
      DEF ActiveIsJournaled, OwnerIsJournaled, OthersAreRefused, RemovedLast,
        PublishedIsRegistered, JournalHasBundle, Working, Failing
  <1>4. CASE UNCHANGED disk
    BY <1>1, <1>2, <1>4, DiskStep
    DEF ActiveIsJournaled, OwnerIsJournaled, OthersAreRefused, RemovedLast,
      PublishedIsRegistered, JournalHasBundle, Working, Failing
  <1> QED
    BY <1>3, <1>4 DEF GiveUp

-----------------------------------------------------------------------------
(* Steps that touch the ledger.                                                 *)

\* The target is the ledger's only entry.
LEMMA TargetEntry == Target \in Entries /\ Entries = {Target} /\ Txns = Registrations
                     /\ NoOwner \notin Txns
  BY TargetAssumption, OwnersAssumption DEF Txns, OwnersAreDistinct

\* Steps of the publication on the ledger: what others claimed is not touched.
LEMMA LedgerStep ==
  ASSUME RInv, UNCHANGED <<disk, history, built, strangers>>, faults' \in Nat,
         ledger' \in Ledger, WellFormed(ledger'), active' \in Active,
         ActiveIsJournaled', OwnerIsJournaled', OthersAreRefused', RemovedLast',
         PublishedIsRegistered',
         history.claimed => ledger' = ledger
  PROVE  RInv'
  <1> USE DEF RInv
  <1>1. TypeOK'
    BY DEF TypeOK, Active
  <1> QED
    BY <1>1 DEF WellFormed, ClaimedIsKept, JournalHasBundle

\* The entry is registered for the journal's transaction, if it was not there.
LEMMA RegisterEntryStep ==
  ASSUME RInv, RegisterEntry
  PROVE  RInv'
  <1> USE DEF RInv
  <1>1. /\ UNCHANGED <<disk, built, history, faults, strangers>> /\ faults \in Nat
        /\ At("register") /\ active.txn \in Txns /\ disk.journal # NoJournal
        /\ disk.journal.txn = active.txn /\ active \in Active /\ ledger \in Ledger
    BY DEF RegisterEntry, UnchangedWorld, TypeOK, Active, At, ActiveIsJournaled, Working
  <1>2. CASE /\ ledger' = RegisterOwned(ledger, Target, active.txn)
             /\ active' = [active EXCEPT !.pc = "record", !.claim.added =
                  IF Owns(ledger', Target, active.txn) THEN "added" ELSE "found"]
    <2>1. /\ ledger' \in Ledger /\ WellFormed(ledger') /\ Target \in ledger'.dirs
          /\ Target \in ledger.dirs => ledger' = ledger
          /\ Target \notin ledger.dirs => ledger'.owner[Target] = active.txn
      BY <1>1, <1>2, RegisterOwnedLedger, TargetEntry
    <2>2. PICK added \in {"added", "found"} :
            active' = [active EXCEPT !.pc = "record", !.claim.added = added]
      BY <1>2
    <2>3. /\ active' \in Active /\ active'.pc = "record" /\ active'.plan = active.plan
          /\ active'.txn = active.txn
      <3>1. [active.claim EXCEPT !.added = added] \in Claim
        BY <1>1 DEF Active, Claim
      <3>2. active' = [active EXCEPT !.pc = "record",
                                    !.claim = [active.claim EXCEPT !.added = added]]
        BY <1>1, <2>2 DEF Active
      <3> QED
        BY <1>1, <3>1, <3>2 DEF Active, Places
    <2> QED
      BY <1>1, <2>1, <2>3, LedgerStep
      DEF ActiveIsJournaled, OwnerIsJournaled, OthersAreRefused, RemovedLast,
        PublishedIsRegistered, ClaimedIsKept, Working, Failing
  <1>3. CASE Refused /\ UNCHANGED ledger
    <2>1. /\ active' \in Active /\ active'.pc \in Failing /\ active'.plan = active.plan
          /\ active'.txn = active.txn
      BY <1>3, Fails
    <2> QED
      BY <1>1, <1>3, <2>1, LedgerStep
      DEF ActiveIsJournaled, OwnerIsJournaled, OthersAreRefused, RemovedLast,
        PublishedIsRegistered, Working, Failing
  <1> QED
    BY <1>2, <1>3 DEF RegisterEntry

\* The entry is released from the transaction that owns it.
LEMMA ReleaseEntryStep ==
  ASSUME RInv, ReleaseEntry
  PROVE  RInv'
  <1> USE DEF RInv
  <1>1. /\ UNCHANGED <<disk, built, history, faults, strangers>> /\ faults \in Nat
        /\ At("release") /\ active.txn \in Txns /\ disk.journal # NoJournal
        /\ disk.journal.txn = active.txn /\ active \in Active /\ ledger \in Ledger
    BY DEF ReleaseEntry, UnchangedWorld, TypeOK, Active, At, ActiveIsJournaled, Working
  <1>2. /\ ledger' \in Ledger /\ WellFormed(ledger')
        /\ ~Owns(ledger, Target, active.txn) => ledger' = ledger
        /\ Owns(ledger, Target, active.txn) => ledger'.owner[Target] = NoOwner
    BY <1>1, ReleaseOwnerLedger, TargetEntry DEF ReleaseEntry
  <1>3. history.claimed => ledger' = ledger
    BY <1>1, <1>2, TargetEntry DEF Owns
  <1>4. /\ active' \in Active /\ active'.pc \in {"final"} \union Failing
        /\ active'.plan = active.plan /\ active'.txn = active.txn
    BY GoneTo, Fails DEF ReleaseEntry, Places
  <1> QED
    BY <1>1, <1>2, <1>3, <1>4, LedgerStep
    DEF ActiveIsJournaled, OwnerIsJournaled, OthersAreRefused, RemovedLast,
      PublishedIsRegistered, Working, Failing

\* Only an entry of the transaction's own is withdrawn.
LEMMA WithdrawStep ==
  ASSUME RInv, Withdraw
  PROVE  RInv'
  <1> USE DEF RInv
  <1>1. /\ UNCHANGED <<disk, built, history, faults, strangers>> /\ faults \in Nat
        /\ At("withdraw") /\ active.txn \in Txns
        /\ (disk.journal = NoJournal => UnsureWrites)
        /\ (disk.journal # NoJournal => disk.journal.txn = active.txn)
        /\ active \in Active /\ ledger \in Ledger
    BY DEF Withdraw, UnchangedWorld, TypeOK, Active, At, ActiveIsJournaled, Failing
  <1>2. /\ ledger' \in Ledger /\ WellFormed(ledger')
        /\ ~Owns(ledger, Target, active.txn) => ledger' = ledger
        /\ Owns(ledger, Target, active.txn) =>
             ledger' = ledger \/ ledger'.owner[Target] = NoOwner
    <2>1. CASE ledger' = UnregisterOwned(ledger, Target, active.txn)
      BY <1>1, <2>1, UnregisterOwnedLedger, TargetEntry
    <2>2. CASE ledger' = ledger
      BY <1>1, <2>2
    <2> QED
      BY <2>1, <2>2 DEF Withdraw
  <1>3. history.claimed => ledger' = ledger
    BY <1>1, <1>2, TargetEntry DEF Owns
  <1>4. disk.journal = NoJournal => ledger' = ledger
    BY <1>1, <1>2, TargetEntry DEF Owns, OwnerIsJournaled
  <1>5. /\ active' \in Active /\ active'.pc = "giveup"
        /\ active'.plan = active.plan /\ active'.txn = active.txn
    BY GoneTo DEF Withdraw, Places
  <1> QED
    BY <1>1, <1>2, <1>3, <1>4, <1>5, LedgerStep
    DEF ActiveIsJournaled, OwnerIsJournaled, OthersAreRefused, RemovedLast,
      PublishedIsRegistered, Working, Failing

-----------------------------------------------------------------------------
(* Failures and strangers.                                                      *)

\* A call that fails, with or without its effect, leaves what withdrawal needs.
LEMMA RaisesStep ==
  ASSUME RInv, Raises
  PROVE  RInv'
  <1> USE DEF RInv
  <1>1. /\ UNCHANGED <<built, history, strangers>> /\ faults' \in Nat
        /\ active.pc \in Working /\ active.txn \in Txns /\ disk.journal # NoJournal
        /\ disk.journal.txn = active.txn /\ active \in Active /\ ledger \in Ledger
        /\ disk \in Disk
    BY DEF Raises, TypeOK, Active, Disk, ActiveIsJournaled, Working
  <1>2. /\ active' \in Active /\ active'.pc \in Failing /\ active'.plan = active.plan
        /\ active'.txn = active.txn
    BY Fails DEF Raises
  <1>3. CASE UNCHANGED <<disk, ledger>>
    BY <1>1, <1>2, <1>3, DiskStep
    DEF ActiveIsJournaled, OwnerIsJournaled, OthersAreRefused, RemovedLast,
      PublishedIsRegistered, JournalHasBundle, Working, Failing
  <1>4. CASE Renamed /\ UNCHANGED ledger
    <2>1. disk' \in Disk /\ disk'.target = active.txn /\ disk'.journal = disk.journal
      BY <1>1, <1>4 DEF Renamed, Disk
    <2> QED
      BY <1>1, <1>2, <1>4, <2>1, DiskStep
      DEF ActiveIsJournaled, OwnerIsJournaled, OthersAreRefused, RemovedLast,
        PublishedIsRegistered, JournalHasBundle, Working, Failing
  <1>5. CASE /\ UNCHANGED ledger
             /\ \E c \in Claim : disk' = [disk EXCEPT !.journal = JournalOf(active.txn, c)]
    <2>1. /\ disk' \in Disk /\ disk'.target = disk.target /\ disk'.stages = disk.stages
          /\ disk'.journal # NoJournal /\ disk'.journal.txn = active.txn
      BY <1>1, <1>5, Rewritten
    <2> QED
      BY <1>1, <1>2, <1>5, <2>1, DiskStep
      DEF ActiveIsJournaled, OwnerIsJournaled, OthersAreRefused, RemovedLast,
        PublishedIsRegistered, JournalHasBundle, Working, Failing
  <1>6. CASE ledger' = RegisterOwned(ledger, Target, active.txn) /\ UNCHANGED disk
    <2>1. /\ ledger' \in Ledger /\ WellFormed(ledger') /\ Target \in ledger'.dirs
          /\ Target \in ledger.dirs => ledger' = ledger
          /\ Target \notin ledger.dirs => ledger'.owner[Target] = active.txn
      BY <1>1, <1>6, RegisterOwnedLedger, TargetEntry
    <2> QED
      BY <1>1, <1>2, <1>6, <2>1, LedgerStep
      DEF ClaimedIsKept, ActiveIsJournaled, OwnerIsJournaled, OthersAreRefused, RemovedLast,
        PublishedIsRegistered, JournalHasBundle, Working, Failing
  <1>7. CASE ledger' = ReleaseOwner(ledger, Target, active.txn) /\ UNCHANGED disk
    <2>1. /\ ledger' \in Ledger /\ WellFormed(ledger')
          /\ ~Owns(ledger, Target, active.txn) => ledger' = ledger
          /\ Owns(ledger, Target, active.txn) => ledger'.owner[Target] = NoOwner
      BY <1>1, <1>7, ReleaseOwnerLedger, TargetEntry
    <2>2. history.claimed => ledger' = ledger
      BY <1>1, <2>1, TargetEntry DEF Owns
    <2> QED
      BY <1>1, <1>2, <1>7, <2>1, <2>2, LedgerStep
      DEF ActiveIsJournaled, OwnerIsJournaled, OthersAreRefused, RemovedLast,
        PublishedIsRegistered, JournalHasBundle, Working, Failing
  <1>8. CASE /\ At("remove") /\ UnsureWrites /\ UNCHANGED ledger
             /\ disk' = [disk EXCEPT !.journal = NoJournal]
    <2>1. disk' \in Disk /\ disk'.target = disk.target /\ disk'.journal = NoJournal
      BY <1>1, <1>8 DEF Disk
    <2> QED
      BY <1>1, <1>2, <1>8, <2>1, DiskStep
      DEF At, ActiveIsJournaled, OwnerIsJournaled, OthersAreRefused, RemovedLast,
        PublishedIsRegistered, JournalHasBundle, Working, Failing
  <1> QED
    <2>1. [active.claim EXCEPT !.attempted = TRUE] \in Claim /\ active.claim \in Claim
      BY <1>1 DEF Active, Claim
    <2> QED
      BY <1>3, <1>4, <1>5, <1>6, <1>7, <1>8, <2>1 DEF Raises

\* After a crash nobody works on the journal.
LEMMA CrashStep ==
  ASSUME RInv, Crash
  PROVE  RInv'
  <1> USE DEF RInv
  <1>1. UNCHANGED <<disk, built, ledger, history, strangers>> /\ faults' \in Nat /\ disk \in Disk
    BY DEF Crash, TypeOK, Disk
  <1>2. active' \in Active /\ active'.pc = "idle" /\ active'.plan = NoPlan
    BY DEF Crash, Idle, Active, Places, NoClaim, Claim
  <1> QED
    BY <1>1, <1>2, DiskStep
    DEF ActiveIsJournaled, OwnerIsJournaled, OthersAreRefused, RemovedLast,
      PublishedIsRegistered, JournalHasBundle, Working, Failing

\* Whoever moves or changes a directory answers for it.
LEMMA DirectoryStep ==
  ASSUME RInv, MoveTarget \/ TouchBundle
  PROVE  RInv'
  <1> USE DEF RInv
  <1>1. /\ UNCHANGED <<built, ledger, active, faults>> /\ strangers' \in Nat /\ disk \in Disk
        /\ history' = [history EXCEPT !.moved = TRUE]
        /\ history \in [claimed : BOOLEAN, unregistered : BOOLEAN, moved : BOOLEAN]
    BY DEF MoveTarget, TouchBundle, Stranger, TypeOK, Disk
  <1>2. /\ history' \in [claimed : BOOLEAN, unregistered : BOOLEAN, moved : BOOLEAN]
        /\ history'.claimed = history.claimed /\ history'.unregistered = history.unregistered
        /\ history'.moved = TRUE
    BY <1>1
  <1>3. /\ disk' \in Disk /\ disk'.journal = disk.journal
        /\ disk'.target = disk.target \/ disk'.target \in {Foreign, NoDir}
    <2>1. CASE MoveTarget
      <3>1. PICK d \in {Foreign, NoDir} : disk' = [disk EXCEPT !.target = d]
        BY <2>1 DEF MoveTarget
      <3> QED
        BY <1>1, <3>1 DEF Disk
    <2>2. CASE TouchBundle
      <3>1. CASE \E t \in disk.stages : disk' = [disk EXCEPT !.stages = @ \ {t}]
        BY <1>1, <3>1 DEF Disk
      <3>2. CASE \E t \in disk.intact : disk' = [disk EXCEPT !.intact = @ \ {t}]
        BY <1>1, <3>2 DEF Disk
      <3> QED
        BY <2>2, <3>1, <3>2 DEF TouchBundle
    <2> QED
      BY <2>1, <2>2
  <1>4. TypeOK'
    BY <1>1, <1>2, <1>3 DEF TypeOK, Disk
  <1>5. ActiveIsJournaled' /\ OwnerIsJournaled' /\ OthersAreRefused' /\ RemovedLast'
    BY <1>1, <1>2, <1>3 DEF ActiveIsJournaled, OwnerIsJournaled, OthersAreRefused, RemovedLast
  <1>6. PublishedIsRegistered' /\ JournalHasBundle'
    BY <1>1, <1>2, <1>3, PublishAssumption DEF PublishedIsRegistered, JournalHasBundle
  <1> QED
    BY <1>1, <1>2, <1>4, <1>5, <1>6 DEF ClaimedIsKept, WellFormed

\* What others do to the entry is theirs, and nobody else's afterwards.
LEMMA ElsewhereStep ==
  ASSUME RInv, RegisterElsewhere \/ UnregisterElsewhere
  PROVE  RInv'
  <1> USE DEF RInv
  <1>1. /\ UNCHANGED <<disk, built, active, faults>> /\ strangers' \in Nat /\ ledger \in Ledger
        /\ history \in [claimed : BOOLEAN, unregistered : BOOLEAN, moved : BOOLEAN]
    BY DEF RegisterElsewhere, UnregisterElsewhere, Stranger, TypeOK
  <1>2. /\ ledger' \in Ledger /\ WellFormed(ledger') /\ ledger'.owner[Target] = NoOwner
        /\ history' \in [claimed : BOOLEAN, unregistered : BOOLEAN, moved : BOOLEAN]
        /\ history'.moved = history.moved
        /\ history'.claimed => Target \in ledger'.dirs
        /\ Target \in ledger'.dirs \/ history'.unregistered
    <2>1. CASE RegisterElsewhere
      <3>1. /\ ledger' = Register(ledger, Target) /\ Target \notin ledger.dirs
            /\ history' = [history EXCEPT !.claimed = TRUE]
        BY <2>1 DEF RegisterElsewhere
      <3> QED
        BY <1>1, <3>1, RegisterLedger, TargetEntry
    <2>2. CASE UnregisterElsewhere
      <3>1. /\ ledger' = Unregister(ledger, Target) /\ Target \in ledger.dirs
            /\ history' = [history EXCEPT !.claimed = FALSE, !.unregistered = TRUE]
        BY <2>2 DEF UnregisterElsewhere
      <3> QED
        BY <1>1, <3>1, UnregisterLedger, TargetEntry
    <2> QED
      BY <2>1, <2>2
  <1>3. TypeOK'
    BY <1>1, <1>2 DEF TypeOK
  <1>4. ActiveIsJournaled' /\ OwnerIsJournaled' /\ OthersAreRefused' /\ RemovedLast'
    BY <1>1, <1>2 DEF ActiveIsJournaled, OwnerIsJournaled, OthersAreRefused, RemovedLast
  <1>5. PublishedIsRegistered' /\ ClaimedIsKept'
    BY <1>2 DEF PublishedIsRegistered, ClaimedIsKept
  <1>6. ~UnsureWrites => JournalHasBundle'
    BY <1>1, <1>2 DEF JournalHasBundle
  <1> QED
    BY <1>2, <1>3, <1>4, <1>5, <1>6

-----------------------------------------------------------------------------
(* Every step.                                                                  *)

\* A step that changes nothing preserves the invariant.
LEMMA StutterStep ==
  ASSUME RInv, UNCHANGED vars
  PROVE  RInv'
  <1> USE DEF RInv
  <1>1. UNCHANGED <<disk, built, ledger, active, history, faults, strangers>>
    BY DEF vars
  <1>2. TypeOK'
    BY <1>1 DEF TypeOK
  <1> QED
    BY <1>1, <1>2
    DEF WellFormed, ActiveIsJournaled, OwnerIsJournaled, OthersAreRefused, RemovedLast,
      PublishedIsRegistered, ClaimedIsKept, JournalHasBundle

\* Every step preserves the invariant.
LEMMA StepInv ==
  ASSUME RInv, [Next]_vars
  PROVE  RInv'
  <1>1. CASE \E plan \in Plans : Publish(plan)
    BY <1>1, PublishStep
  <1>2. CASE Recover
    BY <1>2, RecoverStep
  <1>3. CASE Proceed
    BY <1>3, BuildStep, AbandonStep, WriteJournalStep, EnsureStep, RenameStep, AttemptStep,
      RegisterEntryStep, RecordStep, VerifyStep, ReleaseEntryStep, FinalStep, RemoveStep,
      WithdrawStep, GiveUpStep DEF Proceed
  <1>4. CASE WriteJournalUnsure \/ Raises \/ Crash
    BY <1>4, WriteJournalStep, RaisesStep, CrashStep
  <1>5. CASE Interfere
    BY <1>5, DirectoryStep, ElsewhereStep DEF Interfere
  <1>6. CASE UNCHANGED vars
    BY <1>6, StutterStep
  <1> QED
    BY <1>1, <1>2, <1>3, <1>4, <1>5, <1>6 DEF Next

\* Publications, recoveries, failures and strangers preserve the inductive invariant
\* (MethodRecipePublisher).
THEOREM Invariance == Spec => []RInv
  <1>1. Init => RInv
    BY InitInv
  <1>2. RInv /\ [Next]_vars => RInv'
    BY StepInv
  <1> QED
    BY <1>1, <1>2, PTL DEF Spec

\* A published bundle for which no journal is left is a registered job, unless somebody
\* unregistered it, for every number of failures (_register_and_finalize).
THEOREM PublicationIsRegistered == Spec => []PublishedIsRegistered
  <1>1. RInv => PublishedIsRegistered
    BY DEF RInv
  <1> QED
    BY <1>1, Invariance, PTL

\* No withdrawal takes back what somebody else registered (unregister_owned).
THEOREM OthersEntryIsKept == Spec => []ClaimedIsKept
  <1>1. RInv => ClaimedIsKept
    BY DEF RInv
  <1> QED
    BY <1>1, Invariance, PTL

\* An entry that a transaction still owns is in the journal, where the next start finds it
\* (_withdraw_owned_registration).
THEOREM OwnerCanBeFound == Spec => []OwnerIsJournaled
  <1>1. RInv => OwnerIsJournaled
    BY DEF RInv
  <1> QED
    BY <1>1, Invariance, PTL

\* A journal has its directory as long as nobody else touched one, if a failing write leaves
\* nothing behind (_ensure_published).
THEOREM JournalCanBeFinished ==
  ASSUME UnsureWrites = FALSE
  PROVE  Spec => []JournalHasBundle
  <1>1. RInv => JournalHasBundle
    BY DEF RInv
  <1> QED
    BY <1>1, Invariance, PTL

-----------------------------------------------------------------------------
(* The authoring of kinetics models implements the atomic selection.            *)

\* A version that is the head without being under way has its receipt.
Settled(v) == v # None => v \in Intents /\ receipts[v] = "committed"

\* Nothing pending: the head is selected.  An intent pending: it is not the head yet and not
\* selected, or it is the head, or both, and its receipt says nothing else.
AuthoringStores ==
  LET i == pending.intent
      base == pending.base.head
      head == K!Value(model)
      selected == K!Value(selector)
  IN IF pending = K!NoPending THEN head = selected /\ Settled(head)
     ELSE /\ i \in Intents /\ i # base
          /\ pending.base.selection = base /\ Settled(base)
          /\ \/ head = base /\ selected = base /\ receipts[i] # "committed"
             \/ head = i /\ selected = base /\ receipts[i] = "none"
             \/ head = i /\ selected = i /\ receipts[i] # "abandoned"

\* A call that may put its spec, or forget its pending intent, has one, without a receipt or
\* with it; a call that decides has none.
AuthoringCalls == \A c \in Callers :
  /\ caller[c].pc # "idle" => lock = c
  /\ caller[c].pc = "decide" => pending = K!NoPending
  /\ caller[c].then \in {"preview", "confirm"} => caller[c].intent \in Intents
  /\ caller[c].pc = "forget" =>
       pending # K!NoPending /\ receipts[pending.intent] # "none"
  /\ caller[c].pc \in {"put", "prepare"} =>
       /\ pending # K!NoPending /\ receipts[pending.intent] = "none"
       /\ model.prepared = None /\ model.committed = pending.base.head

AInv == K!TypeOK /\ AuthoringStores /\ AuthoringCalls

\* What a reader of the two stores sees is the same, and so is what was promised.
PromiseKept ==
  /\ K!Value(model)' = K!Value(model)
  /\ (IF K!Underway THEN pending.intent ELSE K!Value(selector))'
       = (IF K!Underway THEN pending.intent ELSE K!Value(selector))
  /\ [i \in Intents |-> K!Outcome(i)]' = [i \in Intents |-> K!Outcome(i)]

\* A call goes on, begins or returns: the lock and the other calls stay in order.
LEMMA AuthoringCall ==
  ASSUME AInv, NEW c \in Callers, NEW w \in K!Call, K!Set(c, w),
         \/ caller[c].pc # "idle" /\ lock' = lock
         \/ caller[c].pc # "idle" /\ lock' = Nobody /\ w.pc = "idle"
         \/ lock = Nobody /\ lock' = c
  PROVE  /\ caller' \in [Callers -> K!Call] /\ caller'[c] = w
         /\ lock' \in Callers \union {Nobody}
         /\ \A d \in Callers : d # c => caller'[d] = caller[d] /\ caller[d].pc = "idle"
         /\ w.pc # "idle" => lock' = c
  <1>1. caller \in [Callers -> K!Call] /\ lock \in Callers \union {Nobody}
    BY DEF AInv, K!TypeOK
  <1>2. caller' = [caller EXCEPT ![c] = w]
    BY DEF K!Set
  <1>3. caller' \in [Callers -> K!Call] /\ caller'[c] = w
    BY <1>1, <1>2
  <1>4. ASSUME NEW d \in Callers, d # c
        PROVE  caller'[d] = caller[d] /\ caller[d].pc = "idle"
    <2>1. caller'[d] = caller[d]
      BY <1>1, <1>2, <1>4
    <2>2. Nobody \notin Callers
      BY AuthoringAssumptions DEF K!ConstantsAssumption
    <2> QED
      BY <2>1, <2>2, <1>4 DEF AInv, AuthoringCalls
  <1>5. lock' \in Callers \union {Nobody}
    BY <1>1
  <1>6. w.pc # "idle" => lock' = c
    BY DEF AInv, AuthoringCalls
  <1> QED
    BY <1>3, <1>4, <1>5, <1>6

\* A step that leaves the stores and the journals alone.
LEMMA AuthoringCallOnly ==
  ASSUME AInv, UNCHANGED <<model, room, selector, pending, receipts, preview>>,
         failures' \in Nat,
         NEW c \in Callers, NEW w \in K!Call, K!Set(c, w),
         \/ caller[c].pc # "idle" /\ lock' = lock
         \/ caller[c].pc # "idle" /\ lock' = Nobody /\ w.pc = "idle"
         \/ lock = Nobody /\ lock' = c,
         w.pc \in {"idle", "recover", "decide"},
         w.pc = "decide" => pending = K!NoPending,
         w.then \in {"preview", "confirm"} => w.intent \in Intents
  PROVE  AInv' /\ PromiseKept
  <1>1. /\ caller' \in [Callers -> K!Call] /\ caller'[c] = w
        /\ lock' \in Callers \union {Nobody}
        /\ \A d \in Callers : d # c => caller'[d] = caller[d] /\ caller[d].pc = "idle"
        /\ w.pc # "idle" => lock' = c
    BY AuthoringCall
  <1>2. K!TypeOK'
    BY <1>1 DEF AInv, K!TypeOK
  <1>3. AuthoringStores'
    BY DEF AInv, AuthoringStores, K!Value, Settled
  <1>4. AuthoringCalls'
    BY <1>1 DEF AInv, AuthoringCalls
  <1>5. PromiseKept
    BY DEF PromiseKept, K!Value, K!Underway, K!Outcome
  <1> QED
    BY <1>2, <1>3, <1>4, <1>5 DEF AInv

\* The call that returns.
LEMMA NoCallIsCall == K!NoCall \in K!Call /\ K!NoCall.pc = "idle" /\ K!NoCall.then = "recover"
  BY DEF K!NoCall, K!Call, K!Versions, K!Ends

\* A call is gone, by its answer, an error or the end of its process.
LEMMA AuthoringReturns ==
  ASSUME AInv, UNCHANGED <<model, room, selector, pending, receipts, preview>>, failures' \in Nat,
         NEW c \in Callers, caller[c].pc # "idle", K!Return(c)
  PROVE  AInv' /\ PromiseKept
  BY NoCallIsCall, AuthoringCallOnly DEF K!Return

\* The steps that only move a call.
LEMMA CallSteps ==
  ASSUME AInv, NEW c \in Callers,
         \/ \E then \in {"preview", "confirm"}, i \in Intents : K!Start(c, then, i)
         \/ K!Start(c, "recover", None)
         \/ K!Unreadable(c) \/ K!Stuck(c) \/ K!NothingPending(c)
         \/ K!Refuse(c) \/ K!PutFails(c) \/ K!Stop(c)
  PROVE  AInv' /\ PromiseKept
  <1>1. /\ caller[c] \in K!Call /\ failures \in Nat /\ failures + 1 \in Nat
        /\ caller[c].then \in {"preview", "confirm"} => caller[c].intent \in Intents
    BY DEF AInv, K!TypeOK, AuthoringCalls
  <1>2. ASSUME NEW then \in K!Ends, NEW i \in K!Versions, K!Start(c, then, i),
               then \in {"preview", "confirm"} => i \in Intents
        PROVE  AInv' /\ PromiseKept
    <2>1. PICK w : w = [pc |-> "recover", then |-> then, intent |-> i, discarded |-> FALSE]
      OBVIOUS
    <2>2. w \in K!Call /\ w.pc = "recover" /\ w.then = then /\ w.intent = i
      BY <2>1 DEF K!Call
    <2> QED
      BY <1>1, <1>2, <2>1, <2>2, AuthoringCallOnly DEF K!Start, K!stores, K!journals
  <1>3. CASE K!Unreadable(c) \/ K!Stuck(c)
    BY <1>1, <1>3, AuthoringReturns DEF K!Unreadable, K!Stuck, K!At, K!stores, K!journals
  <1>4. CASE K!NothingPending(c)
    <2>1. CASE caller[c].then \in {"preview", "confirm"}
      <3>1. PICK w : w = [caller[c] EXCEPT !.pc = "decide"]
        OBVIOUS
      <3>2. w \in K!Call
        BY <1>1, <3>1 DEF K!Call
      <3>3. w.pc = "decide" /\ w.then = caller[c].then /\ w.intent = caller[c].intent
        BY <1>1, <3>1 DEF K!Call
      <3> QED
        BY <1>1, <1>4, <2>1, <3>1, <3>2, <3>3, AuthoringCallOnly
        DEF K!NothingPending, K!GoOn, K!At, K!stores, K!journals
    <2>2. CASE caller[c].then \notin {"preview", "confirm"}
      BY <1>1, <1>4, <2>2, AuthoringReturns DEF K!NothingPending, K!GoOn, K!At, K!stores, K!journals
    <2> QED
      BY <2>1, <2>2
  <1>5. CASE K!Refuse(c) \/ K!PutFails(c)
    <2>1. PICK w : w = [caller[c] EXCEPT !.pc = "recover", !.then = "conflict"]
      OBVIOUS
    <2>2. w \in K!Call
      BY <1>1, <2>1 DEF K!Call, K!Ends
    <2>3. w.pc = "recover" /\ w.then = "conflict"
      BY <1>1, <2>1 DEF K!Call
    <2>4. K!Set(c, w) /\ caller[c].pc # "idle" /\ lock' = lock /\ failures' \in Nat
      BY <1>1, <1>5, <2>1 DEF K!Refuse, K!PutFails, K!At, K!Trouble
    <2>5. UNCHANGED <<model, room, selector, pending, receipts, preview>>
      BY <1>5 DEF K!Refuse, K!PutFails, K!stores, K!journals
    <2> QED
      BY <2>2, <2>3, <2>4, <2>5, AuthoringCallOnly
  <1>6. CASE K!Stop(c)
    BY <1>1, <1>6, AuthoringReturns DEF K!Stop, K!At, K!Trouble, K!stores, K!journals
  <1>7. "preview" \in K!Ends /\ "confirm" \in K!Ends /\ "recover" \in K!Ends
        /\ None \in K!Versions /\ Intents \subseteq K!Versions
    BY DEF K!Ends, K!Versions
  <1> QED
    BY <1>2, <1>3, <1>4, <1>5, <1>6, <1>7

\* A repair by one of the readers.
LEMMA RepairedStore ==
  ASSUME NEW s \in K!Guarded
  PROVE  /\ K!Repaired(s) \in K!Guarded
         /\ K!Value(K!Repaired(s)) = K!Value(s)
  <1>1. CASE s.prepared # None /\ s.file # s.prepared
    BY <1>1 DEF K!Repaired, K!Guarded, K!Value
  <1>2. CASE s.prepared # None /\ s.file = s.prepared
    BY <1>2 DEF K!Repaired, K!Guarded, K!Value, K!Versions
  <1>3. CASE s.prepared = None
    BY <1>3 DEF K!Repaired, K!Guarded, K!Value, K!Versions
  <1> QED
    BY <1>1, <1>2, <1>3

\* Steps that repair a file: what its next reader finds is the same, and no call that puts is
\* disturbed.
LEMMA StoresRepaired ==
  ASSUME AInv, UNCHANGED <<room, pending, receipts, preview, lock, caller, failures>>,
         model' \in K!Guarded, selector' \in K!Guarded,
         K!Value(model)' = K!Value(model), K!Value(selector)' = K!Value(selector),
         model' = model \/ \A c \in Callers : caller[c].pc \notin {"put", "prepare"}
  PROVE  AInv' /\ PromiseKept
  <1>1. K!TypeOK'
    BY DEF AInv, K!TypeOK
  <1>2. AuthoringStores'
    BY DEF AInv, AuthoringStores, Settled
  <1>3. AuthoringCalls'
    BY DEF AInv, AuthoringCalls
  <1>4. PromiseKept
    BY DEF PromiseKept, K!Underway, K!Outcome
  <1> QED
    BY <1>1, <1>2, <1>3, <1>4 DEF AInv

\* The repair by a call under the lock.
LEMMA RepairStep ==
  ASSUME AInv, NEW c \in Callers, K!Repair(c)
  PROVE  AInv' /\ PromiseKept
  <1>1. \A d \in Callers : caller[d].pc \notin {"put", "prepare"}
    BY DEF AInv, AuthoringCalls, K!Repair
  <1>2. model \in K!Guarded /\ selector \in K!Guarded
    BY DEF AInv, K!TypeOK
  <1>3. model' \in {model, K!Repaired(model)} /\ selector' \in {selector, K!Repaired(selector)}
    BY DEF K!Repair
  <1>4. PICK m, s : m = model' /\ s = selector'
    OBVIOUS
  <1>5. /\ m \in K!Guarded /\ s \in K!Guarded
        /\ K!Value(m) = K!Value(model) /\ K!Value(s) = K!Value(selector)
    BY <1>2, <1>3, <1>4, RepairedStore
  <1>6. K!Value(model)' = K!Value(model) /\ K!Value(selector)' = K!Value(selector)
    BY <1>4, <1>5 DEF K!Value
  <1> QED
    BY <1>1, <1>4, <1>5, <1>6, StoresRepaired DEF K!Repair, K!journals

\* The repair by a reader of the model store without the lock: a call that is about to stage
\* its spec finds the store as it confirmed it.
LEMMA ReadModelStep ==
  ASSUME AInv, K!ReadModel
  PROVE  AInv' /\ PromiseKept
  <1>1. model \in K!Guarded /\ selector \in K!Guarded /\ model' = K!Repaired(model)
    BY DEF AInv, K!TypeOK, K!ReadModel
  <1>2. PICK m : m = K!Repaired(model)
    OBVIOUS
  <1>3. m \in K!Guarded /\ K!Value(m) = K!Value(model)
    BY <1>1, <1>2, RepairedStore
  <1>4. K!Value(model)' = K!Value(model) /\ K!Value(selector)' = K!Value(selector)
    BY <1>1, <1>2, <1>3 DEF K!Value, K!ReadModel
  <1>5. K!TypeOK'
    BY <1>1, <1>2, <1>3 DEF AInv, K!TypeOK, K!ReadModel, K!journals
  <1>6. AuthoringStores' /\ PromiseKept
    BY <1>4 DEF AInv, AuthoringStores, Settled, PromiseKept, K!Underway, K!Outcome, K!ReadModel,
      K!journals
  <1>7. ASSUME NEW c \in Callers, caller[c].pc = "put"
        PROVE  model'.prepared = None /\ model'.committed = pending.base.head
    <2>1. model.prepared = None /\ model.committed = pending.base.head
      BY <1>7 DEF AInv, AuthoringCalls
    <2> QED
      BY <1>1, <2>1 DEF K!Repaired, K!Guarded
  <1>8. AuthoringCalls'
    BY <1>7 DEF AInv, AuthoringCalls, K!ReadModel, K!journals, K!At
  <1> QED
    BY <1>5, <1>6, <1>8 DEF AInv

\* What the reads of the two stores tell.
LEMMA ReadsTell ==
  ASSUME K!Reads
  PROVE  /\ model.prepared = None /\ K!Value(model) = model.committed
         /\ selector.prepared = None /\ K!Value(selector) = selector.committed
  BY DEF K!Reads, K!Dirty, K!Value

\* A preview seals what it read.
LEMMA PreviewStep ==
  ASSUME AInv, NEW c \in Callers, K!Preview(c)
  PROVE  AInv' /\ PromiseKept
  <1>1. /\ K!Set(c, K!NoCall) /\ lock' = Nobody /\ caller[c].pc # "idle"
        /\ UNCHANGED <<model, room, selector, pending, receipts, failures>>
    BY DEF K!Preview, K!Return, K!At, K!stores, K!journals
  <1>2. /\ caller' \in [Callers -> K!Call] /\ caller'[c] = K!NoCall
        /\ lock' \in Callers \union {Nobody}
        /\ \A d \in Callers : d # c => caller'[d] = caller[d] /\ caller[d].pc = "idle"
    BY <1>1, NoCallIsCall, AuthoringCall
  <1>3. K!Current \in K!Bases
    BY DEF K!Current, K!Bases, K!Guarded, AInv, K!TypeOK
  <1>4. K!TypeOK'
    BY <1>1, <1>2, <1>3 DEF AInv, K!TypeOK, K!Preview
  <1>5. AuthoringStores' /\ PromiseKept
    BY <1>1 DEF AInv, AuthoringStores, K!Value, Settled, PromiseKept, K!Underway, K!Outcome
  <1>6. AuthoringCalls'
    BY <1>1, <1>2, NoCallIsCall DEF AInv, AuthoringCalls
  <1> QED
    BY <1>4, <1>5, <1>6 DEF AInv

\* A confirmation writes its intent and the bases it read: its spec is not the head yet.
LEMMA ConfirmStep ==
  ASSUME AInv, NEW c \in Callers, K!Confirm(c)
  PROVE  AInv' /\ PromiseKept
  <1>1. /\ caller[c] \in K!Call /\ failures \in Nat /\ caller[c].pc = "decide"
        /\ pending = K!NoPending /\ caller[c].then = "confirm" /\ caller[c].intent \in Intents
    BY DEF AInv, K!TypeOK, AuthoringCalls, K!Confirm, K!At
  <1>2. CASE K!Return(c) /\ UNCHANGED pending
    BY <1>1, <1>2, AuthoringReturns DEF K!Confirm, K!stores
  <1>3. CASE ~(K!Return(c) /\ UNCHANGED pending)
    <2>1. PICK i : i = caller[c].intent
      OBVIOUS
    <2>2. PICK b : b = K!Current
      OBVIOUS
    <2>3. PICK w : w = [caller[c] EXCEPT !.pc = "put", !.then = "committed"]
      OBVIOUS
    <2>4. /\ receipts[i] = "none" /\ pending' = [intent |-> i, base |-> b] /\ K!Set(c, w)
          /\ lock' = lock /\ UNCHANGED <<model, room, selector, receipts, preview, failures>>
      BY <1>3, <2>1, <2>2, <2>3 DEF K!Confirm, K!stores
    <2>5. w \in K!Call
      BY <1>1, <2>3 DEF K!Call, K!Ends
    <2>6. w.pc = "put" /\ w.then = "committed"
      BY <1>1, <2>3 DEF K!Call
    <2>7. /\ caller' \in [Callers -> K!Call] /\ caller'[c] = w
          /\ lock' \in Callers \union {Nobody}
          /\ \A d \in Callers : d # c => caller'[d] = caller[d] /\ caller[d].pc = "idle"
          /\ w.pc # "idle" => lock' = c
      BY <1>1, <2>4, <2>5, AuthoringCall
    <2>8. /\ model.prepared = None /\ K!Value(model) = model.committed
          /\ selector.prepared = None /\ K!Value(selector) = selector.committed
      BY ReadsTell DEF K!Confirm
    <2>9. b \in K!Bases /\ b.head = model.committed /\ b.selection = selector.committed
      BY <2>2 DEF K!Current, K!Bases, K!Guarded, AInv, K!TypeOK
    <2>10. i \in Intents /\ i # None
      BY <1>1, <2>1, AuthoringAssumptions DEF K!ConstantsAssumption
    <2>11. K!Value(model) = K!Value(selector) /\ Settled(K!Value(model))
      BY <1>1 DEF AInv, AuthoringStores
    <2>12. /\ pending'.intent = i /\ pending'.base.head = model.committed
           /\ pending'.base.selection = selector.committed /\ pending' # K!NoPending
      BY <2>4, <2>9, <2>10 DEF K!NoPending
    <2>13. K!TypeOK'
      BY <2>4, <2>7, <2>9, <2>10 DEF AInv, K!TypeOK, K!Versions
    <2>14. i # model.committed
      BY <2>4, <2>8, <2>10, <2>11 DEF Settled
    <2>15. AuthoringStores'
      BY <2>4, <2>8, <2>10, <2>11, <2>12, <2>14 DEF AuthoringStores, K!Value, Settled
    <2>16. AuthoringCalls'
      BY <2>4, <2>6, <2>7, <2>8, <2>12 DEF AInv, AuthoringCalls
    <2>17. PromiseKept
      BY <1>1, <2>4, <2>8, <2>11, <2>12, <2>14
      DEF PromiseKept, K!Underway, K!Outcome, K!Value
    <2> QED
      BY <2>13, <2>15, <2>16, <2>17 DEF AInv
  <1> QED
    BY <1>2, <1>3

\* The staged file is nothing a reader of the store looks at.
LEMMA StageStep ==
  ASSUME AInv, NEW c \in Callers, K!Stage(c)
  PROVE  AInv' /\ PromiseKept
  <1>1. /\ caller[c] \in K!Call /\ caller[c].pc = "put" /\ model \in K!Guarded
        /\ pending \in [intent : K!Versions, base : K!Bases]
    BY DEF AInv, K!TypeOK, K!Stage, K!At
  <1>2. PICK w : w = [caller[c] EXCEPT !.pc = "prepare"]
    OBVIOUS
  <1>3. /\ K!Set(c, w) /\ lock' = lock /\ model' = [model EXCEPT !.staged = pending.intent]
        /\ UNCHANGED <<room, selector, pending, receipts, preview, failures>>
    BY <1>2 DEF K!Stage, K!journals
  <1>4. w \in K!Call
    BY <1>1, <1>2 DEF K!Call
  <1>5. w.pc = "prepare" /\ w.then = caller[c].then /\ w.intent = caller[c].intent
    BY <1>1, <1>2 DEF K!Call
  <1>6. /\ caller' \in [Callers -> K!Call] /\ caller'[c] = w
        /\ lock' \in Callers \union {Nobody}
        /\ \A d \in Callers : d # c => caller'[d] = caller[d] /\ caller[d].pc = "idle"
        /\ w.pc # "idle" => lock' = c
    BY <1>1, <1>3, <1>4, AuthoringCall
  <1>7. model' \in K!Guarded
    BY <1>1, <1>3 DEF K!Guarded
  <1>8. model'.prepared = model.prepared /\ model'.committed = model.committed
    BY <1>1, <1>3 DEF K!Guarded
  <1>9. K!TypeOK'
    BY <1>3, <1>6, <1>7 DEF AInv, K!TypeOK
  <1>10. AuthoringStores' /\ PromiseKept
    BY <1>3, <1>8 DEF AInv, AuthoringStores, K!Value, Settled, PromiseKept, K!Underway, K!Outcome
  <1>11. AuthoringCalls'
    BY <1>1, <1>3, <1>5, <1>6, <1>8 DEF AInv, AuthoringCalls
  <1> QED
    BY <1>9, <1>10, <1>11 DEF AInv

\* The prepare record of the model store is the moment at which the intent is decided.
LEMMA PrepareStep ==
  ASSUME AInv, NEW c \in Callers, K!Prepare(c)
  PROVE  /\ AInv' /\ pending.intent \in Intents
         /\ K!Outcome(pending.intent) = "open"
         /\ K!Value(model)' = pending.intent
         /\ K!Underway' /\ pending' = pending
         /\ \A i \in Intents :
              K!Outcome(i)' = IF i = pending.intent THEN "committed" ELSE K!Outcome(i)
  <1>1. /\ caller[c] \in K!Call /\ caller[c].pc = "prepare" /\ model \in K!Guarded
        /\ pending \in [intent : K!Versions, base : K!Bases]
        /\ pending # K!NoPending /\ receipts[pending.intent] = "none"
        /\ model.prepared = None /\ model.committed = pending.base.head
    BY DEF AInv, K!TypeOK, AuthoringCalls, K!Prepare, K!At
  <1>2. PICK w : w = [caller[c] EXCEPT !.pc = "recover"]
    OBVIOUS
  <1>3. /\ K!Set(c, w) /\ lock' = lock /\ model' = [model EXCEPT !.prepared = pending.intent]
        /\ room' \in BOOLEAN /\ UNCHANGED <<selector, pending, receipts, preview, failures>>
    BY <1>2 DEF K!Prepare, K!journals
  <1>4. w \in K!Call
    BY <1>1, <1>2 DEF K!Call
  <1>5. w.pc = "recover" /\ w.then = caller[c].then /\ w.intent = caller[c].intent
    BY <1>1, <1>2 DEF K!Call
  <1>6. /\ caller' \in [Callers -> K!Call] /\ caller'[c] = w
        /\ lock' \in Callers \union {Nobody}
        /\ \A d \in Callers : d # c => caller'[d] = caller[d] /\ caller[d].pc = "idle"
        /\ w.pc # "idle" => lock' = c
    BY <1>1, <1>3, <1>4, AuthoringCall
  <1>7. model' \in K!Guarded
    BY <1>1, <1>3 DEF K!Guarded
  <1>8. model'.prepared = pending.intent
    BY <1>1, <1>3 DEF K!Guarded
  <1>9. K!Value(model) = pending.base.head
    BY <1>1 DEF K!Value
  <1>10. /\ pending.intent \in Intents /\ pending.intent # pending.base.head
         /\ pending.base.selection = pending.base.head /\ Settled(pending.base.head)
         /\ K!Value(selector) = pending.base.head
    BY <1>1, <1>9 DEF AInv, AuthoringStores
  <1>11. pending.intent # None
    BY <1>10, AuthoringAssumptions DEF K!ConstantsAssumption
  <1>12. K!Value(model)' = pending.intent /\ K!Value(selector)' = K!Value(selector)
    BY <1>3, <1>8, <1>11 DEF K!Value
  <1>13. K!TypeOK'
    BY <1>3, <1>6, <1>7 DEF AInv, K!TypeOK
  <1>14. AuthoringStores'
    BY <1>1, <1>3, <1>10, <1>12 DEF AuthoringStores, Settled
  <1>15. AuthoringCalls'
    BY <1>1, <1>3, <1>5, <1>6 DEF AInv, AuthoringCalls
  <1>16. ~K!Underway /\ K!Underway'
    BY <1>1, <1>3, <1>9, <1>10, <1>12 DEF K!Underway
  <1>17. ASSUME NEW i \in Intents
         PROVE  K!Outcome(i)' = IF i = pending.intent THEN "committed" ELSE K!Outcome(i)
    BY <1>1, <1>3, <1>16 DEF K!Outcome
  <1> QED
    BY <1>1, <1>3, <1>10, <1>12, <1>13, <1>14, <1>15, <1>16, <1>17 DEF AInv, K!Outcome

\* A receipt that takes its place in the ledger leads to the end of the journal.
LEMMA ReceiveTells ==
  ASSUME AInv, NEW c \in Callers, NEW outcome \in {"committed", "abandoned"},
         caller[c].pc = "recover", pending # K!NoPending, K!Receive(c, outcome),
         UNCHANGED <<model, room, selector, pending, preview, failures>>, ~K!Return(c)
  PROVE  /\ receipts[pending.intent] \in {"none", outcome} /\ pending.intent \in Intents
         /\ receipts' = [receipts EXCEPT ![pending.intent] = outcome]
         /\ K!TypeOK' /\ AuthoringCalls'
  <1>1. /\ caller[c] \in K!Call /\ pending.intent \in Intents
        /\ receipts \in [Intents -> {"none", "committed", "abandoned"}]
    BY DEF AInv, K!TypeOK, AuthoringStores
  <1>2. PICK b \in BOOLEAN : b = (outcome = "abandoned")
    OBVIOUS
  <1>3. PICK w : w = [caller[c] EXCEPT !.pc = "forget", !.discarded = b]
    OBVIOUS
  <1>4. /\ K!Set(c, w) /\ lock' = lock
        /\ receipts[pending.intent] = outcome \/ receipts[pending.intent] = "none"
        /\ receipts' = [receipts EXCEPT ![pending.intent] = outcome]
    BY <1>2, <1>3 DEF K!Receive
  <1>5. w \in K!Call
    BY <1>1, <1>3 DEF K!Call
  <1>6. w.pc = "forget" /\ w.then = caller[c].then /\ w.intent = caller[c].intent
    BY <1>1, <1>3 DEF K!Call
  <1>7. /\ caller' \in [Callers -> K!Call] /\ caller'[c] = w
        /\ lock' \in Callers \union {Nobody}
        /\ \A d \in Callers : d # c => caller'[d] = caller[d] /\ caller[d].pc = "idle"
        /\ w.pc # "idle" => lock' = c
    BY <1>4, <1>5, AuthoringCall
  <1>8. /\ receipts' \in [Intents -> {"none", "committed", "abandoned"}]
        /\ receipts'[pending.intent] = outcome /\ outcome # "none"
    BY <1>1, <1>4
  <1>9. K!TypeOK'
    BY <1>7, <1>8 DEF AInv, K!TypeOK
  <1>10. AuthoringCalls'
    BY <1>6, <1>7, <1>8 DEF AInv, AuthoringCalls
  <1> QED
    BY <1>1, <1>4, <1>9, <1>10

\* A call that returns without its receipt left the ledger as it was.
LEMMA ReceiveReturns ==
  ASSUME AInv, NEW c \in Callers, NEW outcome \in {"committed", "abandoned"},
         K!Receive(c, outcome), K!Return(c)
  PROVE  UNCHANGED receipts
  <1>1. caller \in [Callers -> K!Call] /\ caller[c] \in K!Call
    BY DEF AInv, K!TypeOK
  <1>2. PICK b \in BOOLEAN : b = (outcome = "abandoned")
    OBVIOUS
  <1>3. PICK w : w = [caller[c] EXCEPT !.pc = "forget", !.discarded = b]
    OBVIOUS
  <1>4. w # K!NoCall
    BY <1>1, <1>3 DEF K!NoCall, K!Call
  <1>5. ~K!Set(c, w)
    BY <1>1, <1>4 DEF K!Return, K!Set
  <1> QED
    BY <1>2, <1>3, <1>5 DEF K!Receive

\* The stores of an intent, told by what recovery compares.
LEMMA SidesTell ==
  ASSUME AInv, pending # K!NoPending, K!Reads
  PROVE  /\ K!ModelIs("base") <=> K!Value(model) = pending.base.head
         /\ K!ModelIs("target") <=> K!Value(model) = pending.intent
         /\ K!SelectorIs("base") <=> K!Value(selector) = pending.base.head
         /\ K!SelectorIs("target") <=> K!Value(selector) = pending.intent
  BY ReadsTell DEF K!ModelIs, K!SelectorIs, K!Side, AInv, AuthoringStores

\* An intent of which nothing was put is abandoned, or was before.
LEMMA AbandonIntentStep ==
  ASSUME AInv, NEW c \in Callers, K!Abandon(c)
  PROVE  /\ AInv'
         /\ \/ PromiseKept
            \/ /\ pending.intent \in Intents /\ K!Outcome(pending.intent) = "open"
               /\ K!Value(model)' = K!Value(model) /\ K!Value(selector)' = K!Value(selector)
               /\ ~K!Underway /\ ~K!Underway'
               /\ \A i \in Intents :
                    K!Outcome(i)' = IF i = pending.intent THEN "abandoned" ELSE K!Outcome(i)
  <1>1. /\ caller[c].pc = "recover" /\ pending # K!NoPending /\ K!Receive(c, "abandoned")
        /\ UNCHANGED <<model, room, selector, pending, preview, failures>>
    BY DEF K!Abandon, K!At, K!stores
  <1>2. CASE K!Return(c)
    <2>1. UNCHANGED receipts
      BY <1>1, <1>2, ReceiveReturns
    <2>2. failures' \in Nat
      BY <1>1 DEF AInv, K!TypeOK
    <2> QED
      BY <1>1, <1>2, <2>1, <2>2, AuthoringReturns
  <1>3. CASE ~K!Return(c)
    <2>1. /\ receipts[pending.intent] \in {"none", "abandoned"} /\ pending.intent \in Intents
          /\ receipts' = [receipts EXCEPT ![pending.intent] = "abandoned"]
          /\ K!TypeOK' /\ AuthoringCalls'
      BY <1>1, <1>3, ReceiveTells
    <2>2. /\ K!Value(model) = pending.base.head /\ K!Value(selector) = pending.base.head
          /\ pending.base.head # pending.intent /\ pending.base.selection = pending.base.head
          /\ Settled(pending.base.head)
      BY <1>1, SidesTell DEF K!Abandon, AInv, AuthoringStores
    <2>3. K!Value(model)' = K!Value(model) /\ K!Value(selector)' = K!Value(selector)
      BY <1>1 DEF K!Value
    <2>4. receipts \in [Intents -> {"none", "committed", "abandoned"}]
      BY DEF AInv, K!TypeOK
    <2>5. \A i \in Intents :
            receipts'[i] = IF i = pending.intent THEN "abandoned" ELSE receipts[i]
      BY <2>1, <2>4
    <2>6. AuthoringStores'
      BY <1>1, <2>1, <2>2, <2>3, <2>5 DEF AuthoringStores, Settled
    <2>7. ~K!Underway /\ ~K!Underway'
      BY <1>1, <2>2, <2>3 DEF K!Underway
    <2>8. ASSUME NEW i \in Intents
          PROVE  K!Outcome(i)' = IF i = pending.intent THEN "abandoned" ELSE K!Outcome(i)
      BY <2>5, <2>7 DEF K!Outcome
    <2>9. CASE receipts[pending.intent] = "none"
      BY <2>1, <2>3, <2>6, <2>7, <2>8, <2>9 DEF AInv, K!Outcome
    <2>10. CASE receipts[pending.intent] = "abandoned"
      <3>1. receipts' = receipts
        BY <2>1, <2>4, <2>10
      <3>2. PromiseKept
        BY <1>1, <2>3, <3>1 DEF PromiseKept, K!Underway, K!Outcome
      <3> QED
        BY <2>1, <2>6, <3>2 DEF AInv
    <2> QED
      BY <2>1, <2>9, <2>10
  <1> QED
    BY <1>2, <1>3

\* The receipt says of an intent what was promised since its spec was put.
LEMMA CompleteStep ==
  ASSUME AInv, NEW c \in Callers, K!Complete(c)
  PROVE  AInv' /\ PromiseKept
  <1>1. /\ caller[c].pc = "recover" /\ pending # K!NoPending /\ K!Receive(c, "committed")
        /\ UNCHANGED <<model, room, selector, pending, preview, failures>>
    BY DEF K!Complete, K!At, K!stores
  <1>2. CASE K!Return(c) /\ UNCHANGED receipts
    <2>1. failures' \in Nat
      BY <1>1 DEF AInv, K!TypeOK
    <2> QED
      BY <1>1, <1>2, <2>1, AuthoringReturns
  <1>3. CASE ~K!Return(c)
    <2>1. /\ receipts[pending.intent] \in {"none", "committed"} /\ pending.intent \in Intents
          /\ receipts' = [receipts EXCEPT ![pending.intent] = "committed"]
          /\ K!TypeOK' /\ AuthoringCalls'
      BY <1>1, <1>3, ReceiveTells
    <2>2. /\ K!Value(model) = pending.intent /\ K!Value(selector) = pending.intent
          /\ pending.base.head # pending.intent /\ pending.base.selection = pending.base.head
          /\ Settled(pending.base.head)
      BY <1>1, SidesTell DEF K!Complete, AInv, AuthoringStores
    <2>3. K!Value(model)' = K!Value(model) /\ K!Value(selector)' = K!Value(selector)
      BY <1>1 DEF K!Value
    <2>4. receipts \in [Intents -> {"none", "committed", "abandoned"}]
      BY DEF AInv, K!TypeOK
    <2>5. \A i \in Intents :
            receipts'[i] = IF i = pending.intent THEN "committed" ELSE receipts[i]
      BY <2>1, <2>4
    <2>6. AuthoringStores'
      BY <1>1, <2>1, <2>2, <2>3, <2>5 DEF AuthoringStores, Settled
    <2>7. K!Underway /\ K!Underway'
      BY <1>1, <2>2, <2>3 DEF K!Underway
    <2>8. \A i \in Intents : K!Outcome(i)' = K!Outcome(i)
      BY <1>1, <2>1, <2>5, <2>7 DEF K!Outcome
    <2>9. PromiseKept
      BY <1>1, <2>3, <2>7, <2>8 DEF PromiseKept
    <2> QED
      BY <2>1, <2>6, <2>9 DEF AInv
  <1> QED
    BY <1>1, <1>2, <1>3, ReceiveReturns

\* The selection follows; it was promised when the spec was put.
LEMMA AdvanceStep ==
  ASSUME AInv, NEW c \in Callers, K!Advance(c)
  PROVE  AInv' /\ PromiseKept
  <1>1. /\ caller[c].pc = "recover" /\ pending # K!NoPending /\ selector \in K!Guarded
        /\ selector' = [selector EXCEPT !.prepared = pending.intent]
        /\ UNCHANGED <<model, room, pending, receipts, preview, lock, caller, failures>>
        /\ pending.intent \in K!Versions
    BY DEF K!Advance, K!At, K!journals, AInv, K!TypeOK
  <1>2. /\ K!Value(model) = pending.intent /\ K!Value(selector) = pending.base.head
        /\ pending.intent \in Intents /\ pending.intent # pending.base.head
        /\ pending.base.selection = pending.base.head
        /\ Settled(pending.base.head) /\ receipts[pending.intent] = "none"
    BY <1>1, SidesTell DEF K!Advance, AInv, AuthoringStores
  <1>3. selector' \in K!Guarded
    BY <1>1 DEF K!Guarded
  <1>4. selector'.prepared = pending.intent
    BY <1>1 DEF K!Guarded
  <1>5. pending.intent # None
    BY <1>2, AuthoringAssumptions DEF K!ConstantsAssumption
  <1>6. K!Value(selector)' = pending.intent /\ K!Value(model)' = K!Value(model)
    BY <1>1, <1>4, <1>5 DEF K!Value
  <1>7. K!TypeOK'
    BY <1>1, <1>3 DEF AInv, K!TypeOK
  <1>8. AuthoringStores'
    BY <1>1, <1>2, <1>6 DEF AuthoringStores, Settled
  <1>9. AuthoringCalls'
    BY <1>1 DEF AInv, AuthoringCalls
  <1>10. PromiseKept
    BY <1>1, <1>2, <1>6 DEF PromiseKept, K!Underway, K!Outcome
  <1> QED
    BY <1>7, <1>8, <1>9, <1>10 DEF AInv

\* The journal goes when the receipt says how its intent ended.
LEMMA ForgetStep ==
  ASSUME AInv, NEW c \in Callers, K!Forget(c)
  PROVE  AInv' /\ PromiseKept
  <1>1. /\ caller[c] \in K!Call /\ caller[c].pc = "forget"
        /\ pending # K!NoPending /\ receipts[pending.intent] # "none"
        /\ receipts \in [Intents -> {"none", "committed", "abandoned"}]
        /\ pending' = K!NoPending /\ K!GoOn(c)
        /\ UNCHANGED <<model, room, selector, receipts, preview, failures>>
        /\ caller[c].then \in {"preview", "confirm"} => caller[c].intent \in Intents
    BY DEF AInv, K!TypeOK, AuthoringCalls, K!Forget, K!At, K!stores
  <1>2. \/ /\ K!Value(model) = pending.base.head /\ K!Value(selector) = pending.base.head
           /\ pending.intent # pending.base.head
        \/ /\ K!Value(model) = pending.intent /\ K!Value(selector) = pending.intent
           /\ receipts[pending.intent] = "committed"
    BY <1>1 DEF AInv, AuthoringStores
  <1>3. pending.intent \in Intents /\ Settled(pending.base.head)
    BY <1>1 DEF AInv, AuthoringStores
  <1>4. AuthoringStores'
    BY <1>1, <1>2, <1>3 DEF AuthoringStores, K!Value, Settled
  <1>5. PromiseKept
    BY <1>1, <1>2, <1>3 DEF PromiseKept, K!Underway, K!Outcome, K!Value
  <1>6. PICK w \in K!Call :
          /\ K!Set(c, w) /\ w.pc \in {"idle", "decide"}
          /\ w.then \in {"preview", "confirm"} => w.intent \in Intents
          /\ \/ lock' = lock
             \/ lock' = Nobody /\ w.pc = "idle"
    <2>1. CASE caller[c].then \in {"preview", "confirm"}
      <3>1. PICK w : w = [caller[c] EXCEPT !.pc = "decide"]
        OBVIOUS
      <3>2. w \in K!Call
        BY <1>1, <3>1 DEF K!Call
      <3>3. w.pc = "decide" /\ w.intent = caller[c].intent
        BY <1>1, <3>1 DEF K!Call
      <3> QED
        BY <1>1, <2>1, <3>1, <3>2, <3>3 DEF K!GoOn
    <2>2. CASE caller[c].then \notin {"preview", "confirm"}
      BY <1>1, <2>2, NoCallIsCall DEF K!GoOn, K!Return
    <2> QED
      BY <2>1, <2>2
  <1>7. /\ caller' \in [Callers -> K!Call] /\ caller'[c] = w
        /\ lock' \in Callers \union {Nobody}
        /\ \A d \in Callers : d # c => caller'[d] = caller[d] /\ caller[d].pc = "idle"
        /\ w.pc # "idle" => lock' = c
    BY <1>1, <1>6, AuthoringCall
  <1>8. K!NoPending \in [intent : K!Versions, base : K!Bases]
    BY DEF K!NoPending, K!Versions, K!Bases
  <1>9. K!TypeOK'
    BY <1>1, <1>7, <1>8 DEF AInv, K!TypeOK
  <1>10. AuthoringCalls'
    BY <1>1, <1>6, <1>7 DEF AInv, AuthoringCalls
  <1> QED
    BY <1>4, <1>5, <1>9, <1>10 DEF AInv

\* Nothing of the authoring changes.
LEMMA AuthoringStutter ==
  ASSUME AInv, UNCHANGED authoring
  PROVE  AInv' /\ PromiseKept
  <1>1. UNCHANGED <<model, room, selector, pending, receipts, preview, lock, caller, failures>>
    BY DEF authoring
  <1>2. K!TypeOK' /\ AuthoringCalls'
    BY <1>1 DEF AInv, K!TypeOK, AuthoringCalls
  <1>3. AuthoringStores' /\ PromiseKept
    BY <1>1 DEF AInv, AuthoringStores, K!Value, Settled, PromiseKept, K!Underway, K!Outcome
  <1> QED
    BY <1>2, <1>3 DEF AInv

\* A step that the abstract specification does not see.
PromiseStutters ==
  UNCHANGED <<K!Value(model), IF K!Underway THEN pending.intent ELSE K!Value(selector),
              [i \in Intents |-> K!Outcome(i)]>>

\* Every step of the authoring preserves the invariant and is a step of AtomicSelection, or
\* one it does not see.
LEMMA AuthoringStep ==
  ASSUME AInv, [MCNext]_everything
  PROVE  AInv' /\ (K!Promise!Next \/ PromiseStutters)
  <1>1. ASSUME PromiseKept
        PROVE  PromiseStutters
    BY <1>1 DEF PromiseKept, PromiseStutters
  <1>2. CASE UNCHANGED authoring
    BY <1>1, <1>2, AuthoringStutter
  <1>3. CASE K!CallAgain
    BY <1>1, <1>3, CallSteps DEF K!CallAgain
  <1>4. CASE K!ReadModel
    BY <1>1, <1>4, ReadModelStep
  <1>5. ASSUME NEW c \in Callers,
               \/ K!Repair(c) \/ K!Unreadable(c) \/ K!Advance(c) \/ K!Complete(c) \/ K!Stuck(c)
               \/ K!Forget(c) \/ K!NothingPending(c) \/ K!Preview(c) \/ K!Confirm(c)
               \/ K!Stage(c) \/ K!Refuse(c) \/ K!PutFails(c) \/ K!Stop(c)
        PROVE  AInv' /\ PromiseStutters
    BY <1>1, <1>5, RepairStep, CallSteps, AdvanceStep, CompleteStep, ForgetStep, PreviewStep,
      ConfirmStep, StageStep
  <1>6. ASSUME NEW c \in Callers, K!Abandon(c)
        PROVE  AInv' /\ (K!Promise!Next \/ PromiseStutters)
    <2>1. CASE PromiseKept
      BY <1>1, <1>6, <2>1, AbandonIntentStep
    <2>2. CASE ~PromiseKept
      <3>1. /\ pending.intent \in Intents /\ K!Outcome(pending.intent) = "open"
            /\ K!Value(model)' = K!Value(model) /\ K!Value(selector)' = K!Value(selector)
            /\ ~K!Underway /\ ~K!Underway'
            /\ \A i \in Intents :
                 K!Outcome(i)' = IF i = pending.intent THEN "abandoned" ELSE K!Outcome(i)
        BY <1>6, <2>2, AbandonIntentStep
      <3>2. K!Promise!Abandon(pending.intent)
        BY <3>1 DEF K!Promise!Abandon
      <3> QED
        BY <1>6, <3>1, <3>2, AbandonIntentStep DEF K!Promise!Next
    <2> QED
      BY <2>1, <2>2
  <1>7. ASSUME NEW c \in Callers, K!Prepare(c)
        PROVE  AInv' /\ K!Promise!Next
    <2>1. /\ AInv' /\ pending.intent \in Intents
          /\ K!Outcome(pending.intent) = "open"
          /\ K!Value(model)' = pending.intent
          /\ K!Underway' /\ pending' = pending
          /\ \A i \in Intents :
               K!Outcome(i)' = IF i = pending.intent THEN "committed" ELSE K!Outcome(i)
      BY <1>7, PrepareStep
    <2>2. K!Promise!Commit(pending.intent)
      BY <2>1 DEF K!Promise!Commit
    <2> QED
      BY <2>1, <2>2 DEF K!Promise!Next
  <1> QED
    BY <1>2, <1>3, <1>4, <1>5, <1>6, <1>7 DEF MCNext, everything, K!Next, K!Proceed

\* Nothing is stored, selected or pending at the start.
LEMMA AuthoringInit ==
  ASSUME K!Init
  PROVE  AInv /\ K!Promise!Init
  <1>1. K!TypeOK
    BY NoCallIsCall
    DEF K!Init, K!TypeOK, K!Fresh, K!Guarded, K!NoPending, K!Bases, K!Versions
  <1>2. AuthoringStores /\ AuthoringCalls
    BY NoCallIsCall DEF K!Init, AuthoringStores, AuthoringCalls, K!Value, K!Fresh, Settled
  <1>3. K!Promise!Init
    BY DEF K!Init, K!Promise!Init, K!Value, K!Fresh, K!Outcome, K!Underway
  <1> QED
    BY <1>1, <1>2, <1>3 DEF AInv

\* The authoring of kinetics models implements AtomicSelection for every set of intents and
\* processes and any number of failures: for whoever reads next, head and selection change
\* together, and every intent is decided once (confirm, _recover_pending_locked).
THEOREM AuthoringIsAtomic == MCSpec => ImplementsSelection
  <1>1. MCInit => AInv /\ K!Promise!Init
    BY AuthoringInit DEF MCInit
  <1>2. AInv /\ [MCNext]_everything =>
          /\ AInv'
          /\ [K!Promise!Next]_<<K!Value(model),
               IF K!Underway THEN pending.intent ELSE K!Value(selector),
               [i \in Intents |-> K!Outcome(i)]>>
    BY AuthoringStep DEF PromiseStutters
  <1> QED
    BY <1>1, <1>2, PTL DEF MCSpec, ImplementsSelection, K!ImplementsSelection, K!Promise!Spec

=============================================================================
