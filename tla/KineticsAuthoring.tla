-------------------------- MODULE KineticsAuthoring --------------------------
(***************************************************************************)
(* A confirmed kinetics model spec is put into the model store (src/       *)
(* vcstudio/project/kinetics_model_spec.py) and then selected (the         *)
(* selector of src/vcstudio/project/kinetics_authoring.py).  Each of the   *)
(* two is a file guarded by an anchor, a log of prepare and commit records *)
(* from which whoever reads the file next finishes an interrupted change;  *)
(* a pending journal and a ledger of receipts tie the two together.        *)
(*                                                                         *)
(* Everything but the reads of the model store runs under the authoring    *)
(* lock.  A version of either file is named by the intent that made it;    *)
(* an incomplete record at the end of an anchor is dropped by its next     *)
(* reader, so an append happens or does not.                               *)
(***************************************************************************)
EXTENDS Naturals, FiniteSets

CONSTANTS
  Intents,      \* the confirmations users make, each of a draft of its own
  Callers,      \* processes with a coordinator
  Nobody,
  None,
  MaxReceipts,  \* how many receipts the ledger takes
  MaxFaults     \* bound: crashes and failing calls

\* Assumed of the constants by whoever instantiates this module.
ConstantsAssumption == None \notin Intents /\ Nobody \notin Callers /\ MaxFaults \in Nat

VARIABLES
  model,        \* the model store: its file, its anchor and its staged file
  room,         \* whether what was prepared last fits the model store's file; the staged
                \* file may be larger
  selector,     \* the selector file and its anchor
  pending,      \* the pending journal: the intent and the bases it confirmed
  receipts,     \* per intent, the outcome in the ledger of receipts
  preview,      \* per intent, the bases its preview sealed
  lock,         \* who holds the authoring lock
  caller,       \* per process, its call
  faults        \* bound

vars == <<model, room, selector, pending, receipts, preview, lock, caller, faults>>
stores == <<model, room, selector>>
journals == <<pending, receipts>>

Versions == Intents \union {None}

\* file: what the file holds.  committed, prepared: by the records of the anchor.
\* staged: the pending file of the model store.
Guarded == [file : Versions, committed : Versions, prepared : Versions, staged : Versions]
Fresh == [file |-> None, committed |-> None, prepared |-> None, staged |-> None]

Bases == [head : Versions, selection : Versions]
NoPending == [intent |-> None, base |-> [head |-> None, selection |-> None]]

\* then: what a call does when nothing is pending any more.
Ends == {"preview", "confirm", "recover", "committed", "conflict"}
Call == [pc : {"idle", "recover", "forget", "decide", "put", "prepare"},
         then : Ends, intent : Versions, discarded : BOOLEAN]
NoCall == [pc |-> "idle", then |-> "recover", intent |-> None, discarded |-> FALSE]

TypeOK ==
  /\ model \in Guarded /\ selector \in Guarded /\ room \in BOOLEAN
  /\ pending \in [intent : Versions, base : Bases]
  /\ receipts \in [Intents -> {"none", "committed", "abandoned"}]
  /\ preview \in [Intents -> Bases \union {None}]
  /\ lock \in Callers \union {Nobody}
  /\ caller \in [Callers -> Call]
  /\ faults \in Nat

Init ==
  /\ model = Fresh /\ selector = Fresh /\ room = TRUE
  /\ pending = NoPending
  /\ receipts = [i \in Intents |-> "none"]
  /\ preview = [i \in Intents |-> None]
  /\ lock = Nobody
  /\ caller = [c \in Callers |-> NoCall]
  /\ faults = 0

-----------------------------------------------------------------------------
(* A file and its anchor. *)

Dirty(s) == s.prepared # None \/ s.staged # None

\* Fault: the commit record is written whatever the file holds.
RepairedUnread(s) ==
  IF s.prepared # None
  THEN [s EXCEPT !.committed = s.prepared, !.prepared = None]
  ELSE [s EXCEPT !.staged = None]

\* _read_consistent_store, _recover_anchor_unlocked, and the rest of a change that was
\* prepared: the file, the commit record and the removal of the staged file.
Repaired(s) ==
  IF s.prepared # None
  THEN IF s.file # s.prepared
       THEN [s EXCEPT !.file = s.prepared]
       ELSE [s EXCEPT !.committed = s.prepared, !.prepared = None]
  ELSE [s EXCEPT !.staged = None]

\* A read of the file fails unless it is what the anchor says.
Readable(s) ==
  IF s.prepared # None THEN s.file \in {s.committed, s.prepared} ELSE s.file = s.committed

\* What whoever reads the file will have read.
Value(s) == IF s.prepared # None THEN s.prepared ELSE s.committed

-----------------------------------------------------------------------------
(* A call under the authoring lock. *)

At(c, pc) == caller[c].pc = pc

Set(c, call) == caller' = [caller EXCEPT ![c] = call]

\* The call answers or fails.
Return(c) == Set(c, NoCall) /\ lock' = Nobody

Start(c, then, i) ==
  /\ At(c, "idle") /\ lock = Nobody
  /\ then = "confirm" => preview[i] # None
  /\ lock' = c
  /\ Set(c, [pc |-> "recover", then |-> then, intent |-> i, discarded |-> FALSE])
  /\ UNCHANGED <<stores, journals, preview, faults>>

\* _write_store: a change that was prepared can be written.
Writable == model.prepared = None \/ room

\* Reading the two stores repairs them first, one write after another; the rest of a
\* put and of an advance is written in the same way.
Repair(c) ==
  /\ caller[c].pc \in {"recover", "decide"}
  /\ \/ /\ Dirty(model) /\ Readable(model) /\ Writable
        /\ model' = Repaired(model) /\ UNCHANGED selector
     \/ /\ Dirty(selector) /\ Readable(selector)
        /\ selector' = Repaired(selector) /\ UNCHANGED model
  /\ UNCHANGED <<room, journals, preview, lock, caller, faults>>

Reads ==
  /\ ~Dirty(model) /\ Readable(model)
  /\ ~Dirty(selector) /\ Readable(selector)

Unreadable(c) ==
  /\ caller[c].pc \in {"recover", "decide"}
  /\ ~Readable(model) \/ ~Writable \/ ~Readable(selector)
  /\ Return(c)
  /\ UNCHANGED <<stores, journals, preview, faults>>

\* The model store has a lock of its own, and is read without the authoring lock too
\* (head); such a reader repairs it, but waits for a put.
ReadModel ==
  /\ Dirty(model) /\ Readable(model) /\ Writable
  /\ \A c \in Callers : ~At(c, "prepare")
  /\ model' = Repaired(model)
  /\ UNCHANGED <<room, selector, journals, preview, lock, caller, faults>>

-----------------------------------------------------------------------------
(* Recovery, with which every call begins and which a confirmation that put  *)
(* its spec goes through as well (_recover_pending_locked, confirm).         *)

\* _model_side, _selector_side.
Side(value, base) ==
  IF value = base THEN "base" ELSE IF value = pending.intent THEN "target" ELSE "neither"

ModelIs(side) == Side(model.committed, pending.base.head) = side
SelectorIs(side) == Side(selector.committed, pending.base.selection) = side

Full == Cardinality({i \in Intents : receipts[i] # "none"}) >= MaxReceipts

\* _append_receipt: one receipt per intent, and none beyond the limit.
Receive(c, outcome) ==
  LET i == pending.intent
  IN IF receipts[i] = outcome \/ (receipts[i] = "none" /\ ~Full)
     THEN /\ receipts' = [receipts EXCEPT ![i] = outcome]
          /\ Set(c, [caller[c] EXCEPT !.pc = "forget",
                                      !.discarded = outcome = "abandoned"])
          /\ UNCHANGED lock
     ELSE Return(c) /\ UNCHANGED receipts

\* Fault: an interrupted put is not looked for.
AbandonUnread(c) ==
  /\ At(c, "recover") /\ pending # NoPending
  /\ ModelIs("base") /\ SelectorIs("base")
  /\ Receive(c, "abandoned")
  /\ UNCHANGED <<stores, pending, preview, faults>>

\* Nothing was put: the user has to look at a new preview.
Abandon(c) ==
  /\ At(c, "recover") /\ Reads /\ pending # NoPending
  /\ ModelIs("base") /\ SelectorIs("base")
  /\ Receive(c, "abandoned")
  /\ UNCHANGED <<stores, pending, preview, faults>>

\* _advance_unlocked, up to its prepare record.
Advance(c) ==
  /\ At(c, "recover") /\ Reads /\ pending # NoPending
  /\ ModelIs("target") /\ SelectorIs("base")
  /\ selector' = [selector EXCEPT !.prepared = pending.intent]
  /\ UNCHANGED <<model, room, journals, preview, lock, caller, faults>>

Complete(c) ==
  /\ At(c, "recover") /\ Reads /\ pending # NoPending
  /\ ModelIs("target") /\ SelectorIs("target")
  /\ Receive(c, "committed")
  /\ UNCHANGED <<stores, pending, preview, faults>>

\* Neither at its exact base nor at its exact target.
Stuck(c) ==
  /\ At(c, "recover") /\ Reads /\ pending # NoPending
  /\ \/ ModelIs("neither") \/ SelectorIs("neither")
     \/ ModelIs("base") /\ SelectorIs("target")
  /\ Return(c)
  /\ UNCHANGED <<stores, journals, preview, faults>>

\* What follows the recovery.
GoOn(c) ==
  IF caller[c].then \in {"preview", "confirm"}
  THEN Set(c, [caller[c] EXCEPT !.pc = "decide"]) /\ UNCHANGED lock
  ELSE Return(c)

Forget(c) ==
  /\ At(c, "forget")
  /\ pending' = NoPending
  /\ GoOn(c)
  /\ UNCHANGED <<stores, receipts, preview, faults>>

NothingPending(c) ==
  /\ At(c, "recover") /\ pending = NoPending
  /\ GoOn(c)
  /\ UNCHANGED <<stores, journals, preview, faults>>

-----------------------------------------------------------------------------
(* preview and confirm. *)

Current == [head |-> model.committed, selection |-> selector.committed]

Preview(c) ==
  /\ At(c, "decide") /\ Reads /\ caller[c].then = "preview"
  /\ preview' = [preview EXCEPT ![caller[c].intent] = Current]
  /\ Return(c)
  /\ UNCHANGED <<stores, journals, faults>>

\* Fault: the receipts are not asked.
ConfirmAfresh(c) ==
  LET i == caller[c].intent
  IN /\ At(c, "decide") /\ Reads /\ caller[c].then = "confirm"
     /\ IF ~caller[c].discarded /\ preview[i] = Current
        THEN /\ pending' = [intent |-> i, base |-> Current]
             /\ Set(c, [caller[c] EXCEPT !.pc = "put", !.then = "committed"])
             /\ UNCHANGED lock
        ELSE Return(c) /\ UNCHANGED pending
     /\ UNCHANGED <<stores, receipts, preview, faults>>

\* An intent with a receipt is only replayed; one whose bases are not those it was
\* previewed on is a conflict.
Confirm(c) ==
  LET i == caller[c].intent
  IN /\ At(c, "decide") /\ Reads /\ caller[c].then = "confirm"
     /\ IF receipts[i] = "none" /\ ~caller[c].discarded /\ preview[i] = Current
        THEN /\ pending' = [intent |-> i, base |-> Current]
             /\ Set(c, [caller[c] EXCEPT !.pc = "put", !.then = "committed"])
             /\ UNCHANGED lock
        ELSE Return(c) /\ UNCHANGED pending
     /\ UNCHANGED <<stores, receipts, preview, faults>>

\* _commit_store_transaction: the staged file, then the prepare record.
Stage(c) ==
  /\ At(c, "put") /\ ~Dirty(model) /\ Readable(model)
  /\ model' = [model EXCEPT !.staged = pending.intent]
  /\ Set(c, [caller[c] EXCEPT !.pc = "prepare"])
  /\ UNCHANGED <<room, selector, journals, preview, lock, faults>>

\* The sizes were looked at for the staged file only.
Prepare(c) ==
  /\ At(c, "prepare")
  /\ model' = [model EXCEPT !.prepared = pending.intent] /\ room' \in BOOLEAN
  /\ Set(c, [caller[c] EXCEPT !.pc = "recover"])
  /\ UNCHANGED <<selector, journals, preview, lock, faults>>

\* The source was changed since the preview: put refuses.
Refuse(c) ==
  /\ At(c, "put")
  /\ Set(c, [caller[c] EXCEPT !.pc = "recover", !.then = "conflict"])
  /\ UNCHANGED <<stores, journals, preview, lock, faults>>

-----------------------------------------------------------------------------
(* Failures. *)

Trouble == faults < MaxFaults /\ faults' = faults + 1

\* A write of put fails: confirm recovers at once and reports a conflict.
PutFails(c) ==
  /\ Trouble
  /\ At(c, "prepare") \/ (At(c, "recover") /\ caller[c].then = "committed" /\ Dirty(model))
  /\ Set(c, [caller[c] EXCEPT !.pc = "recover", !.then = "conflict"])
  /\ UNCHANGED <<stores, journals, preview, lock>>

\* The process ends, or another call raises.
Stop(c) ==
  /\ Trouble
  /\ ~At(c, "idle")
  /\ Return(c)
  /\ UNCHANGED <<stores, journals, preview>>

-----------------------------------------------------------------------------
Proceed(c) ==
  \/ Repair(c) \/ Unreadable(c)
  \/ Abandon(c) \/ Advance(c) \/ Complete(c) \/ Stuck(c) \/ Forget(c)
  \/ NothingPending(c) \/ Preview(c) \/ Confirm(c)
  \/ Stage(c) \/ Prepare(c) \/ Refuse(c)

CallAgain == \E c \in Callers :
  \/ \E then \in {"preview", "confirm"}, i \in Intents : Start(c, then, i)
  \/ Start(c, "recover", None)

Next ==
  \/ CallAgain \/ ReadModel
  \/ \E c \in Callers : Proceed(c) \/ PutFails(c) \/ Stop(c)

Spec == Init /\ [][Next]_vars

\* A call goes on, and somebody calls again.
Fairness == WF_vars(CallAgain) /\ \A c \in Callers : WF_vars(Proceed(c))
FairSpec == Spec /\ Fairness

-----------------------------------------------------------------------------
(* Properties. *)

\* A spec that was put will be selected.
Underway == pending # NoPending /\ Value(model) = pending.intent

Outcome(i) ==
  IF receipts[i] # "none" THEN receipts[i]
  ELSE IF Underway /\ pending.intent = i THEN "committed" ELSE "open"

Promise == INSTANCE AtomicSelection WITH
  head <- Value(model),
  selection <- IF Underway THEN pending.intent ELSE Value(selector),
  outcome <- [i \in Intents |-> Outcome(i)]

\* As the next reader will find them, the head of the model store and the selection
\* change together, and every intent is decided once, whatever fails in between
\* (confirm, _recover_pending_locked).
ImplementsSelection == Promise!Spec

\* A confirmation that was cut short is completed or abandoned by whoever calls next,
\* unless the ledger has no room for its receipt (_append_receipt), or the model store
\* none for the revision that was prepared (_write_store).
PendingSettles ==
  pending # NoPending ~>
    \/ pending = NoPending
    \/ Full /\ receipts[pending.intent] = "none"
    \/ ~Writable

=============================================================================
