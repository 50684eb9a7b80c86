--------------------------- MODULE MCTransactions ---------------------------
(* Small instances, for TLC, of two transactions that span several files and *)
(* are finished by whoever comes next: the publication of a method recipe    *)
(* (RecipePublish) and the authoring of a kinetics model (KineticsAuthoring). *)
(* They share nothing; a behaviour is of one of them and leaves the other    *)
(* as it was.                                                                *)
EXTENDS RecipePublish

CONSTANTS Intents, Callers, Nobody, None, MaxReceipts

VARIABLES
  scenario,
  model, room, selector, pending, receipts, preview, lock, caller, failures

K == INSTANCE KineticsAuthoring WITH faults <- failures

ASSUME AuthoringAssumptions == K!ConstantsAssumption

authoring == <<model, room, selector, pending, receipts, preview, lock, caller, failures>>
everything == <<vars, authoring, scenario>>

MCInit == Init /\ K!Init /\ scenario \in {"recipe", "kinetics"}

MCNext ==
  \/ scenario = "recipe" /\ Next /\ UNCHANGED <<authoring, scenario>>
  \/ scenario = "kinetics" /\ K!Next /\ UNCHANGED <<vars, scenario>>

\* The fairness of the two specifications, each of its own behaviours.
In(which, A, others) == scenario = which /\ A /\ UNCHANGED <<others, scenario>>

MCFairness ==
  /\ WF_everything(In("recipe", Proceed, authoring))
  /\ WF_everything(In("recipe", Recover, authoring))
  /\ WF_everything(In("kinetics", K!CallAgain, vars))
  /\ \A c \in Callers : WF_everything(In("kinetics", K!Proceed(c), vars))

MCSpec == MCInit /\ [][MCNext]_everything /\ MCFairness

\* KineticsAuthoring's ImplementsSelection: as the next reader will find them, the head
\* of the model store and the selection change together, and every intent is decided
\* once, whatever fails in between (confirm, _recover_pending_locked).
ImplementsSelection == K!ImplementsSelection

\* KineticsAuthoring's PendingSettles: a confirmation that was cut short is completed
\* or abandoned by whoever calls next, unless the ledger of receipts is full
\* (_append_receipt) or the model store is (_write_store).
PendingSettles == K!PendingSettles

=============================================================================
