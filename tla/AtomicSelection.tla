--------------------------- MODULE AtomicSelection ---------------------------
(***************************************************************************)
(* What the authoring of kinetics model specs promises (the docstring of   *)
(* confirm in src/vcstudio/project/kinetics_authoring.py: "Commit spec     *)
(* then selector, returning success only after exact re-read"): the head   *)
(* of the model store and the active selection change together or not at   *)
(* all, and every confirmed intent is decided once.                        *)
(***************************************************************************)
CONSTANTS Intents, None

VARIABLES
  head,        \* the intent whose spec is the head of the model store
  selection,   \* the intent whose spec is selected
  outcome      \* per intent: open, committed or abandoned

Init ==
  /\ head = None /\ selection = None
  /\ outcome = [i \in Intents |-> "open"]

Commit(i) ==
  /\ outcome[i] = "open" /\ outcome' = [outcome EXCEPT ![i] = "committed"]
  /\ head' = i /\ selection' = i

Abandon(i) ==
  /\ outcome[i] = "open" /\ outcome' = [outcome EXCEPT ![i] = "abandoned"]
  /\ UNCHANGED <<head, selection>>

Next == \E i \in Intents : Commit(i) \/ Abandon(i)

Spec == Init /\ [][Next]_<<head, selection, outcome>>

=============================================================================
