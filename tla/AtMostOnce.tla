----------------------------- MODULE AtMostOnce -----------------------------
(***************************************************************************)
(* What the durable journals of cluster/submitter.py promise about one     *)
(* channel of remote commands (submissions are one channel, restarts, with *)
(* the journal they share with cancellations, another).  A command is      *)
(* identified by the transaction that was written to disk before it was    *)
(* sent.                                                                   *)
(*                                                                         *)
(*   gate      the transactions that stand unresolved on disk              *)
(*   accepted  the transactions whose command the scheduler has executed   *)
(*   recorded  the transactions whose result job.yaml carries              *)
(*                                                                         *)
(* A transaction opens the gate only when nothing is unresolved, reaches   *)
(* the scheduler at most once and only while it holds the gate, and the    *)
(* gate is released only for a command that was recorded or that never     *)
(* reached the scheduler.                                                  *)
(***************************************************************************)
EXTENDS Naturals

CONSTANT Txn                 \* the transactions ever created on the channel

VARIABLES gate, accepted, recorded

channel == <<gate, accepted, recorded>>

Init == gate = {} /\ accepted = {} /\ recorded = {}

Open(t) ==
  /\ gate = {}
  /\ t \notin accepted
  /\ gate' = {t}
  /\ UNCHANGED <<accepted, recorded>>

Accept(t) ==
  /\ t \in gate
  /\ t \notin accepted
  /\ accepted' = accepted \union {t}
  /\ UNCHANGED <<gate, recorded>>

Record(t) ==
  /\ t \in accepted \ recorded
  /\ recorded' = recorded \union {t}
  /\ UNCHANGED <<gate, accepted>>

Release(t) ==
  /\ t \in gate
  /\ t \in accepted => t \in recorded
  /\ gate' = {}
  /\ UNCHANGED <<accepted, recorded>>

Next == \E t \in Txn : Open(t) \/ Accept(t) \/ Record(t) \/ Release(t)

Spec == Init /\ [][Next]_channel

=============================================================================
