---------------------------- MODULE MCReportPublish ----------------------------
(* Small instances of ReportPublish for TLC.  All projects begin with the same      *)
(* inputs and a stranger's report shows the same: the contents are interchangeable. *)
EXTENDS ReportPublish

CONSTANT First

MCInit ==
  /\ Init
  /\ \A p \in Projects : inputs[p] = First
  /\ \A d \in Dests, n \in Seqs :
       dest[d].files[n] # NoFile => dest[d].files[n].content = First

MCSpec == MCInit /\ [][Next]_vars /\ Fairness
=============================================================================
