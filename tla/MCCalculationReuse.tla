-------------------------- MODULE MCCalculationReuse --------------------------
(* Small instances of CalculationReuse for TLC: one job has been submitted, and perhaps *)
(* finished, the others have only been created.                                         *)
EXTENDS CalculationReuse

CONSTANT First

MCInit == Init /\ launched = {First}
MCSpec == MCInit /\ [][Next]_vars /\ Fairness
=============================================================================
