----------------------------- MODULE MCCampaign -----------------------------
(* Small instances of Campaign for TLC.  MCLockSpec runs it as it is; MCSpec *)
(* picks one of two scenarios:                                               *)
(*   stolen  two operators race, so a running call may lose the run lock     *)
(*   accept  one call and a reviewer, through many revisions and verdicts    *)
EXTENDS Campaign

CONSTANTS relax, freq, d1, d2, d3

VARIABLE scenario

\* freq is built on relax.
Chain == [t \in {relax, freq} |-> IF t = freq THEN {relax} ELSE {}]
Single == [t \in {relax} |-> {}]

\* What the scenario leaves out of Next.
Confined ==
  \/ /\ scenario = "stolen"
     /\ Len(ledger') <= 1
     /\ \A r \in Reviewers :
          reviewer[r].pc = "loaded" /\ reviewer[r].rev >= 3 => reviewer'[r].pc # "idle"
  \/ /\ scenario = "accept"
     /\ UNCHANGED operator
     /\ driver'[d2] = NoCall /\ driver'[d3] = NoCall

MCInit == Init /\ scenario \in {"stolen", "accept"}
MCNext == Next /\ Confined /\ UNCHANGED scenario
MCLockInit == Init /\ scenario = "lock"
MCLockNext == Next /\ UNCHANGED scenario
MCLockSpec == MCLockInit /\ [][MCLockNext]_<<vars, scenario>> /\ Fairness

MCSpec == MCInit /\ [][MCNext]_<<vars, scenario>>

=============================================================================
