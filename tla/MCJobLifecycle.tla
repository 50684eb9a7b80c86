--------------------------- MODULE MCJobLifecycle ---------------------------
(* Small instances of JobLifecycle for TLC: the cfg files bound the jobs and *)
(* transactions and choose which disorders of the environment may occur.     *)
EXTENDS JobLifecycle

=============================================================================
