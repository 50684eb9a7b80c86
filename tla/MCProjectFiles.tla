--------------------------- MODULE MCProjectFiles ---------------------------
(* Small instances, for TLC, of two components that write into a project's   *)
(* directory: the import of external candidates (ExternalReferences) and the *)
(* clone, move and adoption of the project itself (ProjectLifecycle).  A      *)
(* behaviour is of one of them and leaves the other as it was.               *)
EXTENDS ExternalReferences, TLC

CONSTANTS
  Entries, Lifecycles, Registrations, NoOwner, NoReceipt,
  Services, None, Failing, Outsiders, MaxTroubles

VARIABLES
  scenario,
  tree, registry, ledger, journal, lock, service, clerk, begun, troubles, raced, touched

L == INSTANCE ProjectLifecycle

ASSUME LifecycleAssumptions == L!ConstantsAssumption

\* Every step at which the code reads or writes a file, but the write of the
\* committed record, after which the code keeps the result and reports a failure.
EveryStep == {"begin", "copy", "fill", "out", "mark", "inspect", "rewrite",
              "rewriteJob", "publish", "projectRegistry", "checkRegistry",
              "writeRegistry", "projectLedger", "merge",
              "release", "unmark", "forget", "undo", "removing", "restore", "back",
              "authority", "restoreProject", "undoJob", "restoreJob", "undoLedger", "readRegistry", "restoreRegistry", "finish"}

\* Neither the processes nor the results differ but by name.
Symmetry == Permutations(Services) \union Permutations(Results)

lifecycle == <<tree, registry, ledger, journal, lock, service, clerk, begun, troubles,
               raced, touched>>
everything == <<vars, lifecycle, scenario>>

MCInit ==
  /\ Init /\ L!Init
  /\ \/ scenario = "lifecycle"
     \/ scenario = "import" /\ registry = {} /\ ledger.dirs = {}

MCNext ==
  \/ scenario = "import" /\ Next /\ UNCHANGED <<lifecycle, scenario>>
  \/ scenario = "lifecycle" /\ L!Next /\ UNCHANGED <<vars, scenario>>

MCSpec == MCInit /\ [][MCNext]_everything

\* ProjectLifecycle's LedgerAuthority: the authority to take ledger entries back never
\* outlives its transaction (merge_projection, release_projection_receipt).
LedgerAuthority == L!LedgerAuthority

\* ProjectLifecycle's ProjectKept: the project itself is never lost (_apply_move,
\* _recover_record).
ProjectKept == L!ProjectKept

\* ProjectLifecycle's Agreement: without a journal, directory, registry and ledger agree
\* (_apply_clone, _apply_move, _apply_adopt, _recover_record).
Agreement == L!Agreement

\* ProjectLifecycle's MoveKeepsEdits: a move and its recovery lose no edition of the user's
\* but one saved between a comparison and the write after it (_restore_file_projection).
MoveKeepsEdits == L!MoveKeepsEdits

=============================================================================
