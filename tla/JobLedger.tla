----------------------------- MODULE JobLedger -----------------------------
(***************************************************************************)
(* The registry of job directories, jobs.json (src/vcstudio/cluster/       *)
(* ledger.py): the registered directories, the transaction that owns an    *)
(* entry it has just added, and the undo receipts of lifecycle             *)
(* transactions.                                                           *)
(*                                                                         *)
(* Every mutation runs under one process lock and one file lock and        *)
(* replaces the file in one rename, so each is a function from the ledger  *)
(* that is to the ledger that will be.  The module has no state of its     *)
(* own: ProjectLifecycle and RecipePublish keep a ledger and apply these   *)
(* functions.                                                              *)
(***************************************************************************)

CONSTANTS
  Entries,        \* job directories
  Lifecycles,     \* ids of lifecycle transactions (clone, move, adopt)
  Registrations,  \* ids of the other transactions that register a directory
  NoOwner,
  NoReceipt

Owners == Lifecycles \union Registrations \union {NoOwner}

OwnersAreDistinct ==
  /\ Lifecycles \intersect Registrations = {}
  /\ NoOwner \notin Lifecycles \union Registrations
  /\ NoReceipt \notin [added : SUBSET Entries, removed : SUBSET Entries]

ASSUME OwnersAssumption == OwnersAreDistinct

\* What a lifecycle transaction really added and removed.  The original owner
\* of a removed entry is not kept: an owned entry is never removed.
Receipt == [added : SUBSET Entries, removed : SUBSET Entries]

Ledger == [dirs : SUBSET Entries, owner : [Entries -> Owners],
           receipt : [Lifecycles -> Receipt \union {NoReceipt}]]

LedgerOf(entries) ==
  [dirs |-> entries, owner |-> [e \in Entries |-> NoOwner],
   receipt |-> [t \in Lifecycles |-> NoReceipt]]

\* The file's own schema: an owner owns an entry that is there.
WellFormed(l) == \A e \in Entries : l.owner[e] # NoOwner => e \in l.dirs

Kept(owner, dirs) == [e \in Entries |-> IF e \in dirs THEN owner[e] ELSE NoOwner]

-----------------------------------------------------------------------------
(* Ordinary registration. *)

\* Fault: rollback authority outlives the entry it was about.
UnprunedSave(l, dirs, owner) ==
  [l EXCEPT !.dirs = dirs, !.owner = Kept(owner, dirs)]

\* An entry that goes takes its owner along, and every receipt's authority.
Save(l, dirs, owner) ==
  [dirs |-> dirs, owner |-> Kept(owner, dirs),
   receipt |-> [t \in Lifecycles |->
     IF l.receipt[t] = NoReceipt THEN NoReceipt
     ELSE [l.receipt[t] EXCEPT !.added = @ \intersect dirs]]]

Register(l, e) ==
  IF e \in l.dirs THEN l ELSE Save(l, l.dirs \union {e}, l.owner)

Unregister(l, e) ==
  IF e \notin l.dirs THEN l ELSE Save(l, l.dirs \ {e}, l.owner)

-----------------------------------------------------------------------------
(* Registration by a transaction that may have to take it back. *)

Owns(l, e, t) == e \in l.dirs /\ l.owner[e] = t

\* Another transaction's entry raises.
Claimable(l, e, t) == l.owner[e] \in {NoOwner, t}

\* An entry somebody else registered before is left un-owned.
RegisterOwned(l, e, t) ==
  IF e \in l.dirs THEN l
  ELSE Save(l, l.dirs \union {e}, [l.owner EXCEPT ![e] = t])

UnregisterOwned(l, e, t) ==
  IF Owns(l, e, t) THEN Save(l, l.dirs \ {e}, l.owner) ELSE l

ReleaseOwner(l, e, t) ==
  IF Owns(l, e, t) THEN Save(l, l.dirs, [l.owner EXCEPT ![e] = NoOwner]) ELSE l

EnsureReleased(l, e, t) ==
  IF e \in l.dirs /\ l.owner[e] # t THEN l
  ELSE Save(l, l.dirs \union {e}, [l.owner EXCEPT ![e] = NoOwner])

-----------------------------------------------------------------------------
(* Lifecycle projections: from `base', what the plan saw, to `projected'.   *)

\* An entry another transaction may still take back is not removed.
Mergeable(l, base, projected) ==
  \A e \in base \ projected : l.owner[e] = NoOwner

\* One write carries the delta, the ownership of what was really added and the
\* receipt.  A second call of one transaction finds its receipt and returns.
Merge(l, t, base, projected) ==
  LET added   == (projected \ base) \ l.dirs
      removed == l.dirs \intersect (base \ projected)
      dirs    == (l.dirs \ removed) \union added
  IN IF l.receipt[t] # NoReceipt THEN l
     ELSE [dirs |-> dirs,
           owner |-> [e \in Entries |->
             IF e \in added THEN t ELSE Kept(l.owner, dirs)[e]],
           receipt |-> [l.receipt EXCEPT ![t] =
             [added |-> added, removed |-> removed]]]

\* Without an applied receipt there is nothing to undo.  An added entry goes
\* only while it still carries this transaction's mark.
Rollback(l, t) ==
  IF l.receipt[t] = NoReceipt THEN l
  ELSE LET mine == {e \in l.receipt[t].added : Owns(l, e, t)}
           dirs == (l.dirs \ mine) \union l.receipt[t].removed
       IN [dirs |-> dirs,
           owner |-> [e \in Entries |->
             IF e \in l.dirs \ mine THEN l.owner[e] ELSE NoOwner],
           receipt |-> [l.receipt EXCEPT ![t] = NoReceipt]]

\* Fault: the added entries keep the mark of a transaction that is over.
ReleaseReceiptOnly(l, t) == [l EXCEPT !.receipt[t] = NoReceipt]

\* After the commit: drop the authority to roll back.
Release(l, t) ==
  IF l.receipt[t] = NoReceipt THEN l
  ELSE [l EXCEPT
         !.owner = [e \in Entries |->
           IF e \in l.receipt[t].added /\ @[e] = t THEN NoOwner ELSE @[e]],
         !.receipt[t] = NoReceipt]

=============================================================================
