-------------------------- MODULE ExternalReferences --------------------------
(***************************************************************************)
(* The external reference gateway (src/vcstudio/project/                   *)
(* external_references.py, ExternalReferenceGateway) of one desktop        *)
(* process, and the bridge to it in gui_web/api.py.                        *)
(*                                                                         *)
(* A search holds a lease of the network switch while it asks a provider,  *)
(* and what it found is kept in memory under a result token.  A token      *)
(* authorises one use: a claim of a structure, or an import, previewed     *)
(* first, that writes a candidate file beside a project.yaml which others  *)
(* save at any time.  The memory dies with the process, the files do not.  *)
(*                                                                         *)
(* The API's identity lock admits one preview or import at a time; claims  *)
(* take none.  Every search finds results of its own, and the structures   *)
(* of one result are alike.  A file that was written can be removed.       *)
(***************************************************************************)
EXTENDS Naturals, Sequences, FiniteSets

CONSTANTS
  Searchers, Claimers,
  Results,        \* what the searches find, each under its token
  Importer, Nobody,
  MaxInFlight,    \* BoundedHttpTransport's slots
  MaxRecords,     \* _ResultTokenStore's and _ImportPreviewTokenStore's capacity
  LateSaves,      \* whether project.yaml is saved while the candidate is renamed
  MaxImports, MaxSaves, MaxSwitches, MaxCrashes   \* bounds

ASSUME BoundsAssumption ==
  /\ MaxInFlight \in Nat \ {0} /\ MaxRecords \in Nat \ {0}
  /\ LateSaves \in BOOLEAN
  /\ MaxImports \in Nat /\ MaxSaves \in Nat /\ MaxSwitches \in Nat /\ MaxCrashes \in Nat
ASSUME NamesAssumption ==
  /\ Importer \notin Claimers
  /\ Nobody \notin Claimers \union {Importer} /\ Nobody \notin Results

VARIABLES
  network,     \* the switch: enabled, and its epoch
  search,      \* each search: where it stands and the epoch of its lease
  lingering,   \* transport threads whose search has given up
  records,     \* the token store, oldest first
  token,       \* each token: its state and who holds the reservation
  expired,     \* the tokens whose time is over
  previews,    \* the preview tokens, oldest first, with the project.yaml they show
  import,      \* the import under way
  claim,       \* each claim under way: its result
  project,     \* which project.yaml, the staged and the candidate files by import
  attempts,    \* history: the imports, and how they ended
  claimed,     \* history: how many claims of each result were granted
  drawn,       \* history: the results found so far
  counts       \* bounds

store == <<records, token, expired>>
net == <<network, search, lingering>>
history == <<attempts, claimed, drawn>>
vars == <<net, store, previews, import, claim, project, history, counts>>

Fresh == [state |-> "available", holder |-> Nobody]
NoSearch == [pc |-> "idle", epoch |-> 0, cut |-> FALSE]
NoImport == [pc |-> "idle", preview |-> 0, result |-> Nobody, version |-> 0, placed |-> FALSE]

Search == [pc : {"idle", "leased", "sent", "answered", "done"}, epoch : Nat, cut : BOOLEAN]
Attempt == [result : Results, outcome : {"running", "ok", "failed", "crashed"}]

TypeOK ==
  /\ network \in [enabled : BOOLEAN, epoch : Nat]
  /\ search \in [Searchers -> Search]
  /\ lingering \in Nat
  /\ records \in Seq(Results) /\ expired \subseteq Results /\ drawn \subseteq Results
  /\ token \in [Results -> [state : {"available", "reserved", "committed"},
                            holder : Claimers \union {Importer, Nobody}]]
  /\ previews \in Seq([result : Results, version : Nat])
  /\ import \in
       [pc : {"idle", "bound", "reserved", "staged", "renamed", "placed", "committed",
              "undo", "release"},
        preview : Nat, result : Results \union {Nobody}, version : Nat, placed : BOOLEAN]
  /\ claim \in [Claimers -> Results \union {Nobody}]
  /\ project \in [version : Nat, stages : SUBSET (1 .. MaxImports),
                  files : SUBSET (1 .. MaxImports)]
  /\ attempts \in Seq(Attempt)
  /\ Len(attempts) <= MaxImports
  /\ claimed \in [Results -> Nat]
  /\ counts \in [saves : Nat, switches : Nat, crashes : Nat]

Init ==
  /\ network = [enabled |-> FALSE, epoch |-> 1]
  /\ search = [s \in Searchers |-> NoSearch]
  /\ lingering = 0
  /\ records = <<>> /\ expired = {}
  /\ token = [r \in Results |-> Fresh]
  /\ previews = <<>>
  /\ import = NoImport
  /\ claim = [c \in Claimers |-> Nobody]
  /\ project = [version |-> 1, stages |-> {}, files |-> {}]
  /\ attempts = <<>> /\ claimed = [r \in Results |-> 0] /\ drawn = {}
  /\ counts = [saves |-> 0, switches |-> 0, crashes |-> 0]

-----------------------------------------------------------------------------
(* The switch and the searches. *)

\* The switch moves at once, and the searches under way are left to drain.
SetNetwork(on) ==
  /\ on # network.enabled /\ counts.switches < MaxSwitches
  /\ counts' = [counts EXCEPT !.switches = @ + 1]
  /\ network' = [enabled |-> on, epoch |-> network.epoch + 1]
  /\ search' = [s \in Searchers |->
       IF search[s].pc # "idle" THEN [search[s] EXCEPT !.cut = TRUE] ELSE search[s]]
  /\ UNCHANGED <<lingering, store, previews, import, claim, project, history>>

AcquireLease(s) ==
  /\ search[s].pc = "idle" /\ network.enabled
  /\ drawn # Results
  /\ search' = [search EXCEPT ![s] = [pc |-> "leased", epoch |-> network.epoch,
                                      cut |-> FALSE]]
  /\ UNCHANGED <<network, lingering, store, previews, import, claim, project, history,
                 counts>>

\* The threads that ask a provider, whether somebody still waits for them or not.
InFlight == lingering + Cardinality({s \in Searchers : search[s].pc = "sent"})

Searching(s, from, to) ==
  /\ search[s].pc = from
  /\ search' = [search EXCEPT ![s].pc = to]
  /\ UNCHANGED <<network, store, previews, import, claim, project, history, counts>>

\* Without a key, or a free slot, nothing is sent.
Send(s) ==
  /\ \/ InFlight < MaxInFlight /\ Searching(s, "leased", "sent")
     \/ Searching(s, "leased", "done")
  /\ UNCHANGED lingering

\* A refusal, an echoed key or a malformed answer ends the search.
Answered(s) ==
  /\ \/ Searching(s, "sent", "answered")
     \/ Searching(s, "sent", "done")
  /\ UNCHANGED lingering

TimeOut(s) ==
  /\ Searching(s, "sent", "done")
  /\ lingering' = lingering + 1

ThreadEnds ==
  /\ lingering > 0 /\ lingering' = lingering - 1
  /\ UNCHANGED <<network, search, store, previews, import, claim, project, history, counts>>

\* Fault: switched off and on again is as good as never switched off.
LeaseWhileEnabled(s) == network.enabled

LeaseIsCurrent(s) == network.enabled /\ search[s].epoch = network.epoch

\* What _cleanup leaves, and what fits beside one more.  The expired tokens come first.
Expired == {i \in DOMAIN records : records[i] \in expired}
Alive == SubSeq(records, Cardinality(Expired) + 1, Len(records))
Retained == IF Len(Alive) < MaxRecords THEN Alive
            ELSE SubSeq(Alive, Len(Alive) - MaxRecords + 2, Len(Alive))

\* Under the switch's lock the answer is cached, or that fails, and gets its token.
Publish(s) ==
  /\ search[s].pc = "answered"
  /\ search' = [search EXCEPT ![s].pc = "done"]
  /\ \/ UNCHANGED <<store, drawn>>
     \/ /\ LeaseIsCurrent(s)
        /\ \E r \in Results \ drawn :
             records' = Append(Retained, r) /\ drawn' = drawn \union {r}
        /\ UNCHANGED <<token, expired>>
  /\ UNCHANGED <<network, lingering, previews, import, claim, project, attempts, claimed,
                 counts>>

ReleaseLease(s) ==
  /\ search[s].pc = "done"
  /\ search' = [search EXCEPT ![s] = NoSearch]
  /\ UNCHANGED <<network, lingering, store, previews, import, claim, project, history,
                 counts>>

-----------------------------------------------------------------------------
(* The result tokens. *)

Kept(r) == \E i \in DOMAIN records : records[i] = r
Valid(r) == Kept(r) /\ r \notin expired

\* All tokens live equally long: the oldest ends first.
Expire ==
  /\ \E i \in DOMAIN records :
       /\ records[i] \notin expired /\ \A j \in 1 .. (i - 1) : records[j] \in expired
       /\ expired' = expired \union {records[i]}
  /\ UNCHANGED <<net, records, token, previews, import, claim, project, history, counts>>

\* Fault: the token's state is not looked at.
ReservableAgain(r) == Valid(r)

Reservable(r) == Valid(r) /\ token[r].state = "available"

ReservedBy(r, who) == token[r] = [state |-> "reserved", holder |-> who]
Committable(r, who) == Valid(r) /\ ReservedBy(r, who)

Become(r, state, who) == token' = [token EXCEPT ![r] = [state |-> state, holder |-> who]]

Without(s, i) == [j \in 1 .. (Len(s) - 1) |-> s[IF j < i THEN j ELSE j + 1]]

\* Whoever looks at an expired token forgets it.
Forget(r) ==
  IF Kept(r) /\ r \in expired
  THEN \E i \in DOMAIN records : records[i] = r /\ records' = Without(records, i)
  ELSE UNCHANGED records

\* release_import, of a token still in the store.
Release(r, who) ==
  token' = IF Kept(r) /\ ReservedBy(r, who) THEN [token EXCEPT ![r] = Fresh] ELSE token

\* claim_structure_candidate: the reservation, and then its end.
ReserveClaim(c) ==
  /\ claim[c] = Nobody
  /\ \E r \in drawn : Reservable(r) /\ Become(r, "reserved", c)
                      /\ claim' = [claim EXCEPT ![c] = r]
  /\ UNCHANGED <<net, records, expired, previews, import, project, history, counts>>

GrantClaim(c) ==
  /\ claim[c] # Nobody /\ Committable(claim[c], c)
  /\ Become(claim[c], "committed", c)
  /\ claimed' = [claimed EXCEPT ![claim[c]] = @ + 1]
  /\ claim' = [claim EXCEPT ![c] = Nobody]
  /\ UNCHANGED <<net, records, expired, previews, import, project, attempts, drawn, counts>>

\* The structure is not available, or the token is gone.
AbandonClaim(c) ==
  /\ claim[c] # Nobody
  /\ Release(claim[c], c)
  /\ Forget(claim[c])
  /\ claim' = [claim EXCEPT ![c] = Nobody]
  /\ UNCHANGED <<net, expired, previews, import, project, history, counts>>

-----------------------------------------------------------------------------
(* The import of a candidate. *)

At(pc) == import.pc = pc
Goto(pc) == import' = [import EXCEPT !.pc = pc]
Current == Len(attempts)
Verified == project.version = import.version

\* external_reference_import_preview: bound to the project.yaml of this moment.
Preview ==
  /\ At("idle") /\ Len(attempts) < MaxImports
  /\ \E r \in drawn :
       /\ Reservable(r)
       /\ LET kept == IF Len(previews) < MaxRecords THEN previews ELSE Tail(previews)
          IN previews' = Append(kept, [result |-> r, version |-> project.version])
  /\ UNCHANGED <<net, store, import, claim, project, history, counts>>

\* A preview of another project.yaml is refused, and nothing has changed.
BeginImport ==
  /\ At("idle") /\ Len(attempts) < MaxImports
  /\ \E i \in DOMAIN previews :
       /\ previews[i].version = project.version
       /\ import' = [NoImport EXCEPT !.pc = "bound", !.preview = i,
                                     !.result = previews[i].result,
                                     !.version = project.version]
       /\ attempts' = Append(attempts, [result |-> previews[i].result,
                                        outcome |-> "running"])
  /\ UNCHANGED <<net, store, previews, claim, project, claimed, drawn, counts>>

\* Under the project's import lock, unless that cannot be had.
Reserve ==
  /\ At("bound")
  /\ \/ /\ Verified /\ Reservable(import.result)
        /\ Become(import.result, "reserved", Importer)
        /\ Goto("reserved")
        /\ UNCHANGED records
     \/ Goto("undo") /\ Forget(import.result) /\ UNCHANGED token
  /\ UNCHANGED <<net, expired, previews, claim, project, history, counts>>

\* The file is written, wholly or not, or not even begun.
Stage ==
  /\ At("reserved")
  /\ \/ /\ Verified
        /\ project' = [project EXCEPT !.stages = @ \union {Current}]
        /\ Goto("staged") \/ Goto("undo")
     \/ Goto("undo") /\ UNCHANGED project
  /\ UNCHANGED <<net, store, previews, claim, history, counts>>

Rename ==
  /\ At("staged")
  /\ \/ /\ Verified
        /\ project' = [project EXCEPT !.stages = @ \ {Current},
                                      !.files = @ \union {Current}]
        /\ Goto("renamed")
     \/ Goto("undo") /\ UNCHANGED project
  /\ UNCHANGED <<net, store, previews, claim, history, counts>>

\* replace_stage looks at the project once more before it returns.
Renamed ==
  /\ At("renamed")
  /\ import' = [import EXCEPT !.pc = IF Verified THEN "placed" ELSE "undo",
                              !.placed = Verified]
  /\ UNCHANGED <<net, store, previews, claim, project, history, counts>>

CommitToken ==
  /\ At("placed")
  /\ IF Verified /\ Committable(import.result, Importer)
     THEN /\ Become(import.result, "committed", Importer)
          /\ Goto("committed")
          /\ UNCHANGED records
     ELSE /\ Goto("undo")
          /\ UNCHANGED token
          /\ IF Verified THEN Forget(import.result) ELSE UNCHANGED records
  /\ UNCHANGED <<net, expired, previews, claim, project, history, counts>>

End(outcome) ==
  /\ import' = NoImport
  /\ attempts' = [attempts EXCEPT ![Current].outcome = outcome]

\* The preview is consumed and the caller told.
Succeed ==
  /\ At("committed") /\ Verified
  /\ previews' = Without(previews, import.preview)
  /\ End("ok")
  /\ UNCHANGED <<net, store, claim, project, claimed, drawn, counts>>

\* rollback_committed_import, of a token still in the store.
RollBack ==
  /\ At("committed") /\ ~Verified
  /\ token' = IF Kept(import.result) THEN [token EXCEPT ![import.result] = Fresh] ELSE token
  /\ Goto("undo")
  /\ UNCHANGED <<net, records, expired, previews, claim, project, history, counts>>

\* Fault: a failing commit leaves the file.
KeepPlaced ==
  /\ At("undo")
  /\ Goto("release")
  /\ UNCHANGED <<net, store, previews, claim, project, history, counts>>

Undo ==
  /\ At("undo")
  /\ project' = IF import.placed THEN [project EXCEPT !.files = @ \ {Current}] ELSE project
  /\ Goto("release")
  /\ UNCHANGED <<net, store, previews, claim, history, counts>>

\* Fault: the reservation of a failed import is not given back.
KeepReservation ==
  /\ At("release")
  /\ project' = [project EXCEPT !.stages = @ \ {Current}]
  /\ End("failed")
  /\ UNCHANGED <<net, store, previews, claim, claimed, drawn, counts>>

GiveBack ==
  /\ At("release")
  /\ Release(import.result, Importer)
  /\ project' = [project EXCEPT !.stages = @ \ {Current}]
  /\ End("failed")
  /\ UNCHANGED <<net, records, expired, previews, claim, claimed, drawn, counts>>

-----------------------------------------------------------------------------
(* The environment. *)

\* Any save replaces project.yaml by another file.
SaveProject ==
  /\ counts.saves < MaxSaves /\ counts' = [counts EXCEPT !.saves = @ + 1]
  /\ LateSaves \/ ~At("renamed")
  /\ project' = [project EXCEPT !.version = @ + 1]
  /\ UNCHANGED <<net, store, previews, import, claim, history>>

\* The process ends and is started again; it has forgotten everything but the files.
Crash ==
  /\ counts.crashes < MaxCrashes /\ counts' = [counts EXCEPT !.crashes = @ + 1]
  /\ network' = [enabled |-> FALSE, epoch |-> 1]
  /\ search' = [s \in Searchers |-> NoSearch]
  /\ lingering' = 0
  /\ records' = <<>> /\ expired' = {} /\ token' = [r \in Results |-> Fresh]
  /\ previews' = <<>>
  /\ import' = NoImport
  /\ claim' = [c \in Claimers |-> Nobody]
  /\ attempts' = IF At("idle") THEN attempts
                 ELSE [attempts EXCEPT ![Current].outcome = "crashed"]
  /\ UNCHANGED <<project, claimed, drawn>>

-----------------------------------------------------------------------------
ImportStep ==
  \/ Reserve \/ Stage \/ Rename \/ Renamed \/ CommitToken \/ Succeed \/ RollBack
  \/ Undo \/ GiveBack

ClaimEnds(c) == GrantClaim(c) \/ AbandonClaim(c)

Next ==
  \/ \E on \in BOOLEAN : SetNetwork(on)
  \/ \E s \in Searchers :
       \/ AcquireLease(s) \/ Send(s) \/ Answered(s) \/ TimeOut(s) \/ Publish(s)
       \/ ReleaseLease(s)
  \/ ThreadEnds
  \/ Expire
  \/ \E c \in Claimers : ReserveClaim(c) \/ ClaimEnds(c)
  \/ Preview \/ BeginImport \/ ImportStep
  \/ SaveProject \/ Crash

Spec == Init /\ [][Next]_vars

-----------------------------------------------------------------------------
(* Properties. *)

Granted(r) ==
  Cardinality({a \in DOMAIN attempts : attempts[a] = [result |-> r, outcome |-> "ok"]})
  + claimed[r]

\* A result is claimed or imported once at most, whatever expires, is evicted, fails or
\* is retried in between (docs/external-reference-gateway.md: a token "can authorize at
\* most one structure-candidate claim/import").
OneUsePerResult == \A r \in Results : Granted(r) <= 1

\* An import that ended well left its candidate and one that failed left no file behind
\* (docs/external-reference-gateway.md: "Any failure releases the reservation, removes
\* staged/committed artifacts").
ImportIsAllOrNothing ==
  \A a \in DOMAIN attempts :
    /\ attempts[a].outcome = "ok" => a \in project.files
    /\ attempts[a].outcome = "failed" => a \notin project.files \union project.stages

\* What a search brings back after the network was switched off is dropped, even if it
\* has been switched on again (_assert_network_lease_current).
NothingStaleIsPublished ==
  [][drawn' # drawn =>
       \E s \in Searchers : search[s].pc = "answered" /\ ~search[s].cut /\ search'[s].pc = "done"
     ]_vars

\* A reservation belongs to a call that is still under way, so that a result whose claim
\* or import failed can be used again (release_import, rollback_committed_import).
ReservationsAreHeld ==
  \A r \in Results : Kept(r) /\ token[r].state = "reserved" =>
    \/ token[r].holder \in Claimers /\ claim[token[r].holder] = r
    \/ token[r].holder = Importer /\ import.result = r

-----------------------------------------------------------------------------
(* The inductive invariant. *)

\* Only what a search found is in the store or has been used.
StoreInv ==
  /\ \A i \in DOMAIN records : records[i] \in drawn
  /\ \A r \in Results : token[r].state # "available" => r \in drawn

\* A use counts from the moment the token is committed.
Used(r) == Granted(r) + IF At("committed") /\ import.result = r THEN 1 ELSE 0

\* A token that was used is committed, or has left the store for good.
UsedOnce ==
  \A r \in Results :
    /\ Used(r) <= 1
    /\ Used(r) = 1 => r \in drawn /\ (Kept(r) => token[r].state = "committed")

\* The import under way is the latest attempt, of a preview that waits for its end.
ImportInv ==
  /\ At("idle") => import = NoImport
  /\ ~At("idle") =>
       /\ import.preview \in DOMAIN previews
       /\ attempts # <<>>
       /\ attempts[Current] = [result |-> import.result, outcome |-> "running"]
  /\ import.pc \in {"bound", "reserved", "staged", "renamed"} => ~import.placed
  /\ import.pc \in {"placed", "committed"} => import.placed

\* The files of the import under way, by how far it got.
FilesInv ==
  /\ project.stages \union project.files \subseteq 1 .. Current
  /\ import.pc \in {"bound", "reserved"} => Current \notin project.stages \union project.files
  /\ import.pc \in {"staged", "release"} => Current \notin project.files
  /\ import.pc \in {"renamed", "placed", "committed"} =>
       Current \in project.files \ project.stages
  /\ At("renamed") => Verified
  /\ At("undo") => import.placed \/ Current \notin project.files

\* A lease of the present epoch has not been cut.
LeaseInv ==
  \A s \in Searchers : search[s].pc # "idle" =>
    search[s].epoch <= network.epoch /\ (search[s].epoch = network.epoch => ~search[s].cut)

\* The files are told apart only if project.yaml is not saved at the one moment at which
\* an import does not look for that.
GInv ==
  /\ TypeOK /\ StoreInv /\ UsedOnce /\ ReservationsAreHeld /\ ImportInv /\ LeaseInv
  /\ ~LateSaves => FilesInv /\ ImportIsAllOrNothing

=============================================================================
