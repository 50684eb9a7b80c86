-------------------------- MODULE ResearchNotebook --------------------------
(***************************************************************************)
(* The research notebook of a project (src/vcstudio/project/               *)
(* research_notebook.py): a journal inside the project, an anchor outside  *)
(* it that names the journal's head, and a pending record, beside the      *)
(* anchor, that announces the next row.  An append writes the pending      *)
(* record, the row, the anchor and removes the pending record; every call  *)
(* first finishes what a crash left.                                       *)
(*                                                                         *)
(* Digests are taken to be free of collisions: the digest of a row, which  *)
(* covers its predecessor's, stands for the whole sequence up to it.       *)
(***************************************************************************)
EXTENDS Naturals, Sequences, FiniteSets

CONSTANTS
  Callers,      \* processes and threads that use the notebook
  Nobody,
  Requests,     \* what they may ask to record
  NoBlob,       \* no attachment
  None,         \* no pending record, no torn row, no request
  MaxRecords,   \* MAX_RECORDS
  MaxBlobs,     \* MAX_NOTEBOOK_UNIQUE_BLOBS
  MaxTroubles   \* bound: crashes, failures and restored backups

VARIABLES
  journal,    \* ledger.jsonl: its complete rows
  torn,       \* the row of which the journal's last line is an incomplete part
  anchor,     \* <key>.json: the sequence its head digest stands for
  pending,    \* <key>.pending.json
  store,      \* attachments: the blobs, and whether a temporary file lies there
  lock,       \* who holds the lock file
  caller,     \* per caller, its call and what it last read
  restored,   \* history: somebody put an older journal in place
  acked,      \* history: the rows whose append returned
  troubles    \* bound

files == <<journal, torn, anchor, pending, store>>
vars == <<files, lock, caller, restored, acked, troubles>>

Blobs == {request.blob : request \in Requests} \ {NoBlob}
Row == [key : {request.key : request \in Requests},
        kind : {request.kind : request \in Requests}, target : Nat,
        blob : Blobs \union {NoBlob}, rev : Nat]

ASSUME RequestsAssumption == \A request \in Requests : request.target \in Nat
ASSUME CallersAssumption == Nobody \notin Callers
ASSUME TroublesAssumption == MaxTroubles \in Nat

\* old: the sequence the anchor named; prefix: the journal before the row.
Pending == [old : Seq(Row), prefix : Seq(Row), row : Row]

ASSUME NoneAssumption == None \notin Row \union Requests \union Pending

Successor(p) == Append(p.old, p.row)

\* The log: what the anchor names, and the row a durable pending record announces.
Committed ==
  IF pending # None /\ anchor = pending.old THEN Successor(pending) ELSE anchor

Promise == INSTANCE AppendLog WITH log <- Committed

\* The steps of a call under the lock: finish the pending record, read the
\* journal, then append.
Recovery == {"usage", "recover", "replay", "anchorOld", "clearOld", "check"}
Appending == {"decide", "store", "place", "pend", "write", "rest", "anchor", "clear"}
Answers == {"nothing", "read", "recorded", "replayed", "conflict", "refused",
            "damaged", "failed"}

\* request: None for read().  known: the journal as the caller last saw it, its
\* expected revision and head.  rows: as read under the lock.
Call == [pc : Recovery \union Appending \union {"idle"},
         request : Requests \union {None}, pending : Pending \union {None},
         known : Seq(Row), rows : Seq(Row), said : Answers]
NoCall == [pc |-> "idle", request |-> None, pending |-> None, known |-> <<>>,
           rows |-> <<>>, said |-> "nothing"]

TypeOK ==
  /\ journal \in Seq(Row) /\ anchor \in Seq(Row)
  /\ torn \in Row \union {None}
  /\ pending \in Pending \union {None}
  /\ store \in [blobs : SUBSET Blobs, stray : BOOLEAN]
  /\ lock \in Callers \union {Nobody}
  /\ caller \in [Callers -> Call]
  /\ restored \in BOOLEAN
  /\ acked \in SUBSET Row
  /\ troubles \in Nat

Init ==
  /\ journal = <<>> /\ torn = None /\ anchor = <<>> /\ pending = None
  /\ store = [blobs |-> {}, stray |-> FALSE]
  /\ lock = Nobody
  /\ caller = [c \in Callers |-> NoCall]
  /\ restored = FALSE /\ acked = {} /\ troubles = 0

-----------------------------------------------------------------------------
At(c, pc) == caller[c].pc = pc
Goto(c, pc) == caller' = [caller EXCEPT ![c].pc = pc]

\* The call returns; what it read becomes what the caller knows.
Answer(c, said, known) ==
  /\ caller' = [caller EXCEPT ![c] = [NoCall EXCEPT !.said = said, !.known = known]]
  /\ lock' = Nobody

Damaged(c) == Answer(c, "damaged", caller[c].known)

Start(c, request) ==
  /\ At(c, "idle") /\ lock = Nobody
  /\ lock' = c
  /\ caller' = [caller EXCEPT ![c].pc = "usage", ![c].request = request,
                              ![c].said = "nothing"]
  /\ UNCHANGED <<files, restored, acked, troubles>>

-----------------------------------------------------------------------------
(* _read_locked. *)

\* _attachment_store_usage_locked: only blobs may lie in the store.
CheckStore(c) ==
  /\ At(c, "usage")
  /\ IF store.stray THEN Damaged(c)
     ELSE Goto(c, "recover") /\ UNCHANGED lock
  /\ UNCHANGED <<files, restored, acked, troubles>>

\* The journal is where the pending record says: before, within or after its row.
Begun(p) == journal = p.prefix /\ torn \in {None, p.row}
Ended(p) == journal = Append(p.prefix, p.row) /\ torn = None

\* Fault: a torn last line is dropped, and with it the announced row.
RecoverByDropping(c) ==
  /\ At(c, "recover")
  /\ torn' = None
  /\ pending' = None
  /\ Goto(c, "replay")
  /\ UNCHANGED <<journal, anchor, store, lock, restored, acked, troubles>>

\* _recover_pending_before_replay_locked: the missing bytes of the announced row
\* are appended.
Recover(c) ==
  /\ At(c, "recover")
  /\ IF pending = None
     THEN /\ caller' = [caller EXCEPT ![c].pc = "replay", ![c].pending = None]
          /\ UNCHANGED <<journal, torn, lock>>
     ELSE \/ /\ \/ anchor = pending.old /\ (Begun(pending) \/ Ended(pending))
                \/ anchor = Successor(pending) /\ Ended(pending)
             /\ journal' = Append(pending.prefix, pending.row) /\ torn' = None
             /\ caller' = [caller EXCEPT ![c].pc = "replay", ![c].pending = pending]
             /\ UNCHANGED lock
          \/ /\ ~(anchor = pending.old /\ (Begun(pending) \/ Ended(pending)))
             /\ ~(anchor = Successor(pending) /\ Ended(pending))
             /\ Damaged(c)
             /\ UNCHANGED <<journal, torn>>
  /\ UNCHANGED <<anchor, pending, store, restored, acked, troubles>>

\* What the line by line check accepts.
Readable(rows) ==
  \A i \in 1..Len(rows) :
    LET before == SubSeq(rows, 1, i - 1)
    IN /\ rows[i].rev = i
       /\ ~Promise!Used(before, rows[i].key)
       /\ Promise!Allowed(before, rows[i])
       /\ rows[i].blob \in store.blobs \union {NoBlob}

\* The line by line check, then _finish_pending_after_replay_locked.
Replay(c) ==
  LET p == caller[c].pending
  IN /\ At(c, "replay")
     /\ IF \/ torn # None \/ ~Readable(journal)
           \/ p # None /\ (journal # Successor(p) \/ anchor \notin {p.old, Successor(p)})
        THEN Damaged(c)
        ELSE /\ caller' = [caller EXCEPT ![c].rows = journal, ![c].pc =
                  IF p = None THEN "check"
                  ELSE IF anchor = p.old THEN "anchorOld" ELSE "clearOld"]
             /\ UNCHANGED lock
     /\ UNCHANGED <<files, restored, acked, troubles>>

FinishAnchor(c) ==
  /\ At(c, "anchorOld")
  /\ anchor' = caller[c].rows
  /\ Goto(c, "clearOld")
  /\ UNCHANGED <<journal, torn, pending, store, lock, restored, acked, troubles>>

\* Fault: the finished record stays.
ClearNothing(c) ==
  /\ At(c, "clearOld") /\ Goto(c, "check")
  /\ UNCHANGED <<files, lock, restored, acked, troubles>>

ClearFinished(c) ==
  /\ At(c, "clearOld")
  /\ pending' = None
  /\ Goto(c, "check")
  /\ UNCHANGED <<journal, torn, anchor, store, lock, restored, acked, troubles>>

Check(c) ==
  /\ At(c, "check")
  /\ CASE anchor # caller[c].rows    -> Damaged(c)
       [] anchor = caller[c].rows /\ caller[c].request = None ->
            Answer(c, "read", caller[c].rows)
       [] OTHER                      -> Goto(c, "decide") /\ UNCHANGED lock
  /\ UNCHANGED <<files, restored, acked, troubles>>

-----------------------------------------------------------------------------
(* append() and tombstone(). *)

\* _operation_replay.
Recorded(rows, request) ==
  \E i \in 1..Len(rows) : rows[i] = Promise!RowOf(request, i)

\* Fault: the key is not looked up.
DecideAfresh(c) ==
  LET request == caller[c].request
      rows == caller[c].rows
  IN /\ At(c, "decide")
     /\ CASE caller[c].known # rows -> Answer(c, "conflict", caller[c].known)
          [] Len(rows) >= MaxRecords \/ ~Promise!Allowed(rows, request) ->
               Answer(c, "refused", rows)
          [] OTHER ->
               Goto(c, IF request.blob = NoBlob THEN "pend" ELSE "store")
                 /\ UNCHANGED lock
     /\ UNCHANGED <<files, restored, acked, troubles>>

Decide(c) ==
  LET request == caller[c].request
      rows == caller[c].rows
  IN /\ At(c, "decide")
     /\ CASE Recorded(rows, request) -> Answer(c, "replayed", rows)
          [] Promise!Used(rows, request.key) /\ ~Recorded(rows, request) ->
               Answer(c, "refused", rows)
          [] ~Promise!Used(rows, request.key) /\ caller[c].known # rows ->
               Answer(c, "conflict", caller[c].known)
          [] ~Promise!Used(rows, request.key) /\ caller[c].known = rows
               /\ (Len(rows) >= MaxRecords \/ ~Promise!Allowed(rows, request)) ->
               Answer(c, "refused", rows)
          [] OTHER ->
               Goto(c, IF request.blob = NoBlob THEN "pend" ELSE "store")
                 /\ UNCHANGED lock
     /\ UNCHANGED <<files, restored, acked, troubles>>

\* _store_attachments_locked: a temporary file in the store, then its rename.
Store(c) ==
  LET blob == caller[c].request.blob
      full == Cardinality(store.blobs \union {blob}) > MaxBlobs
  IN /\ At(c, "store")
     /\ CASE store.stray -> Damaged(c) /\ UNCHANGED store
          [] ~store.stray /\ full ->
               Answer(c, "refused", caller[c].rows) /\ UNCHANGED store
          [] ~store.stray /\ ~full /\ blob \in store.blobs ->
               Goto(c, "pend") /\ UNCHANGED <<store, lock>>
          [] OTHER ->
               store' = [store EXCEPT !.stray = TRUE] /\ Goto(c, "place") /\ UNCHANGED lock
     /\ UNCHANGED <<journal, torn, anchor, pending, restored, acked, troubles>>

\* Fault: the temporary file goes, the blob never comes.
PlaceNothing(c) ==
  /\ At(c, "place")
  /\ store' = [store EXCEPT !.stray = FALSE]
  /\ Goto(c, "pend")
  /\ UNCHANGED <<journal, torn, anchor, pending, lock, restored, acked, troubles>>

Place(c) ==
  /\ At(c, "place")
  /\ store' = [blobs |-> store.blobs \union {caller[c].request.blob}, stray |-> FALSE]
  /\ Goto(c, "pend")
  /\ UNCHANGED <<journal, torn, anchor, pending, lock, restored, acked, troubles>>

NewRow(c) == Promise!RowOf(caller[c].request, Len(caller[c].rows) + 1)

\* _append_locked.  The journal is measured again, the anchor read again.
Pend(c) ==
  /\ At(c, "pend")
  /\ IF pending = None /\ anchor = caller[c].rows
     THEN /\ pending' = [old |-> anchor, prefix |-> journal, row |-> NewRow(c)]
          /\ Goto(c, "write") /\ UNCHANGED lock
     ELSE Damaged(c) /\ UNCHANGED pending
  /\ UNCHANGED <<journal, torn, anchor, store, restored, acked, troubles>>

WriteSome(c) ==
  /\ At(c, "write")
  /\ torn' = NewRow(c)
  /\ Goto(c, "rest")
  /\ UNCHANGED <<journal, anchor, pending, store, lock, restored, acked, troubles>>

WriteRest(c) ==
  /\ At(c, "rest")
  /\ journal' = Append(journal, NewRow(c)) /\ torn' = None
  /\ Goto(c, "anchor")
  /\ UNCHANGED <<anchor, pending, store, lock, restored, acked, troubles>>

WriteAnchor(c) ==
  /\ At(c, "anchor")
  /\ IF anchor = caller[c].rows
     THEN anchor' = Append(anchor, NewRow(c)) /\ Goto(c, "clear") /\ UNCHANGED lock
     ELSE Damaged(c) /\ UNCHANGED anchor
  /\ UNCHANGED <<journal, torn, pending, store, restored, acked, troubles>>

ClearPending(c) ==
  /\ At(c, "clear")
  /\ pending' = None
  /\ acked' = acked \union {NewRow(c)}
  /\ Answer(c, "recorded", Append(caller[c].rows, NewRow(c)))
  /\ UNCHANGED <<journal, torn, anchor, store, restored, troubles>>

-----------------------------------------------------------------------------
(* Failures, crashes, and a backup of the project put back. *)

Trouble == troubles < MaxTroubles /\ troubles' = troubles + 1

\* An I/O error: the temporary file is removed on the way out.
Fail(c) ==
  /\ ~At(c, "idle") /\ Trouble
  /\ store' = [store EXCEPT !.stray = @ /\ ~At(c, "place")]
  /\ Answer(c, "failed", caller[c].known)
  /\ UNCHANGED <<journal, torn, anchor, pending, restored, acked>>

\* The process ends; another one starts with nothing read.
Crash(c) ==
  /\ ~At(c, "idle") /\ Trouble
  /\ Answer(c, "nothing", <<>>)
  /\ UNCHANGED <<files, restored, acked>>

\* The anchor is outside the project and stays.  The write of one row is short:
\* no backup comes into the middle of it.
RestoreBackup ==
  /\ \A c \in Callers : ~At(c, "rest")
  /\ Trouble
  /\ \E n \in 0..Len(journal) :
       /\ n < Len(journal) \/ torn # None
       /\ journal' = SubSeq(journal, 1, n)
  /\ torn' = None
  /\ restored' = TRUE
  /\ UNCHANGED <<anchor, pending, store, lock, caller, acked>>

-----------------------------------------------------------------------------
Advance(c) ==
  \/ CheckStore(c) \/ Recover(c) \/ Replay(c) \/ FinishAnchor(c)
  \/ ClearFinished(c) \/ Check(c)
  \/ Decide(c) \/ Store(c) \/ Place(c) \/ Pend(c) \/ WriteSome(c) \/ WriteRest(c)
  \/ WriteAnchor(c) \/ ClearPending(c)

Read(c) == Start(c, None)

Next ==
  \/ \E c \in Callers :
       \/ Read(c) \/ (\E request \in Requests : Start(c, request))
       \/ Advance(c) \/ Fail(c) \/ Crash(c)
  \/ RestoreBackup

Spec == Init /\ [][Next]_vars

\* A call goes on, and somebody opens the notebook again.
Fairness ==
  /\ \A c \in Callers : WF_vars(Advance(c))
  /\ WF_vars(\E c \in Callers : Read(c))
FairSpec == Spec /\ Fairness

-----------------------------------------------------------------------------
(* Properties. *)

\* The three files together implement an append-only log of unique requests,
\* whatever crashes, fails or is put back (append, tombstone,
\* _recover_pending_before_replay_locked, _finish_pending_after_replay_locked).
ImplementsLog == Promise!Spec

\* A row that names an attachment finds it in the store, wherever a crash came
\* (_store_attachments_locked runs before the pending record).
BlobsAreThere ==
  \A i \in 1..Len(Committed) : Committed[i].blob \in store.blobs \union {NoBlob}

\* A notebook nobody tampered with is never reported as damaged, except for the
\* temporary file a crash leaves in the attachment store (_read_locked).
NoFalseAlarm ==
  ~restored /\ ~store.stray => \A c \in Callers : caller[c].said # "damaged"

\* An announced row is completed as soon as somebody opens the notebook
\* (_recover_pending_before_replay_locked).
RowsAreFinished == pending # None ~> pending = None \/ restored \/ store.stray

-----------------------------------------------------------------------------
(* The inductive invariant behind ImplementsLog, BlobsAreThere and           *)
(* NoFalseAlarm.                                                             *)

\* A call under way holds the lock, so there is one.
LockInv == \A c \in Callers : ~At(c, "idle") <=> lock = c

\* A temporary file lies in the store while a call places a blob, or since one died there.
StoreInv ==
  \A c \in Callers :
    /\ At(c, "place") => store.stray
    /\ caller[c].pc \notin {"idle", "usage", "place"} => ~store.stray
    /\ caller[c].said = "damaged" =>
         restored \/ (store.stray /\ \A d \in Callers : ~At(d, "place"))

\* Unless a backup came in between, the journal is where anchor and pending record say.
FilesInv ==
  ~restored =>
    /\ pending = None => torn = None /\ journal = anchor
    /\ pending # None =>
         /\ pending.prefix = pending.old
         /\ \/ anchor = pending.old /\ (Begun(pending) \/ Ended(pending))
            \/ anchor = Successor(pending) /\ Ended(pending)

\* What was answered as recorded is in the log.
AckedIsKept == \A row \in acked : \E i \in 1..Len(Committed) : Committed[i] = row

\* What a call in recovery knows of the files.
RecoveryInv(c) ==
  /\ At(c, "replay") =>
       /\ caller[c].pending = pending
       /\ ~restored /\ pending # None => Ended(pending)
  /\ At(c, "anchorOld") \/ At(c, "clearOld") =>
       /\ pending # None /\ caller[c].rows = Successor(pending)
       /\ anchor = IF At(c, "anchorOld") THEN pending.old ELSE Successor(pending)
       /\ ~restored => Ended(pending)
  /\ At(c, "check") => pending = None /\ (~restored => anchor = caller[c].rows)

\* What a call that appends knows of them, and of its request.
AppendingInv(c) ==
  LET request == caller[c].request
      rows == caller[c].rows
  IN /\ caller[c].pc \in Appending => request \in Requests
     /\ caller[c].pc \in {"decide", "store", "place", "pend"} => pending = None /\ anchor = rows
     /\ caller[c].pc \in {"store", "place", "pend"} =>
          ~Promise!Used(rows, request.key) /\ Promise!Allowed(rows, request)
     /\ caller[c].pc \in {"store", "place"} => request.blob # NoBlob
     /\ At(c, "pend") => request.blob \in store.blobs \union {NoBlob}
     /\ caller[c].pc \in {"write", "rest", "anchor", "clear"} =>
          /\ pending # None /\ pending.row = NewRow(c) /\ pending.old = rows
          /\ anchor = IF At(c, "clear") THEN Successor(pending) ELSE rows
          /\ ~restored =>
               /\ At(c, "write") => journal = pending.prefix /\ torn = None
               /\ At(c, "rest") => journal = pending.prefix /\ torn = pending.row
               /\ At(c, "anchor") \/ At(c, "clear") => Ended(pending)

NInv ==
  /\ TypeOK /\ LockInv /\ StoreInv /\ FilesInv /\ AckedIsKept
  /\ Readable(Committed)
  /\ \A c \in Callers : RecoveryInv(c) /\ AppendingInv(c)

=============================================================================
