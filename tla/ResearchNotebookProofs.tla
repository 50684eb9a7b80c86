------------------------ MODULE ResearchNotebookProofs ------------------------
(* Proofs about ResearchNotebook, for any number of callers, requests, crashes,   *)
(* failures and restored backups: the three files implement the append-only log,  *)
(* a row that names an attachment finds it, an untouched notebook is never        *)
(* reported as damaged, and what was answered as recorded stays in the log.       *)
EXTENDS ResearchNotebook, SequenceTheorems, TLAPS

-----------------------------------------------------------------------------
(* Rows and sequences of rows.                                                    *)

\* What a request is recorded as.
LEMMA RowOfRequest ==
  ASSUME NEW request \in Requests, NEW n \in Nat,
         request.blob \in Blobs \union {NoBlob}
  PROVE  Promise!RowOf(request, n) \in Row
  BY RequestsAssumption DEF Promise!RowOf, Row

\* Every request names an attachment or none.
LEMMA BlobOfRequest ==
  ASSUME NEW request \in Requests
  PROVE  request.blob \in Blobs \union {NoBlob}
  BY DEF Blobs

\* What may be asked for may be recorded: the check does not look at the revision.
LEMMA AllowedRow ==
  ASSUME NEW rows, NEW request, NEW n
  PROVE  /\ Promise!Allowed(rows, Promise!RowOf(request, n)) <=> Promise!Allowed(rows, request)
         /\ Promise!RowOf(request, n).key = request.key
         /\ Promise!RowOf(request, n).blob = request.blob
         /\ Promise!RowOf(request, n).rev = n
  BY DEF Promise!Allowed, Promise!RowOf

\* One row more makes another sequence, with the same rows before it.
LEMMA Appended ==
  ASSUME NEW rows \in Seq(Row), NEW row \in Row
  PROVE  /\ Append(rows, row) \in Seq(Row) /\ Append(rows, row) # rows
         /\ Len(rows) \in Nat /\ Len(Append(rows, row)) = Len(rows) + 1
         /\ \A i \in 1..Len(rows) : Append(rows, row)[i] = rows[i]
         /\ Append(rows, row)[Len(rows) + 1] = row
  BY AppendProperties, LenProperties

\* The rows before a row that is appended.
LEMMA BeforeAppended ==
  ASSUME NEW rows \in Seq(Row), NEW row \in Row, NEW n \in 0..Len(rows)
  PROVE  SubSeq(Append(rows, row), 1, n) = SubSeq(rows, 1, n)
  <1> DEFINE longer == Append(rows, row)
  <1>1. /\ Len(rows) \in Nat /\ longer \in Seq(Row) /\ Len(longer) = Len(rows) + 1
        /\ \A i \in 1..Len(rows) : longer[i] = rows[i]
    BY Appended
  <1>2. /\ \A i \in 1..n : rows[i] \in Row /\ longer[i] \in Row /\ rows[i] = longer[i]
        /\ n \in Nat
    BY <1>1, ElementOfSeq
  <1> HIDE DEF longer
  <1>3. /\ SubSeq(rows, 1, n) \in Seq(Row) /\ SubSeq(longer, 1, n) \in Seq(Row)
        /\ Len(SubSeq(rows, 1, n)) = n /\ Len(SubSeq(longer, 1, n)) = n
        /\ \A i \in 1..n : SubSeq(rows, 1, n)[i] = rows[i]
        /\ \A i \in 1..n : SubSeq(longer, 1, n)[i] = longer[i]
    <2>1. /\ SubSeq(rows, 1, n) \in Seq(Row)
          /\ Len(SubSeq(rows, 1, n)) = IF 1 <= n THEN n - 1 + 1 ELSE 0
          /\ \A i \in 1 .. n - 1 + 1 : SubSeq(rows, 1, n)[i] = rows[1 + i - 1]
      BY <1>2, SubSeqProperties
    <2>2. /\ SubSeq(longer, 1, n) \in Seq(Row)
          /\ Len(SubSeq(longer, 1, n)) = IF 1 <= n THEN n - 1 + 1 ELSE 0
          /\ \A i \in 1 .. n - 1 + 1 : SubSeq(longer, 1, n)[i] = longer[1 + i - 1]
      BY <1>2, SubSeqProperties
    <2> QED
      BY <1>2, <2>1, <2>2
  <1>4. SubSeq(longer, 1, n) = SubSeq(rows, 1, n)
    BY <1>2, <1>3, SeqEqual
  <1> QED
    BY <1>4 DEF longer

\* A row with the next revision, a new key, an allowed target and its attachment in the
\* store leaves a readable journal readable.
LEMMA ReadableAppended ==
  ASSUME NEW rows \in Seq(Row), NEW row \in Row, Readable(rows),
         row.rev = Len(rows) + 1, ~Promise!Used(rows, row.key), Promise!Allowed(rows, row),
         row.blob \in store.blobs \union {NoBlob}
  PROVE  Readable(Append(rows, row))
  <1>1. PICK longer : longer = Append(rows, row)
    OBVIOUS
  <1>2. /\ Len(rows) \in Nat /\ Len(longer) = Len(rows) + 1
        /\ \A i \in 1..Len(rows) : longer[i] = rows[i]
        /\ longer[Len(rows) + 1] = row
    BY <1>1, Appended
  <1>3. ASSUME NEW i \in 1..Len(longer)
        PROVE  /\ longer[i].rev = i
               /\ ~Promise!Used(SubSeq(longer, 1, i - 1), longer[i].key)
               /\ Promise!Allowed(SubSeq(longer, 1, i - 1), longer[i])
               /\ longer[i].blob \in store.blobs \union {NoBlob}
    <2>1. i - 1 \in 0..Len(rows)
      BY <1>2
    <2>2. SubSeq(longer, 1, i - 1) = SubSeq(rows, 1, i - 1)
      BY <1>1, <2>1, BeforeAppended
    <2>3. CASE i \in 1..Len(rows)
      BY <1>2, <2>2, <2>3 DEF Readable
    <2>4. CASE i = Len(rows) + 1
      <3>1. SubSeq(rows, 1, i - 1) = rows
        BY <1>2, <2>4, SubSeqFull
      <3> QED
        BY <1>2, <2>2, <2>4, <3>1
    <2> QED
      BY <1>2, <2>3, <2>4
  <1> QED
    BY <1>1, <1>3 DEF Readable

\* What is readable stays so while blobs are only added.
LEMMA ReadableLater ==
  ASSUME NEW rows, Readable(rows), store.blobs \subseteq store'.blobs
  PROVE  Readable(rows)'
  BY DEF Readable

\* The log is a sequence of rows.
LEMMA CommittedType ==
  ASSUME TypeOK
  PROVE  Committed \in Seq(Row) /\ Len(Committed) \in Nat
  <1>1. CASE pending # None
    <2>1. pending.old \in Seq(Row) /\ pending.row \in Row
      BY <1>1 DEF TypeOK, Pending
    <2> QED
      BY <2>1, Appended, LenProperties DEF Committed, Successor, TypeOK
  <1>2. CASE pending = None
    BY <1>2, LenProperties DEF Committed, TypeOK
  <1> QED
    BY <1>1, <1>2

\* A step that leaves the log alone keeps it readable, and what was answered in it.
LEMMA LogKept ==
  ASSUME NInv, Committed' = Committed, store.blobs \subseteq store'.blobs, acked' = acked
  PROVE  Readable(Committed)' /\ AckedIsKept'
  <1>1. PICK log : log = Committed
    OBVIOUS
  <1>2. Readable(log)'
    BY <1>1, ReadableLater DEF NInv
  <1> QED
    BY <1>1, <1>2 DEF NInv, AckedIsKept

-----------------------------------------------------------------------------
(* The lock and the calls.                                                        *)

\* Going on changes the place of one call and nothing else.
LEMMA GoneOn ==
  ASSUME TypeOK, NEW c \in Callers, NEW pc \in Recovery \union Appending \union {"idle"},
         Goto(c, pc)
  PROVE  /\ caller' \in [Callers -> Call] /\ caller'[c].pc = pc
         /\ caller'[c].request = caller[c].request /\ caller'[c].pending = caller[c].pending
         /\ caller'[c].known = caller[c].known /\ caller'[c].rows = caller[c].rows
         /\ caller'[c].said = caller[c].said
         /\ \A d \in Callers \ {c} : caller'[d] = caller[d]
  <1>1. caller[c] \in Call /\ caller \in [Callers -> Call]
    BY DEF TypeOK
  <1>2. caller' = [caller EXCEPT ![c] = [caller[c] EXCEPT !.pc = pc]]
    BY DEF Goto
  <1>3. PICK w : w = [caller[c] EXCEPT !.pc = pc]
    OBVIOUS
  <1>4. /\ w \in Call /\ w.pc = pc /\ w.request = caller[c].request
        /\ w.pending = caller[c].pending /\ w.known = caller[c].known
        /\ w.rows = caller[c].rows /\ w.said = caller[c].said
    BY <1>1, <1>3 DEF Call
  <1> QED
    BY <1>1, <1>2, <1>3, <1>4

\* An answer ends the call.
LEMMA Answered ==
  ASSUME TypeOK, NEW c \in Callers, NEW said \in Answers, NEW known \in Seq(Row),
         Answer(c, said, known)
  PROVE  /\ caller' \in [Callers -> Call] /\ caller'[c].pc = "idle" /\ caller'[c].said = said
         /\ \A d \in Callers \ {c} : caller'[d] = caller[d]
         /\ lock' = Nobody
  <1>1. NoCall \in Call
    BY EmptySeq DEF NoCall, Call, Answers
  <1>2. PICK w : w = [NoCall EXCEPT !.said = said, !.known = known]
    OBVIOUS
  <1>3. w \in Call /\ w.pc = "idle" /\ w.said = said
    BY <1>2, <1>1 DEF NoCall, Call
  <1>4. caller' = [caller EXCEPT ![c] = w] /\ lock' = Nobody
    BY <1>2 DEF Answer
  <1> QED
    BY <1>3, <1>4 DEF TypeOK

\* While a call is under way the others are not.
LEMMA Alone ==
  ASSUME NInv, NEW c \in Callers, ~At(c, "idle")
  PROVE  lock = c /\ \A d \in Callers \ {c} : caller[d].pc = "idle"
  BY DEF NInv, LockInv, At

\* A call that goes on keeps the lock, and with it the others out.
LEMMA LockKept ==
  ASSUME NInv, NEW c \in Callers, ~At(c, "idle"), caller'[c].pc # "idle",
         \A d \in Callers \ {c} : caller'[d] = caller[d], UNCHANGED lock
  PROVE  LockInv' /\ \A d \in Callers \ {c} : RecoveryInv(d)' /\ AppendingInv(d)'
  <1>1. lock = c /\ \A d \in Callers \ {c} : caller'[d].pc = "idle"
    BY Alone
  <1>2. LockInv'
    BY <1>1 DEF LockInv, At
  <1>3. \A d \in Callers \ {c} : RecoveryInv(d)' /\ AppendingInv(d)'
    BY <1>1 DEF RecoveryInv, AppendingInv, At, Appending
  <1> QED
    BY <1>2, <1>3

\* A step that leaves the store alone keeps what is known of it.
LEMMA StoreKept ==
  ASSUME NInv, NEW c \in Callers, ~At(c, "idle"), caller'[c].pc # "place",
         caller'[c].pc \in {"idle", "usage"} \/ ~store.stray,
         caller'[c].said = caller[c].said,
         \A d \in Callers \ {c} : caller'[d] = caller[d],
         UNCHANGED <<store, restored>>
  PROVE  StoreInv'
  <1>1. \A d \in Callers \ {c} : caller'[d].pc = "idle"
    BY Alone
  <1> QED
    BY <1>1 DEF NInv, StoreInv, At

\* A step of a call that leaves the files alone and is where it says.
LEMMA QuietStep ==
  ASSUME NInv, NEW c \in Callers, ~At(c, "idle"), caller' \in [Callers -> Call],
         caller'[c].pc \notin {"idle", "usage", "place"}, ~store.stray,
         caller'[c].said = caller[c].said,
         \A d \in Callers \ {c} : caller'[d] = caller[d],
         UNCHANGED <<files, lock, restored, acked, troubles>>,
         RecoveryInv(c)', AppendingInv(c)'
  PROVE  NInv' /\ Committed' = Committed
  <1>1. Committed' = Committed
    BY DEF Committed, Successor, files
  <1>2. StoreInv' /\ LockInv' /\ \A d \in Callers \ {c} : RecoveryInv(d)' /\ AppendingInv(d)'
    BY LockKept, StoreKept DEF files
  <1>3. Readable(Committed)' /\ AckedIsKept'
    BY <1>1, LogKept DEF files
  <1>4. TypeOK' /\ FilesInv'
    BY DEF NInv, TypeOK, FilesInv, files, Begun, Ended, Successor
  <1> QED
    BY <1>1, <1>2, <1>3, <1>4 DEF NInv

\* A call that ends, with whatever answer, leaves the files to the next.
LEMMA ReturnStep ==
  ASSUME NInv, NEW c \in Callers, ~At(c, "idle"), NEW said \in Answers, NEW known \in Seq(Row),
         Answer(c, said, known), UNCHANGED <<journal, torn, anchor, pending, restored, acked>>,
         troubles' \in Nat,
         UNCHANGED store \/ (At(c, "place") /\ store' = [store EXCEPT !.stray = FALSE]),
         said = "damaged" => restored \/ (store.stray /\ UNCHANGED store)
  PROVE  NInv' /\ Committed' = Committed
  <1>0. TypeOK
    BY DEF NInv
  <1>1. Committed' = Committed
    BY DEF Committed, Successor
  <1>2. /\ caller' \in [Callers -> Call] /\ caller'[c].pc = "idle" /\ caller'[c].said = said
        /\ \A d \in Callers \ {c} : caller'[d] = caller[d]
        /\ lock' = Nobody
    BY <1>0, Answered
  <1>3. \A d \in Callers : caller'[d].pc = "idle"
    BY <1>2, Alone
  <1>4. LockInv' /\ \A d \in Callers : RecoveryInv(d)' /\ AppendingInv(d)'
    <2>1. LockInv'
      BY <1>2, <1>3, CallersAssumption DEF LockInv, At
    <2>2. \A d \in Callers : RecoveryInv(d)' /\ AppendingInv(d)'
      BY <1>3 DEF RecoveryInv, AppendingInv, At, Appending
    <2> QED
      BY <2>1, <2>2
  <1>5. store' \in [blobs : SUBSET Blobs, stray : BOOLEAN] /\ store'.blobs = store.blobs
        /\ (store'.stray = store.stray \/ (At(c, "place") /\ ~store'.stray))
    BY <1>0 DEF TypeOK
  <1>6. Readable(Committed)' /\ AckedIsKept'
    BY <1>1, <1>5, LogKept
  <1>7. StoreInv'
    <2>1. \A d \in Callers : caller'[d].said = "damaged" =>
            restored' \/ (store'.stray /\ \A e \in Callers : ~At(e, "place")')
      BY <1>2, <1>3, <1>5 DEF NInv, StoreInv, At
    <2> QED
      BY <1>3, <2>1 DEF StoreInv, At
  <1>8. TypeOK' /\ FilesInv'
    <2>1. TypeOK'
      BY <1>0, <1>2, <1>5 DEF TypeOK
    <2>2. FilesInv'
      BY DEF NInv, FilesInv, Begun, Ended, Successor
    <2> QED
      BY <2>1, <2>2
  <1> QED
    BY <1>1, <1>4, <1>6, <1>7, <1>8 DEF NInv
-----------------------------------------------------------------------------
(* _read_locked.                                                                  *)

\* A call begins with the lock and without an answer.
LEMMA StartStep ==
  ASSUME NInv, NEW c \in Callers, NEW request \in Requests \union {None}, Start(c, request)
  PROVE  NInv' /\ Committed' = Committed
  <1>0. TypeOK /\ At(c, "idle") /\ lock = Nobody /\ lock' = c
        /\ UNCHANGED <<files, restored, acked, troubles>>
    BY DEF Start, NInv
  <1>1. PICK w : w = [caller[c] EXCEPT !.pc = "usage", !.request = request, !.said = "nothing"]
    OBVIOUS
  <1>2. w \in Call /\ w.pc = "usage" /\ w.said = "nothing"
    BY <1>0, <1>1 DEF TypeOK, Call, Recovery, Answers
  <1>3. caller' = [caller EXCEPT ![c] = w]
    BY <1>0, <1>1 DEF Start, TypeOK
  <1>4. /\ caller' \in [Callers -> Call] /\ caller'[c].pc = "usage" /\ caller'[c].said = "nothing"
        /\ \A d \in Callers \ {c} : caller'[d] = caller[d]
    BY <1>0, <1>2, <1>3 DEF TypeOK
  <1>5. \A d \in Callers : caller[d].pc = "idle"
    BY <1>0, CallersAssumption DEF NInv, LockInv, At
  <1>6. \A d \in Callers \ {c} : caller'[d].pc = "idle"
    BY <1>4, <1>5
  <1>7. Committed' = Committed
    BY <1>0 DEF Committed, Successor, files
  <1>8. Readable(Committed)' /\ AckedIsKept'
    BY <1>0, <1>7, LogKept DEF files
  <1>9. LockInv' /\ StoreInv'
    BY <1>0, <1>4, <1>5, <1>6 DEF NInv, StoreInv, LockInv, At, files
  <1>10. \A d \in Callers : RecoveryInv(d)' /\ AppendingInv(d)'
    BY <1>4, <1>6 DEF RecoveryInv, AppendingInv, At, Appending
  <1>11. TypeOK' /\ FilesInv'
    BY <1>0, <1>4 DEF NInv, TypeOK, FilesInv, files, Begun, Ended, Successor
  <1> QED
    BY <1>7, <1>8, <1>9, <1>10, <1>11 DEF NInv

\* The answer "damaged" of a call for which there was a reason.
LEMMA DamagedStep ==
  ASSUME NInv, NEW c \in Callers, ~At(c, "idle"), Damaged(c),
         UNCHANGED <<files, restored, acked, troubles>>, restored \/ store.stray
  PROVE  NInv' /\ Committed' = Committed
  <1>1. caller[c].known \in Seq(Row) /\ "damaged" \in Answers /\ troubles' \in Nat
    BY DEF NInv, TypeOK, Call, Answers
  <1> QED
    BY <1>1, ReturnStep DEF Damaged, files

\* The store is looked at.
LEMMA CheckStoreStep ==
  ASSUME NInv, NEW c \in Callers, CheckStore(c)
  PROVE  NInv' /\ Committed' = Committed
  <1>0. TypeOK /\ ~At(c, "idle") /\ UNCHANGED <<files, restored, acked, troubles>>
    BY DEF NInv, CheckStore, At
  <1>1. CASE store.stray
    BY <1>0, <1>1, DamagedStep DEF CheckStore
  <1>2. CASE ~store.stray
    <2>1. Goto(c, "recover") /\ UNCHANGED lock
      BY <1>2 DEF CheckStore
    <2>2. /\ caller' \in [Callers -> Call] /\ caller'[c].pc = "recover"
          /\ caller'[c].said = caller[c].said
          /\ \A d \in Callers \ {c} : caller'[d] = caller[d]
      BY <1>0, <2>1, GoneOn DEF Recovery
    <2>3. RecoveryInv(c)' /\ AppendingInv(c)'
      BY <2>2 DEF RecoveryInv, AppendingInv, At, Appending
    <2> QED
      BY <1>0, <1>2, <2>1, <2>2, <2>3, QuietStep
  <1> QED
    BY <1>1, <1>2

\* The announced row is completed, or the files are not where the record says, which they
\* are unless a backup came in between.
LEMMA RecoverStep ==
  ASSUME NInv, NEW c \in Callers, Recover(c)
  PROVE  NInv' /\ Committed' = Committed
  <1>0. /\ TypeOK /\ At(c, "recover") /\ ~At(c, "idle") /\ ~store.stray
        /\ UNCHANGED <<anchor, pending, store, restored, acked, troubles>>
        /\ caller[c] \in Call /\ pending \in Pending \union {None}
    BY DEF NInv, Recover, At, StoreInv, TypeOK
  <1>1. ASSUME NEW p \in Pending \union {None},
               caller' = [caller EXCEPT ![c].pc = "replay", ![c].pending = p]
        PROVE  /\ caller' \in [Callers -> Call] /\ caller'[c].pc = "replay"
               /\ caller'[c].pending = p /\ caller'[c].said = caller[c].said
               /\ \A d \in Callers \ {c} : caller'[d] = caller[d]
    <2>1. PICK w : w = [caller[c] EXCEPT !.pc = "replay", !.pending = p]
      OBVIOUS
    <2>2. w \in Call /\ w.pc = "replay" /\ w.pending = p /\ w.said = caller[c].said
      BY <1>0, <2>1 DEF Call, Recovery
    <2>3. caller' = [caller EXCEPT ![c] = w]
      BY <1>0, <1>1, <2>1 DEF TypeOK
    <2> QED
      BY <1>0, <2>2, <2>3 DEF TypeOK
  <1>2. CASE pending = None
    <2>1. /\ caller' = [caller EXCEPT ![c].pc = "replay", ![c].pending = None]
          /\ UNCHANGED <<journal, torn, lock>>
      BY <1>2 DEF Recover
    <2>2. /\ caller' \in [Callers -> Call] /\ caller'[c].pc = "replay"
          /\ caller'[c].pending = None /\ caller'[c].said = caller[c].said
          /\ \A d \in Callers \ {c} : caller'[d] = caller[d]
      BY <1>1, <2>1
    <2>3. RecoveryInv(c)' /\ AppendingInv(c)'
      BY <1>0, <1>2, <2>2 DEF RecoveryInv, AppendingInv, At, Appending
    <2> QED
      BY <1>0, <2>1, <2>2, <2>3, QuietStep DEF files
  <1>3. CASE /\ pending # None
             /\ \/ anchor = pending.old /\ (Begun(pending) \/ Ended(pending))
                \/ anchor = Successor(pending) /\ Ended(pending)
    <2>1. /\ journal' = Append(pending.prefix, pending.row) /\ torn' = None
          /\ caller' = [caller EXCEPT ![c].pc = "replay", ![c].pending = pending]
          /\ UNCHANGED lock
      BY <1>3 DEF Recover
    <2>2. /\ caller' \in [Callers -> Call] /\ caller'[c].pc = "replay"
          /\ caller'[c].pending = pending /\ caller'[c].said = caller[c].said
          /\ \A d \in Callers \ {c} : caller'[d] = caller[d]
      BY <1>0, <1>1, <2>1
    <2>3. Ended(pending)' /\ journal' \in Seq(Row)
      <3>1. pending.prefix \in Seq(Row) /\ pending.row \in Row
        BY <1>0, <1>3 DEF Pending
      <3> QED
        BY <1>0, <2>1, <3>1, Appended DEF Ended
    <2>4. RecoveryInv(c)' /\ AppendingInv(c)'
      BY <1>0, <2>2, <2>3 DEF RecoveryInv, AppendingInv, At, Appending
    <2>5. Committed' = Committed
      BY <1>0 DEF Committed, Successor
    <2>6. StoreInv' /\ LockInv' /\ \A d \in Callers \ {c} : RecoveryInv(d)' /\ AppendingInv(d)'
      BY <1>0, <2>1, <2>2, LockKept, StoreKept
    <2>7. Readable(Committed)' /\ AckedIsKept'
      BY <1>0, <2>5, LogKept
    <2>8. TypeOK'
      BY <1>0, <2>1, <2>2, <2>3 DEF TypeOK
    <2>9. FilesInv'
      BY <1>0, <1>3, <2>3 DEF NInv, FilesInv, Successor
    <2> QED
      BY <2>4, <2>5, <2>6, <2>7, <2>8, <2>9 DEF NInv
  <1>4. CASE /\ pending # None
             /\ ~(anchor = pending.old /\ (Begun(pending) \/ Ended(pending)))
             /\ ~(anchor = Successor(pending) /\ Ended(pending))
    <2>1. Damaged(c) /\ UNCHANGED <<journal, torn>>
      BY <1>4 DEF Recover
    <2>2. restored
      BY <1>4 DEF NInv, FilesInv
    <2> QED
      BY <1>0, <2>1, <2>2, DamagedStep DEF files
  <1> QED
    BY <1>2, <1>3, <1>4
\* The journal is checked line by line: what the log says is in it unless a backup came.
LEMMA ReplayStep ==
  ASSUME NInv, NEW c \in Callers, Replay(c)
  PROVE  NInv' /\ Committed' = Committed
  <1>0. /\ TypeOK /\ At(c, "replay") /\ ~At(c, "idle") /\ ~store.stray
        /\ UNCHANGED <<files, restored, acked, troubles>>
        /\ caller[c] \in Call /\ caller[c].pending = pending
        /\ ~restored /\ pending # None => Ended(pending)
    BY DEF NInv, Replay, At, StoreInv, TypeOK, RecoveryInv
  <1>1. PICK p : p = caller[c].pending
    OBVIOUS
  <1>2. CASE \/ torn # None \/ ~Readable(journal)
             \/ p # None /\ (journal # Successor(p) \/ anchor \notin {p.old, Successor(p)})
    <2>1. Damaged(c)
      BY <1>1, <1>2 DEF Replay
    <2>2. ASSUME ~restored PROVE FALSE
      <3>1. CASE pending = None
        <4>1. torn = None /\ journal = anchor /\ Committed = anchor
          BY <2>2, <3>1 DEF NInv, FilesInv, Committed
        <4> QED
          BY <1>0, <1>1, <1>2, <3>1, <4>1 DEF NInv
      <3>2. CASE pending # None
        <4>1. /\ torn = None /\ journal = Successor(pending)
              /\ anchor \in {pending.old, Successor(pending)}
          BY <1>0, <2>2, <3>2 DEF NInv, FilesInv, Ended, Successor
        <4>2. Committed = journal
          BY <3>2, <4>1 DEF Committed
        <4> QED
          BY <1>0, <1>1, <1>2, <3>2, <4>1, <4>2 DEF NInv
      <3> QED
        BY <3>1, <3>2
    <2> QED
      BY <1>0, <2>1, <2>2, DamagedStep
  <1>3. CASE ~(\/ torn # None \/ ~Readable(journal)
               \/ p # None /\ (journal # Successor(p) \/ anchor \notin {p.old, Successor(p)}))
    <2>1. PICK pc : pc = IF p = None THEN "check"
                         ELSE IF anchor = p.old THEN "anchorOld" ELSE "clearOld"
      OBVIOUS
    <2>2. caller' = [caller EXCEPT ![c].rows = journal, ![c].pc = pc] /\ UNCHANGED lock
      BY <1>1, <1>3, <2>1 DEF Replay
    <2>3. /\ pc \in {"check", "anchorOld", "clearOld"}
          /\ pc = "check" => p = None
          /\ pc # "check" => p # None
          /\ pc = "anchorOld" => anchor = p.old
          /\ pc = "clearOld" => anchor # p.old
      BY ONLY <2>1
    <2>4. PICK w : w = [caller[c] EXCEPT !.rows = journal, !.pc = pc]
      OBVIOUS
    <2>5. w \in Call /\ w.pc = pc /\ w.rows = journal /\ w.said = caller[c].said
      BY <1>0, <2>3, <2>4 DEF Call, Recovery, TypeOK
    <2>6. caller' = [caller EXCEPT ![c] = w]
      BY <1>0, <2>2, <2>4 DEF TypeOK
    <2>7. /\ caller' \in [Callers -> Call] /\ caller'[c] = w
          /\ \A d \in Callers \ {c} : caller'[d] = caller[d]
      BY <1>0, <2>5, <2>6 DEF TypeOK
    <2>8. /\ pc = "check" => pending = None /\ (~restored => anchor = journal)
          /\ pc \in {"anchorOld", "clearOld"} =>
               /\ pending # None /\ journal = Successor(pending)
               /\ anchor = IF pc = "anchorOld" THEN pending.old ELSE Successor(pending)
               /\ ~restored => Ended(pending)
      BY <1>0, <1>1, <1>3, <2>3 DEF NInv, FilesInv
    <2>9. /\ UNCHANGED <<anchor, pending, restored>>
          /\ Successor(pending)' = Successor(pending) /\ Ended(pending)' = Ended(pending)
      BY <1>0 DEF files, Successor, Ended
    <2>10. RecoveryInv(c)' /\ AppendingInv(c)'
      BY <2>3, <2>5, <2>7, <2>8, <2>9 DEF RecoveryInv, AppendingInv, At, Appending
    <2> QED
      BY <1>0, <2>2, <2>3, <2>5, <2>7, <2>10, QuietStep
  <1> QED
    BY <1>2, <1>3

\* The anchor follows the completed row.
LEMMA FinishAnchorStep ==
  ASSUME NInv, NEW c \in Callers, FinishAnchor(c)
  PROVE  NInv' /\ Committed' = Committed
  <1>0. /\ TypeOK /\ At(c, "anchorOld") /\ ~At(c, "idle") /\ ~store.stray
        /\ anchor' = caller[c].rows /\ Goto(c, "clearOld")
        /\ UNCHANGED <<journal, torn, pending, store, lock, restored, acked, troubles>>
        /\ pending # None /\ caller[c].rows = Successor(pending) /\ anchor = pending.old
        /\ ~restored => Ended(pending)
        /\ pending \in Pending /\ caller[c] \in Call
    BY DEF NInv, FinishAnchor, At, StoreInv, TypeOK, RecoveryInv
  <1>1. /\ caller' \in [Callers -> Call] /\ caller'[c].pc = "clearOld"
        /\ caller'[c].said = caller[c].said /\ caller'[c].rows = caller[c].rows
        /\ \A d \in Callers \ {c} : caller'[d] = caller[d]
    BY <1>0, GoneOn DEF Recovery
  <1>2. Successor(pending) # pending.old /\ Successor(pending) \in Seq(Row)
    BY <1>0, Appended DEF Successor, Pending
  <1>3. Committed' = Committed
    BY <1>0, <1>2 DEF Committed, Successor
  <1>4. RecoveryInv(c)' /\ AppendingInv(c)'
    BY <1>0, <1>1 DEF RecoveryInv, AppendingInv, At, Appending, Successor, Ended
  <1>5. StoreInv' /\ LockInv' /\ \A d \in Callers \ {c} : RecoveryInv(d)' /\ AppendingInv(d)'
    BY <1>0, <1>1, LockKept, StoreKept
  <1>6. Readable(Committed)' /\ AckedIsKept'
    BY <1>0, <1>3, LogKept
  <1>7. TypeOK'
    BY <1>0, <1>1, <1>2 DEF TypeOK
  <1>8. FilesInv'
    BY <1>0 DEF NInv, FilesInv, Successor, Ended, Begun
  <1> QED
    BY <1>3, <1>4, <1>5, <1>6, <1>7, <1>8 DEF NInv

\* The finished record goes.
LEMMA ClearFinishedStep ==
  ASSUME NInv, NEW c \in Callers, ClearFinished(c)
  PROVE  NInv' /\ Committed' = Committed
  <1>0. /\ TypeOK /\ At(c, "clearOld") /\ ~At(c, "idle") /\ ~store.stray
        /\ pending' = None /\ Goto(c, "check")
        /\ UNCHANGED <<journal, torn, anchor, store, lock, restored, acked, troubles>>
        /\ pending # None /\ caller[c].rows = Successor(pending) /\ anchor = Successor(pending)
        /\ ~restored => Ended(pending)
        /\ pending \in Pending /\ caller[c] \in Call
    BY DEF NInv, ClearFinished, At, StoreInv, TypeOK, RecoveryInv
  <1>1. /\ caller' \in [Callers -> Call] /\ caller'[c].pc = "check"
        /\ caller'[c].said = caller[c].said /\ caller'[c].rows = caller[c].rows
        /\ \A d \in Callers \ {c} : caller'[d] = caller[d]
    BY <1>0, GoneOn DEF Recovery
  <1>2. Successor(pending) # pending.old
    BY <1>0, Appended DEF Successor, Pending
  <1>3. Committed' = Committed
    BY <1>0, <1>2 DEF Committed
  <1>4. RecoveryInv(c)' /\ AppendingInv(c)'
    BY <1>0, <1>1 DEF RecoveryInv, AppendingInv, At, Appending
  <1>5. StoreInv' /\ LockInv' /\ \A d \in Callers \ {c} : RecoveryInv(d)' /\ AppendingInv(d)'
    BY <1>0, <1>1, LockKept, StoreKept
  <1>6. Readable(Committed)' /\ AckedIsKept'
    BY <1>0, <1>3, LogKept
  <1>7. TypeOK'
    BY <1>0, <1>1 DEF TypeOK
  <1>8. FilesInv'
    BY <1>0 DEF NInv, FilesInv, Successor, Ended
  <1> QED
    BY <1>3, <1>4, <1>5, <1>6, <1>7, <1>8 DEF NInv

\* Anchor and journal are compared; a read is answered.
LEMMA CheckStep ==
  ASSUME NInv, NEW c \in Callers, Check(c)
  PROVE  NInv' /\ Committed' = Committed
  <1>0. /\ TypeOK /\ At(c, "check") /\ ~At(c, "idle") /\ ~store.stray
        /\ UNCHANGED <<files, restored, acked, troubles>>
        /\ caller[c] \in Call /\ pending = None
        /\ ~restored => anchor = caller[c].rows
    BY DEF NInv, Check, At, StoreInv, TypeOK, RecoveryInv
  <1>1. CASE anchor # caller[c].rows
    <2>1. Damaged(c)
      BY <1>1 DEF Check
    <2> QED
      BY <1>0, <1>1, <2>1, DamagedStep
  <1>2. CASE anchor = caller[c].rows /\ caller[c].request = None
    <2>1. Answer(c, "read", caller[c].rows)
      BY <1>2 DEF Check
    <2>2. "read" \in Answers /\ caller[c].rows \in Seq(Row) /\ troubles' \in Nat
      BY <1>0 DEF Answers, Call, TypeOK
    <2> QED
      BY <1>0, <2>1, <2>2, ReturnStep DEF files
  <1>3. CASE anchor = caller[c].rows /\ caller[c].request # None
    <2>1. Goto(c, "decide") /\ UNCHANGED lock /\ caller[c].request \in Requests
      BY <1>0, <1>3 DEF Check, Call
    <2>2. /\ caller' \in [Callers -> Call] /\ caller'[c].pc = "decide"
          /\ caller'[c].said = caller[c].said /\ caller'[c].rows = caller[c].rows
          /\ caller'[c].request = caller[c].request
          /\ \A d \in Callers \ {c} : caller'[d] = caller[d]
      BY <1>0, <2>1, GoneOn DEF Appending
    <2>3. RecoveryInv(c)' /\ AppendingInv(c)'
      BY <1>0, <1>3, <2>1, <2>2 DEF RecoveryInv, AppendingInv, At, Appending, files
    <2> QED
      BY <1>0, <2>1, <2>2, <2>3, QuietStep
  <1> QED
    BY <1>1, <1>2, <1>3
-----------------------------------------------------------------------------
(* append() and tombstone().                                                      *)

\* An answered call of append(): the files are left alone.
LEMMA AnswerStep ==
  ASSUME NInv, NEW c \in Callers, ~At(c, "idle"), NEW said \in Answers \ {"damaged"},
         NEW known \in Seq(Row), Answer(c, said, known),
         UNCHANGED <<files, restored, acked, troubles>>
  PROVE  NInv' /\ Committed' = Committed
  <1>1. troubles' \in Nat
    BY DEF NInv, TypeOK
  <1> QED
    BY <1>1, ReturnStep DEF files

\* The request is a replay, refused, or a row to append.
LEMMA DecideStep ==
  ASSUME NInv, NEW c \in Callers, Decide(c)
  PROVE  NInv' /\ Committed' = Committed
  <1>0. /\ TypeOK /\ At(c, "decide") /\ ~At(c, "idle") /\ ~store.stray
        /\ UNCHANGED <<files, restored, acked, troubles>>
        /\ caller[c] \in Call /\ pending = None /\ anchor = caller[c].rows
        /\ caller[c].request \in Requests
    BY DEF NInv, Decide, At, StoreInv, TypeOK, AppendingInv, Appending
  <1>1. PICK request : request = caller[c].request
    OBVIOUS
  <1>2. PICK rows : rows = caller[c].rows
    OBVIOUS
  <1>3. /\ rows \in Seq(Row) /\ caller[c].known \in Seq(Row)
        /\ {"replayed", "refused", "conflict"} \subseteq Answers \ {"damaged"}
    BY <1>0, <1>2 DEF Call, Answers
  <1>4. CASE Recorded(rows, request)
    <2>0. Promise!Used(rows, request.key)
      BY <1>4 DEF Recorded, Promise!Used, Promise!RowOf
    <2>1. Answer(c, "replayed", rows)
      BY <1>1, <1>2, <1>4, <2>0 DEF Decide
    <2> QED
      BY <1>0, <1>3, <2>1, AnswerStep
  <1>5. CASE Promise!Used(rows, request.key) /\ ~Recorded(rows, request)
    <2>1. Answer(c, "refused", rows)
      BY <1>1, <1>2, <1>5 DEF Decide
    <2> QED
      BY <1>0, <1>3, <2>1, AnswerStep
  <1>6. CASE ~Recorded(rows, request) /\ ~Promise!Used(rows, request.key) /\ caller[c].known # rows
    <2>1. Answer(c, "conflict", caller[c].known)
      BY <1>1, <1>2, <1>6 DEF Decide
    <2> QED
      BY <1>0, <1>3, <2>1, AnswerStep
  <1>7. CASE /\ ~Recorded(rows, request) /\ ~Promise!Used(rows, request.key)
             /\ caller[c].known = rows
             /\ (Len(rows) >= MaxRecords \/ ~Promise!Allowed(rows, request))
    <2>1. Answer(c, "refused", rows)
      BY <1>1, <1>2, <1>7 DEF Decide
    <2> QED
      BY <1>0, <1>3, <2>1, AnswerStep
  <1>8. CASE /\ ~Recorded(rows, request) /\ ~Promise!Used(rows, request.key)
             /\ caller[c].known = rows
             /\ ~(Len(rows) >= MaxRecords \/ ~Promise!Allowed(rows, request))
    <2>1. PICK pc : pc = IF request.blob = NoBlob THEN "pend" ELSE "store"
      OBVIOUS
    <2>2. Goto(c, pc) /\ UNCHANGED lock
      BY <1>1, <1>2, <1>8, <2>1 DEF Decide
    <2>3. pc \in {"pend", "store"} /\ (pc = "pend" <=> request.blob = NoBlob)
      BY <2>1
    <2>4. /\ caller' \in [Callers -> Call] /\ caller'[c].pc = pc
          /\ caller'[c].said = caller[c].said /\ caller'[c].rows = caller[c].rows
          /\ caller'[c].request = caller[c].request
          /\ \A d \in Callers \ {c} : caller'[d] = caller[d]
      BY <1>0, <2>2, <2>3, GoneOn DEF Appending
    <2>5. RecoveryInv(c)' /\ AppendingInv(c)'
      BY <1>0, <1>1, <1>2, <1>8, <2>3, <2>4 DEF RecoveryInv, AppendingInv, At, Appending, files
    <2> QED
      BY <1>0, <2>2, <2>3, <2>4, <2>5, QuietStep
  <1> QED
    BY <1>4, <1>5, <1>6, <1>7, <1>8

\* What a call knows of its request while it places the attachment.
LEMMA PlacingFacts ==
  ASSUME NInv, NEW c \in Callers, caller[c].pc \in {"store", "place"}
  PROVE  /\ TypeOK /\ ~At(c, "idle") /\ caller[c] \in Call
         /\ pending = None /\ anchor = caller[c].rows /\ caller[c].rows \in Seq(Row)
         /\ caller[c].request \in Requests /\ caller[c].request.blob \in Blobs
         /\ caller[c].request.blob # NoBlob
         /\ ~Promise!Used(caller[c].rows, caller[c].request.key)
         /\ Promise!Allowed(caller[c].rows, caller[c].request)
  <1>1. /\ TypeOK /\ ~At(c, "idle") /\ caller[c] \in Call
        /\ pending = None /\ anchor = caller[c].rows
        /\ caller[c].request \in Requests
        /\ caller[c].request.blob # NoBlob
        /\ ~Promise!Used(caller[c].rows, caller[c].request.key)
        /\ Promise!Allowed(caller[c].rows, caller[c].request)
    BY DEF NInv, At, TypeOK, AppendingInv, Appending
  <1>2. caller[c].rows \in Seq(Row)
    BY <1>1 DEF Call
  <1> QED
    BY <1>1, <1>2, BlobOfRequest

\* Before the row is announced nothing of the log moves but the store of attachments.
LEMMA BlobStep ==
  ASSUME NInv, NEW c \in Callers, caller[c].pc \in {"store", "place"},
         NEW pc \in {"place", "pend"}, Goto(c, pc),
         UNCHANGED <<journal, torn, anchor, pending, lock, restored, acked, troubles>>,
         store' \in [blobs : SUBSET Blobs, stray : BOOLEAN], store.blobs \subseteq store'.blobs,
         store'.stray <=> pc = "place",
         pc = "pend" => caller[c].request.blob \in store'.blobs
  PROVE  NInv' /\ Committed' = Committed
  <1>0. /\ TypeOK /\ ~At(c, "idle") /\ caller[c] \in Call
        /\ pending = None /\ anchor = caller[c].rows /\ caller[c].rows \in Seq(Row)
        /\ caller[c].request \in Requests
        /\ caller[c].request.blob # NoBlob
        /\ ~Promise!Used(caller[c].rows, caller[c].request.key)
        /\ Promise!Allowed(caller[c].rows, caller[c].request)
    BY PlacingFacts
  <1>1. /\ caller' \in [Callers -> Call] /\ caller'[c].pc = pc
        /\ caller'[c].said = caller[c].said /\ caller'[c].rows = caller[c].rows
        /\ caller'[c].request = caller[c].request
        /\ \A d \in Callers \ {c} : caller'[d] = caller[d]
    BY <1>0, GoneOn DEF Appending
  <1>2. RecoveryInv(c)' /\ AppendingInv(c)'
    BY <1>0, <1>1 DEF RecoveryInv, AppendingInv, At, Appending
  <1>3. Committed' = Committed
    BY DEF Committed, Successor
  <1>4. LockInv' /\ \A d \in Callers \ {c} : RecoveryInv(d)' /\ AppendingInv(d)'
    BY <1>0, <1>1, LockKept
  <1>5. Readable(Committed)' /\ AckedIsKept'
    BY <1>3, LogKept
  <1>6. StoreInv'
    <2>1. \A d \in Callers \ {c} : caller[d].pc = "idle"
      BY <1>0, Alone
    <2>2. \A d \in Callers : caller[d].said = "damaged" => restored
      BY DEF NInv, StoreInv, At
    <2> QED
      BY <1>1, <2>1, <2>2 DEF StoreInv, At
  <1>7. TypeOK' /\ FilesInv'
    BY <1>0, <1>1 DEF NInv, TypeOK, FilesInv
  <1> QED
    BY <1>2, <1>3, <1>4, <1>5, <1>6, <1>7 DEF NInv

\* A temporary file is written, unless the attachment is there.
LEMMA StoreStep ==
  ASSUME NInv, NEW c \in Callers, Store(c)
  PROVE  NInv' /\ Committed' = Committed
  <1>0. /\ At(c, "store") /\ caller[c].pc = "store" /\ ~store.stray
        /\ UNCHANGED <<journal, torn, anchor, pending, restored, acked, troubles>>
        /\ store \in [blobs : SUBSET Blobs, stray : BOOLEAN]
    BY DEF NInv, Store, At, StoreInv, TypeOK
  <1>1. TypeOK /\ ~At(c, "idle") /\ caller[c].rows \in Seq(Row)
    BY <1>0, PlacingFacts
  <1>2. CASE Cardinality(store.blobs \union {caller[c].request.blob}) > MaxBlobs
    <2>1. Answer(c, "refused", caller[c].rows) /\ UNCHANGED store
      BY <1>0, <1>2 DEF Store
    <2>2. "refused" \in Answers \ {"damaged"} /\ UNCHANGED files
      BY <1>0, <2>1 DEF Answers, files
    <2> QED
      BY <1>0, <1>1, <2>1, <2>2, AnswerStep
  <1>3. CASE /\ ~(Cardinality(store.blobs \union {caller[c].request.blob}) > MaxBlobs)
             /\ caller[c].request.blob \in store.blobs
    <2>1. Goto(c, "pend") /\ UNCHANGED <<store, lock>>
      BY <1>0, <1>3 DEF Store
    <2> QED
      BY <1>0, <1>3, <2>1, BlobStep
  <1>4. CASE /\ ~(Cardinality(store.blobs \union {caller[c].request.blob}) > MaxBlobs)
             /\ caller[c].request.blob \notin store.blobs
    <2>1. store' = [store EXCEPT !.stray = TRUE] /\ Goto(c, "place") /\ UNCHANGED lock
      BY <1>0, <1>4 DEF Store
    <2>2. /\ store' \in [blobs : SUBSET Blobs, stray : BOOLEAN]
          /\ store'.blobs = store.blobs /\ store'.stray
      BY <1>0, <2>1
    <2> QED
      BY <1>0, <2>1, <2>2, BlobStep
  <1> QED
    BY <1>2, <1>3, <1>4

\* The temporary file becomes the attachment.
LEMMA PlaceStep ==
  ASSUME NInv, NEW c \in Callers, Place(c)
  PROVE  NInv' /\ Committed' = Committed
  <1>0. /\ caller[c].pc = "place" /\ Goto(c, "pend")
        /\ store' = [blobs |-> store.blobs \union {caller[c].request.blob}, stray |-> FALSE]
        /\ UNCHANGED <<journal, torn, anchor, pending, lock, restored, acked, troubles>>
    BY DEF Place, At
  <1>1. TypeOK /\ caller[c].request.blob \in Blobs
    BY <1>0, PlacingFacts
  <1>2. /\ store' \in [blobs : SUBSET Blobs, stray : BOOLEAN]
        /\ store.blobs \subseteq store'.blobs /\ ~store'.stray
        /\ caller[c].request.blob \in store'.blobs
    BY <1>0, <1>1 DEF TypeOK
  <1> QED
    BY <1>0, <1>2, BlobStep
\* What a call knows of the row it writes.
LEMMA WritingFacts ==
  ASSUME NInv, NEW c \in Callers, caller[c].pc \in {"pend", "write", "rest", "anchor", "clear"}
  PROVE  /\ TypeOK /\ ~At(c, "idle") /\ caller[c] \in Call /\ ~store.stray
         /\ caller[c].rows \in Seq(Row) /\ caller[c].request \in Requests
         /\ NewRow(c) \in Row
  <1>1. TypeOK /\ ~At(c, "idle") /\ caller[c] \in Call /\ ~store.stray
        /\ caller[c].request \in Requests
    BY DEF NInv, At, TypeOK, StoreInv, AppendingInv, Appending
  <1>2. caller[c].rows \in Seq(Row)
    BY <1>1 DEF Call
  <1>3. NewRow(c) \in Row
    BY <1>1, <1>2, LenProperties, BlobOfRequest, RowOfRequest DEF NewRow
  <1> QED
    BY <1>1, <1>2, <1>3

\* A call that writes its row and stays under way keeps everything but the files.
LEMMA WritingStep ==
  ASSUME NInv, NEW c \in Callers, caller[c].pc \in {"pend", "write", "rest", "anchor", "clear"},
         NEW pc \in {"write", "rest", "anchor", "clear"}, Goto(c, pc),
         UNCHANGED <<store, lock, restored, troubles>>
  PROVE  /\ caller' \in [Callers -> Call] /\ caller'[c].pc = pc
         /\ caller'[c].rows = caller[c].rows /\ caller'[c].request = caller[c].request
         /\ NewRow(c)' = NewRow(c)
         /\ LockInv' /\ StoreInv'
         /\ \A d \in Callers \ {c} : RecoveryInv(d)' /\ AppendingInv(d)'
         /\ RecoveryInv(c)'
  <1>0. TypeOK /\ ~At(c, "idle") /\ ~store.stray
    BY WritingFacts
  <1>1. /\ caller' \in [Callers -> Call] /\ caller'[c].pc = pc
        /\ caller'[c].said = caller[c].said /\ caller'[c].rows = caller[c].rows
        /\ caller'[c].request = caller[c].request
        /\ \A d \in Callers \ {c} : caller'[d] = caller[d]
    BY <1>0, GoneOn DEF Appending
  <1>2. /\ LockInv' /\ StoreInv'
        /\ \A d \in Callers \ {c} : RecoveryInv(d)' /\ AppendingInv(d)'
    BY <1>0, <1>1, LockKept, StoreKept
  <1>3. RecoveryInv(c)' /\ NewRow(c)' = NewRow(c)
    BY <1>1 DEF RecoveryInv, At, NewRow, Promise!RowOf
  <1> QED
    BY <1>1, <1>2, <1>3

\* The pending record announces the row: this is where the log grows.
LEMMA PendStep ==
  ASSUME NInv, NEW c \in Callers, Pend(c)
  PROVE  NInv' /\ Promise!Write(caller[c].request)
  <1>1. /\ caller[c].pc = "pend" /\ pending = None /\ anchor = caller[c].rows
        /\ UNCHANGED <<journal, torn, anchor, store, restored, acked, troubles>>
        /\ caller[c].request.blob \in store.blobs \union {NoBlob}
        /\ ~Promise!Used(caller[c].rows, caller[c].request.key)
        /\ Promise!Allowed(caller[c].rows, caller[c].request)
    BY DEF Pend, At, NInv, AppendingInv
  <1>2. /\ pending' = [old |-> anchor, prefix |-> journal, row |-> NewRow(c)]
        /\ Goto(c, "write") /\ UNCHANGED lock
    BY <1>1 DEF Pend
  <1>3. /\ TypeOK /\ caller[c].rows \in Seq(Row) /\ caller[c].request \in Requests
        /\ NewRow(c) \in Row
    BY <1>1, WritingFacts
  <1>4. /\ caller' \in [Callers -> Call] /\ caller'[c].pc = "write"
        /\ caller'[c].rows = caller[c].rows /\ caller'[c].request = caller[c].request
        /\ NewRow(c)' = NewRow(c)
        /\ LockInv' /\ StoreInv'
        /\ \A d \in Callers \ {c} : RecoveryInv(d)' /\ AppendingInv(d)'
        /\ RecoveryInv(c)'
    BY <1>1, <1>2, WritingStep
  <1>5. PICK log : log = Committed
    OBVIOUS
  <1>6. /\ log = caller[c].rows /\ log \in Seq(Row) /\ Readable(log)
        /\ NewRow(c) = Promise!RowOf(caller[c].request, Len(log) + 1)
    BY <1>1, <1>3, <1>5 DEF Committed, NInv, NewRow
  <1>7. pending' \in Pending /\ pending' # None
    <2>1. pending' \in Pending
      BY <1>2, <1>3 DEF TypeOK, Pending
    <2> QED
      BY <2>1, NoneAssumption
  <1>8. Committed' = Append(log, NewRow(c))
    BY <1>1, <1>2, <1>6, <1>7 DEF Committed, Successor
  <1>9. Readable(log)' /\ Readable(Append(log, NewRow(c)))
    <2>1. /\ NewRow(c).rev = Len(log) + 1
          /\ NewRow(c).key = caller[c].request.key /\ NewRow(c).blob = caller[c].request.blob
          /\ Promise!Allowed(log, NewRow(c)) <=> Promise!Allowed(log, caller[c].request)
      BY <1>6, AllowedRow
    <2>2. Readable(Append(log, NewRow(c)))
      BY <1>1, <1>3, <1>6, <2>1, ReadableAppended
    <2> QED
      BY <1>1, <1>6, <2>2, ReadableLater
  <1>10. Readable(Committed)' /\ AckedIsKept'
    <2>1. Readable(Committed)'
      BY <1>1, <1>8, <1>9 DEF Readable
    <2>2. /\ Len(log) \in Nat /\ Len(Append(log, NewRow(c))) = Len(log) + 1
          /\ \A i \in 1..Len(log) : Append(log, NewRow(c))[i] = log[i]
      BY <1>3, <1>6, Appended
    <2>3. \A row \in acked : \E i \in 1..Len(log) : log[i] = row
      BY <1>5 DEF NInv, AckedIsKept
    <2>4. AckedIsKept'
      BY <1>1, <1>8, <2>2, <2>3 DEF AckedIsKept
    <2> QED
      BY <2>1, <2>4
  <1>11. AppendingInv(c)'
    BY <1>1, <1>2, <1>3, <1>4, <1>7 DEF AppendingInv, At, NInv, FilesInv
  <1>12. TypeOK' /\ FilesInv'
    <2>1. TypeOK'
      BY <1>1, <1>3, <1>2, <1>4, <1>7 DEF TypeOK
    <2>2. FilesInv'
      BY <1>1, <1>2, <1>7 DEF NInv, FilesInv, Begun
    <2> QED
      BY <2>1, <2>2
  <1>13. Promise!Write(caller[c].request)
    BY <1>1, <1>5, <1>6, <1>8 DEF Promise!Write
  <1> QED
    BY <1>4, <1>10, <1>11, <1>12, <1>13 DEF NInv

\* What a call knows of the files while its row is announced.
LEMMA AnnouncedFacts ==
  ASSUME NInv, NEW c \in Callers, caller[c].pc \in {"write", "rest", "anchor", "clear"}
  PROVE  /\ pending # None /\ pending \in Pending /\ pending.row = NewRow(c)
         /\ pending.old = caller[c].rows /\ Successor(pending) = Append(caller[c].rows, NewRow(c))
         /\ anchor = IF caller[c].pc = "clear" THEN Successor(pending) ELSE caller[c].rows
         /\ Successor(pending) \in Seq(Row) /\ Successor(pending) # pending.old
         /\ Committed = Successor(pending)
         /\ ~restored => pending.prefix = pending.old
  <1>1. /\ pending # None /\ pending \in Pending /\ pending.row = NewRow(c)
        /\ pending.old = caller[c].rows
        /\ anchor = IF caller[c].pc = "clear" THEN Successor(pending) ELSE caller[c].rows
        /\ ~restored => pending.prefix = pending.old
    BY DEF NInv, AppendingInv, TypeOK, FilesInv, At
  <1>2. /\ Successor(pending) = Append(caller[c].rows, NewRow(c))
        /\ Successor(pending) \in Seq(Row) /\ Successor(pending) # pending.old
    BY <1>1, Appended DEF Successor, Pending
  <1>3. Committed = Successor(pending)
    BY <1>1, <1>2 DEF Committed
  <1> QED
    BY <1>1, <1>2, <1>3

\* A part of the row reaches the journal.
LEMMA WriteSomeStep ==
  ASSUME NInv, NEW c \in Callers, WriteSome(c)
  PROVE  NInv' /\ Committed' = Committed
  <1>1. /\ caller[c].pc = "write" /\ torn' = NewRow(c) /\ Goto(c, "rest")
        /\ UNCHANGED <<journal, anchor, pending, store, lock, restored, acked, troubles>>
        /\ ~restored => journal = pending.prefix /\ torn = None
    BY DEF WriteSome, At, NInv, AppendingInv
  <1>2. /\ TypeOK /\ caller[c].request \in Requests /\ NewRow(c) \in Row
    BY <1>1, WritingFacts
  <1>3. /\ caller' \in [Callers -> Call] /\ caller'[c].pc = "rest"
        /\ caller'[c].rows = caller[c].rows /\ caller'[c].request = caller[c].request
        /\ NewRow(c)' = NewRow(c)
        /\ LockInv' /\ StoreInv'
        /\ \A d \in Callers \ {c} : RecoveryInv(d)' /\ AppendingInv(d)'
        /\ RecoveryInv(c)'
    BY <1>1, WritingStep
  <1>4. /\ pending # None /\ pending.row = NewRow(c)
        /\ pending.old = caller[c].rows /\ anchor = caller[c].rows
        /\ ~restored => pending.prefix = pending.old
    BY <1>1, AnnouncedFacts
  <1>5. AppendingInv(c)'
    BY <1>1, <1>2, <1>3, <1>4 DEF AppendingInv, At
  <1>6. Committed' = Committed
    BY <1>1 DEF Committed, Successor
  <1>7. Readable(Committed)' /\ AckedIsKept'
    BY <1>1, <1>6, LogKept
  <1>8. TypeOK'
    BY <1>1, <1>2, <1>3 DEF TypeOK
  <1>9. FilesInv'
    BY <1>1, <1>4 DEF FilesInv, Begun
  <1> QED
    BY <1>3, <1>5, <1>6, <1>7, <1>8, <1>9 DEF NInv

\* The rest of it: the journal has the row.
LEMMA WriteRestStep ==
  ASSUME NInv, NEW c \in Callers, WriteRest(c)
  PROVE  NInv' /\ Committed' = Committed
  <1>1. /\ caller[c].pc = "rest" /\ Goto(c, "anchor")
        /\ journal' = Append(journal, NewRow(c)) /\ torn' = None
        /\ UNCHANGED <<anchor, pending, store, lock, restored, acked, troubles>>
        /\ ~restored => journal = pending.prefix
    BY DEF WriteRest, At, NInv, AppendingInv
  <1>2. /\ TypeOK /\ caller[c].request \in Requests /\ NewRow(c) \in Row
    BY <1>1, WritingFacts
  <1>3. /\ caller' \in [Callers -> Call] /\ caller'[c].pc = "anchor"
        /\ caller'[c].rows = caller[c].rows /\ caller'[c].request = caller[c].request
        /\ NewRow(c)' = NewRow(c)
        /\ LockInv' /\ StoreInv'
        /\ \A d \in Callers \ {c} : RecoveryInv(d)' /\ AppendingInv(d)'
        /\ RecoveryInv(c)'
    BY <1>1, WritingStep
  <1>4. /\ pending # None /\ pending.row = NewRow(c)
        /\ pending.old = caller[c].rows /\ anchor = caller[c].rows
        /\ ~restored => pending.prefix = pending.old
    BY <1>1, AnnouncedFacts
  <1>5. ~restored => Ended(pending)'
    BY <1>1, <1>4 DEF Ended
  <1>6. AppendingInv(c)'
    BY <1>1, <1>2, <1>3, <1>4, <1>5 DEF AppendingInv, At
  <1>7. Committed' = Committed
    BY <1>1 DEF Committed, Successor
  <1>8. Readable(Committed)' /\ AckedIsKept'
    BY <1>1, <1>7, LogKept
  <1>9. TypeOK'
    BY <1>1, <1>2, <1>3, Appended DEF TypeOK
  <1>10. FilesInv'
    BY <1>1, <1>4, <1>5 DEF FilesInv
  <1> QED
    BY <1>3, <1>6, <1>7, <1>8, <1>9, <1>10 DEF NInv

\* The anchor follows.
LEMMA WriteAnchorStep ==
  ASSUME NInv, NEW c \in Callers, WriteAnchor(c)
  PROVE  NInv' /\ Committed' = Committed
  <1>1. /\ caller[c].pc = "anchor"
        /\ UNCHANGED <<journal, torn, pending, store, restored, acked, troubles>>
        /\ ~restored => Ended(pending)
    BY DEF WriteAnchor, At, NInv, AppendingInv
  <1>2. /\ TypeOK /\ caller[c].request \in Requests /\ NewRow(c) \in Row
    BY <1>1, WritingFacts
  <1>3. /\ pending # None /\ pending.row = NewRow(c)
        /\ pending.old = caller[c].rows /\ anchor = caller[c].rows
        /\ Successor(pending) = Append(caller[c].rows, NewRow(c))
        /\ Successor(pending) \in Seq(Row) /\ Successor(pending) # pending.old
        /\ Committed = Successor(pending)
        /\ ~restored => pending.prefix = pending.old
    BY <1>1, AnnouncedFacts
  <1>4. anchor' = Successor(pending) /\ Goto(c, "clear") /\ UNCHANGED lock
    BY <1>3 DEF WriteAnchor
  <1>5. /\ caller' \in [Callers -> Call] /\ caller'[c].pc = "clear"
        /\ caller'[c].rows = caller[c].rows /\ caller'[c].request = caller[c].request
        /\ NewRow(c)' = NewRow(c)
        /\ LockInv' /\ StoreInv'
        /\ \A d \in Callers \ {c} : RecoveryInv(d)' /\ AppendingInv(d)'
        /\ RecoveryInv(c)'
    BY <1>1, <1>4, WritingStep
  <1>6. Successor(pending)' = Successor(pending) /\ (~restored => Ended(pending)')
    BY <1>1 DEF Successor, Ended
  <1>7. AppendingInv(c)'
    BY <1>1, <1>2, <1>3, <1>4, <1>5, <1>6 DEF AppendingInv, At
  <1>8. Committed' = Committed
    BY <1>1, <1>3, <1>4, <1>6 DEF Committed
  <1>9. Readable(Committed)' /\ AckedIsKept'
    BY <1>1, <1>8, LogKept
  <1>10. TypeOK'
    BY <1>1, <1>2, <1>3, <1>4, <1>5 DEF TypeOK
  <1>11. FilesInv'
    BY <1>1, <1>3, <1>4, <1>6 DEF FilesInv
  <1> QED
    BY <1>5, <1>7, <1>8, <1>9, <1>10, <1>11 DEF NInv

\* The pending record goes and the caller has its answer, which names a row of the log.
LEMMA ClearPendingStep ==
  ASSUME NInv, NEW c \in Callers, ClearPending(c)
  PROVE  NInv' /\ Committed' = Committed
  <1>1. /\ caller[c].pc = "clear" /\ pending' = None /\ acked' = acked \union {NewRow(c)}
        /\ Answer(c, "recorded", Append(caller[c].rows, NewRow(c)))
        /\ UNCHANGED <<journal, torn, anchor, store, restored, troubles>>
        /\ ~restored => Ended(pending)
    BY DEF ClearPending, At, NInv, AppendingInv
  <1>2. /\ TypeOK /\ ~At(c, "idle") /\ caller[c].rows \in Seq(Row) /\ NewRow(c) \in Row
        /\ ~store.stray
    BY <1>1, WritingFacts
  <1>3. /\ pending.row = NewRow(c) /\ pending.old = caller[c].rows
        /\ anchor = Successor(pending) /\ Successor(pending) = Append(caller[c].rows, NewRow(c))
        /\ Committed = Successor(pending)
        /\ ~restored => pending.prefix = pending.old
    BY <1>1, AnnouncedFacts
  <1>4. Committed' = Committed
    BY <1>1, <1>3 DEF Committed
  <1>5. /\ caller' \in [Callers -> Call] /\ caller'[c].pc = "idle" /\ caller'[c].said = "recorded"
        /\ \A d \in Callers \ {c} : caller'[d] = caller[d]
        /\ lock' = Nobody
    <2>1. "recorded" \in Answers /\ Append(caller[c].rows, NewRow(c)) \in Seq(Row)
      BY <1>2, Appended DEF Answers
    <2> QED
      BY <1>1, <1>2, <2>1, Answered
  <1>6. \A d \in Callers : caller'[d].pc = "idle"
    BY <1>2, <1>5, Alone
  <1>7. LockInv' /\ \A d \in Callers : RecoveryInv(d)' /\ AppendingInv(d)'
    <2>1. LockInv'
      BY <1>5, <1>6, CallersAssumption DEF LockInv, At
    <2>2. \A d \in Callers : RecoveryInv(d)' /\ AppendingInv(d)'
      BY <1>6 DEF RecoveryInv, AppendingInv, At, Appending
    <2> QED
      BY <2>1, <2>2
  <1>8. StoreInv'
    <2>1. \A d \in Callers : caller'[d].said = "damaged" => restored'
      BY <1>1, <1>2, <1>5 DEF NInv, StoreInv
    <2> QED
      BY <1>6, <2>1 DEF StoreInv, At
  <1>9. Readable(Committed)' /\ AckedIsKept'
    <2>1. PICK log : log = Committed
      OBVIOUS
    <2>2. Readable(log)' /\ Readable(Committed)'
      BY <1>1, <1>4, <2>1, ReadableLater DEF NInv
    <2>3. /\ Len(log) \in Nat /\ Len(log) = Len(caller[c].rows) + 1
          /\ Len(caller[c].rows) \in Nat /\ log[Len(caller[c].rows) + 1] = NewRow(c)
      BY <1>2, <1>3, <2>1, Appended
    <2>4. \A row \in acked : \E i \in 1..Len(log) : log[i] = row
      BY <2>1 DEF NInv, AckedIsKept
    <2>5. \E i \in 1..Len(log) : log[i] = NewRow(c)
      BY <2>3
    <2>6. AckedIsKept'
      BY <1>1, <1>4, <2>1, <2>4, <2>5 DEF AckedIsKept
    <2> QED
      BY <2>2, <2>6
  <1>10. TypeOK'
    BY <1>1, <1>2, <1>5 DEF TypeOK
  <1>11. FilesInv'
    BY <1>1, <1>3 DEF FilesInv, Ended, Successor
  <1> QED
    BY <1>4, <1>7, <1>8, <1>9, <1>10, <1>11 DEF NInv
-----------------------------------------------------------------------------
(* Failures, crashes, and a backup of the project put back.                       *)

\* A call that fails removes its temporary file and leaves the other files as they are.
LEMMA FailStep ==
  ASSUME NInv, NEW c \in Callers, Fail(c)
  PROVE  NInv' /\ Committed' = Committed
  <1>1. /\ ~At(c, "idle") /\ Answer(c, "failed", caller[c].known)
        /\ UNCHANGED <<journal, torn, anchor, pending, restored, acked>>
        /\ store' = [store EXCEPT !.stray = @ /\ ~At(c, "place")]
    BY DEF Fail
  <1>2. troubles' \in Nat /\ caller[c].known \in Seq(Row) /\ "failed" \in Answers
        /\ store \in [blobs : SUBSET Blobs, stray : BOOLEAN]
    BY DEF NInv, TypeOK, Fail, Trouble, Call, Answers
  <1>3. UNCHANGED store \/ (At(c, "place") /\ store' = [store EXCEPT !.stray = FALSE])
    <2>1. CASE At(c, "place")
      BY <1>1, <1>2, <2>1
    <2>2. CASE ~At(c, "place")
      <3>1. [store EXCEPT !.stray = @ /\ ~At(c, "place")] = store
        BY <1>2, <2>2
      <3> QED
        BY <1>1, <3>1
    <2> QED
      BY <2>1, <2>2
  <1> QED
    BY <1>1, <1>2, <1>3, ReturnStep

\* A crash leaves everything as it lies.
LEMMA CrashStep ==
  ASSUME NInv, NEW c \in Callers, Crash(c)
  PROVE  NInv' /\ Committed' = Committed
  <1>1. troubles' \in Nat /\ << >> \in Seq(Row) /\ "nothing" \in Answers
    BY EmptySeq DEF NInv, TypeOK, Crash, Trouble, Answers
  <1> QED
    BY <1>1, ReturnStep DEF Crash, files

\* An older journal is put in place; the anchor, outside the project, is not.
LEMMA RestoreBackupStep ==
  ASSUME NInv, RestoreBackup
  PROVE  NInv' /\ Committed' = Committed
  <1>1. /\ torn' = None /\ restored' = TRUE /\ troubles' = troubles + 1
        /\ UNCHANGED <<anchor, pending, store, lock, caller, acked>>
    BY DEF RestoreBackup, Trouble
  <1>2. PICK n \in 0..Len(journal) : journal' = SubSeq(journal, 1, n)
    BY DEF RestoreBackup
  <1>3. journal' \in Seq(Row)
    <2>1. journal \in Seq(Row) /\ Len(journal) \in Nat
      BY LenProperties DEF NInv, TypeOK
    <2>2. \A i \in 1..n : journal[i] \in Row
      BY <2>1, ElementOfSeq
    <2> QED
      BY <1>2, <2>1, <2>2, SubSeqProperties
  <1>4. Committed' = Committed
    BY <1>1 DEF Committed, Successor
  <1>5. Readable(Committed)' /\ AckedIsKept'
    BY <1>1, <1>4, LogKept
  <1>6. TypeOK'
    BY <1>1, <1>3 DEF NInv, TypeOK
  <1>7. LockInv' /\ StoreInv' /\ FilesInv'
    BY <1>1 DEF NInv, LockInv, StoreInv, FilesInv, At
  <1>8. \A c \in Callers : RecoveryInv(c)' /\ AppendingInv(c)'
    <2>1. ASSUME NEW c \in Callers PROVE RecoveryInv(c)' /\ AppendingInv(c)'
      <3>1. RecoveryInv(c) /\ AppendingInv(c)
        BY DEF NInv
      <3>2. RecoveryInv(c)'
        BY <1>1, <3>1 DEF RecoveryInv, At, Successor
      <3>3. AppendingInv(c)'
        BY <1>1, <3>1 DEF AppendingInv, At, Successor, NewRow
      <3> QED
        BY <3>2, <3>3
    <2> QED
      BY <2>1
  <1> QED
    BY <1>4, <1>5, <1>6, <1>7, <1>8 DEF NInv

-----------------------------------------------------------------------------
(* The theorems.                                                                  *)

\* Every step keeps the invariant, and leaves the log alone or writes one row of it.
LEMMA NoteStep ==
  ASSUME NInv, [Next]_vars
  PROVE  NInv' /\ (Committed' = Committed \/ \E request \in Requests : Promise!Write(request))
  <1>1. CASE UNCHANGED vars
    <2>1. Committed' = Committed
      BY <1>1 DEF Committed, Successor, vars, files
    <2>2. Readable(Committed)' /\ AckedIsKept'
      BY <1>1, <2>1, LogKept DEF vars, files
    <2>3. TypeOK' /\ LockInv' /\ StoreInv' /\ FilesInv'
      BY <1>1 DEF NInv, vars, files, TypeOK, LockInv, StoreInv, FilesInv, At, Begun, Ended,
         Successor
    <2>4. \A c \in Callers : RecoveryInv(c)' /\ AppendingInv(c)'
      <3>1. ASSUME NEW c \in Callers PROVE RecoveryInv(c)' /\ AppendingInv(c)'
        <4>1. RecoveryInv(c) /\ AppendingInv(c)
          BY DEF NInv
        <4> QED
          BY <1>1, <4>1 DEF vars, files, RecoveryInv, AppendingInv, At, Ended, Successor, NewRow
      <3> QED
        BY <3>1
    <2> QED
      BY <2>1, <2>2, <2>3, <2>4 DEF NInv
  <1>2. CASE RestoreBackup
    BY <1>2, RestoreBackupStep
  <1>3. ASSUME NEW c \in Callers,
               \/ Read(c) \/ (\E request \in Requests : Start(c, request))
               \/ Fail(c) \/ Crash(c)
        PROVE  NInv' /\ Committed' = Committed
    BY <1>3, StartStep, FailStep, CrashStep DEF Read
  <1>4. ASSUME NEW c \in Callers, Advance(c)
        PROVE  NInv' /\ (Committed' = Committed \/ \E request \in Requests : Promise!Write(request))
    <2>1. CASE Pend(c)
      <3>1. caller[c].request \in Requests
        BY <2>1, WritingFacts DEF Pend, At
      <3> QED
        BY <2>1, <3>1, PendStep
    <2>2. CASE ~Pend(c)
      BY <1>4, <2>2, CheckStoreStep, RecoverStep, ReplayStep, FinishAnchorStep,
         ClearFinishedStep, CheckStep, DecideStep, StoreStep, PlaceStep, WriteSomeStep,
         WriteRestStep, WriteAnchorStep, ClearPendingStep DEF Advance
    <2> QED
      BY <2>1, <2>2
  <1> QED
    BY <1>1, <1>2, <1>3, <1>4 DEF Next

\* An empty notebook.
LEMMA NoteInit == Init => NInv /\ Promise!Init
  <1> SUFFICES ASSUME Init PROVE NInv /\ Promise!Init
    OBVIOUS
  <1>1. /\ journal = <<>> /\ torn = None /\ anchor = <<>> /\ pending = None /\ lock = Nobody
        /\ store = [blobs |-> {}, stray |-> FALSE] /\ restored = FALSE /\ acked = {}
        /\ troubles = 0 /\ caller = [c \in Callers |-> NoCall]
    BY DEF Init
  <1>2. Committed = <<>> /\ Len(<<>>) = 0 /\ <<>> \in Seq(Row)
    BY <1>1, EmptySeq DEF Committed
  <1>3. NoCall \in Call
    BY EmptySeq DEF NoCall, Call, Answers
  <1>4. \A c \in Callers : caller[c].pc = "idle" /\ caller[c].said = "nothing"
    BY <1>1 DEF NoCall
  <1>5. TypeOK
    BY <1>1, <1>2, <1>3 DEF TypeOK
  <1>6. LockInv /\ StoreInv /\ FilesInv /\ AckedIsKept
    BY <1>1, <1>4, CallersAssumption DEF LockInv, StoreInv, FilesInv, AckedIsKept, At
  <1>7. Readable(Committed)
    BY <1>2 DEF Readable
  <1>8. \A c \in Callers : RecoveryInv(c) /\ AppendingInv(c)
    BY <1>4 DEF RecoveryInv, AppendingInv, At, Appending
  <1> QED
    BY <1>2, <1>5, <1>6, <1>7, <1>8 DEF NInv, Promise!Init

\* The invariant holds in every reachable state.
THEOREM Invariance == Spec => []NInv
  <1>1. NInv /\ [Next]_vars => NInv'
    BY NoteStep
  <1> QED
    BY <1>1, NoteInit, PTL DEF Spec

\* Journal, anchor and pending record together are an append-only log of unique requests:
\* the log grows when the pending record is written and at no other step, whichever calls
\* follow one another and whatever crashes, fails or is put back.
THEOREM LogIsAppendOnly == Spec => ImplementsLog
  <1>1. NInv /\ [Next]_vars => [Promise!Next]_Committed
    BY NoteStep DEF Promise!Next
  <1> QED
    BY <1>1, NoteInit, Invariance, PTL DEF Spec, ImplementsLog, Promise!Spec

\* Every attachment a row of the log names lies in the store.
THEOREM AttachmentsAreThere == Spec => []BlobsAreThere
  <1>1. NInv => BlobsAreThere
    BY DEF NInv, BlobsAreThere, Readable
  <1> QED
    BY <1>1, Invariance, PTL

\* No call reports an untouched notebook as damaged.
THEOREM NoAlarmIsFalse == Spec => []NoFalseAlarm
  <1>1. NInv => NoFalseAlarm
    BY DEF NInv, NoFalseAlarm, StoreInv
  <1> QED
    BY <1>1, Invariance, PTL

\* Every row an append() returned is in the log for good.
THEOREM AcknowledgedIsKept == Spec => []AckedIsKept
  <1>1. NInv => AckedIsKept
    BY DEF NInv
  <1> QED
    BY <1>1, Invariance, PTL
=============================================================================
