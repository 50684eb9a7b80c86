-------------------------- MODULE ReportPublishProofs --------------------------
(* Proofs about ReportPublish, for any number of projects, destinations, previews,  *)
(* failures and strangers: what is presented as ready was recorded, and a bundle in *)
(* a destination is never written over.                                             *)
EXTENDS ReportPublish, SequenceTheorems, TLAPS

-----------------------------------------------------------------------------
(* What a step leaves alone.                                                    *)

CallRecord ==
  [pc : Places, project : Projects \union {NoProject}, base : 0 .. MaxSeq,
   content : Contents \union {NoEntry}, dest : Dests \union {NoEntry},
   loaded : Project \union {NoCopy}]

SameProject(p) ==
  history'[p] = history[p] /\ journal'[p] = journal[p] /\ recorded'[p] = recorded[p]

\* As far as a publication that has no lock on the destination minds.
SameDest(d) ==
  /\ \A n \in Seqs : dest[d].files[n] = NoFile => dest'[d].files[n] = NoFile
  /\ \A n \in Seqs : dest[d].claims[n] # NoClaim => dest'[d].claims[n] # NoClaim
  /\ dest[d].other > 0 => dest'[d].other > 0

\* A function on the first numbers is a sequence.
LEMMA Sequence ==
  ASSUME NEW S, NEW n \in Nat, NEW f \in [1 .. n -> S]
  PROVE  f \in Seq(S) /\ Len(f) = n
  <1>1. f \in Seq(S)
    OBVIOUS
  <1> QED
    BY <1>1

\* A publication's revision has a number.
LEMMA NumberInSeqs ==
  ASSUME PInv, NEW c \in Callers, call[c].pc \in InHistory
  PROVE  /\ call[c] \in CallRecord /\ call[c].project \in Projects /\ call[c].content \in Contents
         /\ call[c].dest \in Dests /\ Number(c) \in Seqs /\ BundleOf(c) \in Bundle
         /\ call[c].base \in Nat /\ Progress(c) /\ ProjectInv(call[c].project)
  <1>1. call[c] \in CallRecord /\ Progress(c)
    BY DEF PInv, TypeOK, CallRecord
  <1>2. call[c].pc # "idle"
    BY DEF InHistory
  <1>3. call[c].project \in Projects /\ call[c].content \in Contents /\ call[c].dest \in Dests
        /\ call[c].base < MaxSeq
    BY <1>1, <1>2 DEF Progress
  <1>4. call[c].base \in 0 .. MaxSeq /\ MaxSeq \in Nat
    BY <1>1, BoundsAssumption DEF CallRecord
  <1>5. Number(c) \in Seqs
    BY <1>3, <1>4 DEF Number, Seqs
  <1>6. BundleOf(c) \in Bundle
    BY <1>3, <1>5 DEF BundleOf, Bundle
  <1> QED
    BY <1>1, <1>3, <1>4, <1>5, <1>6 DEF PInv

\* A publication that a step leaves alone, together with its project and destination.
LEMMA ProgressKept ==
  ASSUME PInv, NEW c \in Callers, call'[c] = call[c],
         call[c].pc \in InHistory => SameProject(call[c].project),
         call[c].pc \in InDest => SameDest(call[c].dest)
  PROVE  Progress(c)'
  <1> PICK r : r = call[c]
    OBVIOUS
  <1>1. Progress(c)
    BY DEF PInv
  <1>2. Number(c) = r.base + 1 /\ Number(c)' = r.base + 1
    BY DEF Number
  <1>3. CASE r.pc \notin InHistory
    BY <1>1, <1>3 DEF Progress, InHistory, InDest, HasEntry
  <1>4. CASE r.pc \in InHistory
    <2>1. SameProject(r.project) /\ r.base + 1 \in Seqs
      BY <1>2, <1>4, NumberInSeqs
    <2>2. BundleOf(c)' = BundleOf(c)
      BY DEF BundleOf, Number
    <2>3. r.pc \in HasEntry => BundleAt(r.project, r.base + 1)' = BundleAt(r.project, r.base + 1)
      BY <2>1 DEF BundleAt, SameProject
    <2>4. Named(r.project, r.base + 1)' <=> Named(r.project, r.base + 1)
      BY <2>1 DEF Named, SameProject
    <2>5. r.pc \in InDest => SameDest(r.dest)
      OBVIOUS
    <2> QED
      BY <1>1, <1>2, <1>4, <2>1, <2>2, <2>3, <2>4, <2>5
         DEF Progress, SameProject, SameDest, InDest, HasEntry
  <1> QED
    BY <1>3, <1>4

\* A project that a step leaves alone.
LEMMA ProjectKept ==
  ASSUME NEW p \in Projects, ProjectInv(p), SameProject(p), project'[p] = project[p],
         copy'[p] = copy[p]
  PROVE  ProjectInv(p)'
  BY DEF ProjectInv, SameProject, Revisions, BundleAt

\* One call has moved.
Moved(c, place) ==
  /\ call' \in [Callers -> CallRecord]
  /\ call'[c].pc = place
  /\ \A k \in Callers \ {c} : call'[k] = call[k]

OnSame(c) ==
  call'[c].project = call[c].project /\ call'[c].base = call[c].base
  /\ call'[c].content = call[c].content

LEMMA GoneTo ==
  ASSUME TypeOK, NEW c \in Callers, NEW place \in Places, Goto(c, place)
  PROVE  Moved(c, place) /\ OnSame(c) /\ call'[c].dest = call[c].dest
  <1> DEFINE w == [call[c] EXCEPT !.pc = place]
  <1>1. call \in [Callers -> CallRecord] /\ call[c] \in CallRecord
    BY DEF TypeOK, CallRecord
  <1>2. /\ w \in CallRecord /\ w.pc = place /\ w.project = call[c].project /\ w.base = call[c].base
        /\ w.content = call[c].content /\ w.dest = call[c].dest
    BY <1>1 DEF CallRecord
  <1>3. call' = [call EXCEPT ![c] = w]
    BY DEF Goto
  <1> HIDE DEF w
  <1> QED
    BY <1>1, <1>2, <1>3 DEF Moved, OnSame

LEMMA Ended ==
  ASSUME TypeOK, NEW c \in Callers, End(c)
  PROVE  Moved(c, "idle")
  <1>1. call \in [Callers -> CallRecord] /\ NoCall \in CallRecord /\ NoCall.pc = "idle"
    BY BoundsAssumption DEF TypeOK, CallRecord, NoCall, Places
  <1> QED
    BY <1>1 DEF Moved, End

LEMMA Kept ==
  ASSUME TypeOK, NEW c \in Callers, Keep(c)
  PROVE  Moved(c, "preview") /\ OnSame(c)
  <1> DEFINE w == [call[c] EXCEPT !.pc = "preview", !.dest = NoEntry, !.loaded = NoCopy]
  <1>1. call \in [Callers -> CallRecord] /\ call[c] \in CallRecord
    BY DEF TypeOK, CallRecord
  <1>2. /\ w \in CallRecord /\ w.pc = "preview" /\ w.project = call[c].project
        /\ w.base = call[c].base /\ w.content = call[c].content
    BY <1>1 DEF CallRecord, Places
  <1>3. call' = [call EXCEPT ![c] = w]
    BY DEF Keep
  <1> HIDE DEF w
  <1> QED
    BY <1>1, <1>2, <1>3 DEF Moved, OnSame

\* The locks are kept, or taken when they are free.
LEMMA LocksKept ==
  ASSUME OneAtATime, NEW c \in Callers, NEW place, Moved(c, place),
         place \in InHistory =>
           /\ call[c].pc \in InHistory \/ HistoryFree(call[c].project)
           /\ call'[c].project = call[c].project,
         place \in InDest =>
           /\ call[c].pc \in InDest \/ DestFree(call[c].dest)
           /\ call'[c].dest = call[c].dest
  PROVE  OneAtATime'
  <1>1. ASSUME NEW k \in Callers, k # c, place \in InHistory, call[k].pc \in InHistory
        PROVE  call'[k].project # call'[c].project
    BY <1>1 DEF OneAtATime, HistoryFree, Moved
  <1>2. ASSUME NEW k \in Callers, k # c, place \in InDest, call[k].pc \in InDest
        PROVE  call'[k].dest # call'[c].dest
    BY <1>2 DEF OneAtATime, DestFree, Moved
  <1> QED
    BY <1>1, <1>2 DEF OneAtATime, Moved

\* A step of one call: it changes what it has locked, or finds free.
LEMMA CallStep ==
  ASSUME PInv, NEW c \in Callers, NEW place, Moved(c, place), TypeOK', OneAtATime', Progress(c)',
         \A p \in Projects : ProjectInv(p)',
         \A p \in Projects : \/ SameProject(p)
                             \/ p = call[c].project /\ call[c].pc \in InHistory
                             \/ HistoryFree(p),
         \A d \in Dests : SameDest(d) \/ (d = call[c].dest /\ call[c].pc \in InDest)
  PROVE  PInv'
  <1>1. ASSUME NEW k \in Callers, k # c PROVE Progress(k)'
    <2>1. call'[k] = call[k]
      BY <1>1 DEF Moved
    <2>2. call[k].pc \in InHistory => SameProject(call[k].project)
      <3> SUFFICES ASSUME call[k].pc \in InHistory PROVE SameProject(call[k].project)
        OBVIOUS
      <3>1. call[k].project \in Projects
        BY NumberInSeqs
      <3>2. ~HistoryFree(call[k].project)
        BY DEF HistoryFree
      <3>3. ~(call[k].project = call[c].project /\ call[c].pc \in InHistory)
        BY <1>1 DEF PInv, OneAtATime
      <3> QED
        BY <3>1, <3>2, <3>3
    <2>3. call[k].pc \in InDest => SameDest(call[k].dest)
      <3> SUFFICES ASSUME call[k].pc \in InDest PROVE SameDest(call[k].dest)
        OBVIOUS
      <3>1. call[k].dest \in Dests
        BY NumberInSeqs DEF InDest, InHistory
      <3>2. ~(call[k].dest = call[c].dest /\ call[c].pc \in InDest)
        BY <1>1 DEF PInv, OneAtATime
      <3> QED
        BY <3>1, <3>2
    <2> QED
      BY <2>1, <2>2, <2>3, ProgressKept
  <1> QED
    BY <1>1 DEF PInv

\* A step of nobody's call.
LEMMA OtherStep ==
  ASSUME PInv, call' = call, TypeOK',
         \A p \in Projects : ProjectInv(p)',
         \A p \in Projects : SameProject(p) \/ HistoryFree(p),
         \A d \in Dests : SameDest(d)
  PROVE  PInv'
  <1>1. OneAtATime'
    BY DEF PInv, OneAtATime
  <1>2. ASSUME NEW k \in Callers PROVE Progress(k)'
    <2>1. call[k].pc \in InHistory => SameProject(call[k].project)
      BY NumberInSeqs DEF HistoryFree
    <2>2. call[k].pc \in InDest => SameDest(call[k].dest)
      BY NumberInSeqs DEF InDest, InHistory
    <2> QED
      BY <2>1, <2>2, ProgressKept
  <1> QED
    BY <1>1, <1>2 DEF PInv

-----------------------------------------------------------------------------
(* Steps that change no project: the destinations, the previews.                *)

\* What is asked of a call that is not in a publication.
LEMMA Outside ==
  ASSUME NEW c \in Callers, NEW place \in {"idle", "preview"}, Moved(c, place),
         place = "preview" => call'[c].project \in Projects /\ call'[c].content \in Contents
  PROVE  Progress(c)'
  BY DEF Progress, Moved, InHistory, InDest, HasEntry

\* A call that leaves, and has changed no project and no destination that it had not locked.
LEMMA LeaveStep ==
  ASSUME PInv, NEW c \in Callers, NEW place \in {"idle", "preview"}, Moved(c, place),
         place = "preview" => call'[c].project \in Projects /\ call'[c].content \in Contents,
         TypeOK', \A p \in Projects : ProjectInv(p)',
         \A p \in Projects : \/ SameProject(p)
                             \/ p = call[c].project /\ call[c].pc \in InHistory
                             \/ HistoryFree(p),
         \A d \in Dests : SameDest(d) \/ (d = call[c].dest /\ call[c].pc \in InDest)
  PROVE  PInv'
  <1>1. Progress(c)'
    BY Outside
  <1>2. OneAtATime'
    BY LocksKept DEF PInv, InHistory, InDest
  <1> QED
    BY <1>1, <1>2, CallStep

\* The projects that a step leaves alone.
LEMMA ProjectsKept ==
  ASSUME PInv, UNCHANGED <<project, history, journal, copy, recorded>>
  PROVE  \A p \in Projects : ProjectInv(p)' /\ SameProject(p)
  <1>1. \A p \in Projects : SameProject(p)
    BY DEF SameProject
  <1> QED
    BY <1>1, ProjectKept DEF PInv

LEMMA DropStep ==
  ASSUME PInv, NEW c \in Callers, Drop(c)
  PROVE  PInv'
  <1>1. UNCHANGED <<inputs, project, history, journal, dest, copy, recorded, faults, strangers>>
        /\ End(c)
    BY DEF Drop
  <1>2. Moved(c, "idle")
    BY <1>1, Ended DEF PInv
  <1>3. TypeOK'
    BY <1>1, <1>2 DEF PInv, TypeOK, Moved, CallRecord
  <1>4. \A d \in Dests : SameDest(d)
    BY <1>1 DEF SameDest
  <1> QED
    BY <1>1, <1>2, <1>3, <1>4, ProjectsKept, LeaveStep

\* Everything a destination can be after files, reservations and other things have changed.
LEMMA DestTypes ==
  ASSUME TypeOK, NEW d \in Dests
  PROVE  /\ dest \in [Dests -> Dest] /\ dest[d] \in Dest
         /\ dest[d].files \in [Seqs -> File \union {NoFile}] /\ dest[d].other \in Nat
         /\ dest[d].claims \in [Seqs -> Claim \union {NoClaim}]
  <1>1. dest \in [Dests -> Dest]
    BY DEF TypeOK
  <1> QED
    BY <1>1 DEF Dest

\* A stem that is free is reserved.
LEMMA ReserveStep ==
  ASSUME PInv, NEW c \in Callers, Reserve(c)
  PROVE  PInv'
  <1> USE DEF PInv
  <1>1. call[c].pc = "reserve" /\ call[c].pc \in InHistory /\ DestFree(call[c].dest)
    BY DEF Reserve, At, InHistory
  <1> PICK d \in Dests, n \in Seqs : d = call[c].dest /\ n = Number(c)
    BY <1>1, NumberInSeqs
  <1>2. UNCHANGED <<inputs, project, history, journal, copy, recorded, faults, strangers>>
    BY DEF Reserve
  <1>3. (\A p \in Projects : ProjectInv(p)' /\ SameProject(p))
        /\ call[c].project \in Projects /\ call[c].content \in Contents
    BY <1>1, <1>2, ProjectsKept, NumberInSeqs
  <1>4. CASE Keep(c) /\ UNCHANGED dest
    <2>1. Moved(c, "preview") /\ OnSame(c)
      BY <1>4, Kept
    <2>2. TypeOK'
      BY <1>2, <1>4, <2>1 DEF TypeOK, Moved, CallRecord
    <2>3. \A u \in Dests : SameDest(u)
      BY <1>4 DEF SameDest
    <2> QED
      BY <1>3, <2>1, <2>2, <2>3, LeaveStep DEF OnSame
  <1>5. CASE Reserved(c) /\ Goto(c, "stage") /\ ~Collides(d, n)
    <2> DEFINE e == [state |-> "reserved", owner |-> call[c].project, content |-> call[c].content,
                     baseline |-> Snapshot(d)]
               w == [dest[d] EXCEPT !.claims[n] = e]
    <2>1. dest[d] \in Dest /\ dest[d].claims \in [Seqs -> Claim \union {NoClaim}]
          /\ dest[d].files \in [Seqs -> File \union {NoFile}] /\ dest[d].other \in Nat
          /\ dest \in [Dests -> Dest]
      BY DestTypes
    <2>2. e \in Claim /\ e # NoClaim
      BY <1>3, <2>1, NothingAssumption DEF Claim, Snapshot
    <2>3. dest' = [dest EXCEPT ![d] = w]
      BY <1>5 DEF Reserved
    <2> HIDE DEF e
    <2>4. /\ w \in Dest /\ w.files = dest[d].files /\ w.other = dest[d].other
          /\ w.claims[n] = e /\ \A k \in Seqs \ {n} : w.claims[k] = dest[d].claims[k]
      BY <2>1, <2>2 DEF Dest
    <2> HIDE DEF w
    <2>5. /\ dest' \in [Dests -> Dest] /\ dest'[d] = w
          /\ \A u \in Dests \ {d} : dest'[u] = dest[u]
      BY <2>1, <2>3, <2>4
    <2>6. \A u \in Dests : SameDest(u)
      BY <2>2, <2>4, <2>5 DEF SameDest
    <2>7. Moved(c, "stage") /\ OnSame(c) /\ call'[c].dest = d
      BY <1>5, GoneTo DEF Places
    <2>8. TypeOK'
      BY <1>2, <2>5, <2>7 DEF TypeOK, Moved, CallRecord
    <2>9. OneAtATime'
      BY <1>1, <2>7, LocksKept DEF OnSame
    <2>10. Progress(c)'
      <3>1. call'[c].pc = "stage" /\ call'[c].dest = d /\ call'[c].project = call[c].project
            /\ call'[c].base = call[c].base /\ call'[c].content = call[c].content
            /\ Number(c)' = n
        BY <2>7 DEF Moved, OnSame, Number
      <3>2. dest'[d].files[n] = NoFile /\ dest'[d].claims[n] # NoClaim
        BY <1>5, <2>2, <2>4, <2>5 DEF Collides
      <3>3. call[c].base < MaxSeq /\ call[c].base = Len(history[call[c].project])
        BY <1>1 DEF Progress, HasEntry, InHistory
      <3> QED
        BY <1>2, <1>3, <3>1, <3>2, <3>3 DEF Progress, InHistory, HasEntry, InDest
    <2> QED
      BY <1>3, <2>6, <2>7, <2>8, <2>9, <2>10, CallStep
  <1> QED
    BY <1>4, <1>5 DEF Reserve

\* A publication that has locked its destination goes on there, or leaves.
LEMMA InDestStep ==
  ASSUME PInv, NEW c \in Callers, call[c].pc \in InDest, NEW place, Moved(c, place), OnSame(c),
         UNCHANGED <<project, history, journal, copy, recorded>>, TypeOK',
         \A u \in Dests \ {call[c].dest} : dest'[u] = dest[u],
         place \in {"commit", "entry"} => call'[c].dest = call[c].dest,
         place \in {"preview", "entry"}
         \/ /\ place = "commit"
            /\ dest'[call[c].dest].files[Number(c)] = NoFile
            /\ dest'[call[c].dest].claims[Number(c)] # NoClaim
            /\ dest'[call[c].dest].other > 0
  PROVE  PInv'
  <1> USE DEF PInv
  <1>1. /\ call[c].project \in Projects /\ call[c].content \in Contents
        /\ call[c].dest \in Dests /\ call[c].base < MaxSeq
        /\ call[c].base = Len(history[call[c].project])
    BY DEF Progress, InDest, InHistory, HasEntry
  <1>2. \A p \in Projects : ProjectInv(p)' /\ SameProject(p)
    BY ProjectsKept
  <1>3. \A u \in Dests : SameDest(u) \/ (u = call[c].dest /\ call[c].pc \in InDest)
    BY DEF SameDest
  <1>4. CASE place = "preview"
    BY <1>1, <1>2, <1>3, <1>4, LeaveStep DEF OnSame
  <1>5. CASE place \in {"commit", "entry"}
    <2>1. OneAtATime'
      BY <1>5, LocksKept DEF OnSame, InDest, InHistory
    <2>2. Number(c)' = Number(c) /\ call'[c].pc = place
      BY DEF OnSame, Number, Moved
    <2>3. Progress(c)'
      BY <1>1, <1>5, <2>2 DEF Progress, OnSame, InDest, InHistory, HasEntry
    <2> QED
      BY <1>2, <1>3, <2>1, <2>3, CallStep
  <1> QED
    BY <1>4, <1>5

LEMMA DestPut ==
  ASSUME TypeOK, NEW d \in Dests, NEW e \in Dest, dest' = [dest EXCEPT ![d] = e]
  PROVE  /\ dest' \in [Dests -> Dest] /\ dest'[d] = e
         /\ \A u \in Dests \ {d} : dest'[u] = dest[u]
  BY DEF TypeOK

\* A mark on a reservation.
LEMMA Marked ==
  ASSUME TypeOK, NEW d \in Dests, NEW n \in Seqs, dest[d].claims[n] # NoClaim,
         NEW x \in {"reserved", "clean", "partial", "committed"}
  PROVE  [dest[d].claims EXCEPT ![n] = [dest[d].claims[n] EXCEPT !.state = x]]
           \in [Seqs -> Claim \union {NoClaim}]
  <1> DEFINE e == [dest[d].claims[n] EXCEPT !.state = x]
  <1>1. dest[d].claims \in [Seqs -> Claim \union {NoClaim}] /\ dest[d].claims[n] \in Claim
    BY DestTypes
  <1>2. e \in Claim
    BY <1>1 DEF Claim
  <1> HIDE DEF e
  <1>3. [dest[d].claims EXCEPT ![n] = e] \in [Seqs -> Claim \union {NoClaim}]
    BY <1>1, <1>2
  <1> QED
    BY <1>3 DEF e

\* A publication under way in a destination.
LEMMA InItsDest ==
  ASSUME PInv, NEW c \in Callers, call[c].pc \in InDest
  PROVE  /\ call[c].dest \in Dests /\ Number(c) \in Seqs /\ TypeOK
         /\ call[c].project \in Projects /\ call[c].content \in Contents
         /\ dest[call[c].dest].files[Number(c)] = NoFile
         /\ dest[call[c].dest].claims[Number(c)] # NoClaim
         /\ call[c].pc = "commit" => dest[call[c].dest].other > 0
  <1>1. call[c].pc \in InHistory /\ Progress(c)
    BY DEF PInv, InDest, InHistory
  <1> QED
    BY <1>1, NumberInSeqs DEF PInv, Progress

\* The types of all that is left when a call has moved and a destination has changed.
LEMMA TypesKept ==
  ASSUME PInv, NEW c \in Callers, NEW place, Moved(c, place), dest' \in [Dests -> Dest],
         UNCHANGED <<inputs, project, history, journal, copy, recorded, strangers>>,
         faults' \in Nat
  PROVE  TypeOK'
  BY DEF PInv, TypeOK, Moved, CallRecord

LEMMA StageStep ==
  ASSUME PInv, NEW c \in Callers, Stage(c)
  PROVE  PInv'
  <1> USE DEF PInv
  <1>1. call[c].pc \in InDest
    BY DEF Stage, At, InDest
  <1> PICK d \in Dests, n \in Seqs : d = call[c].dest /\ n = Number(c)
    BY <1>1, InItsDest
  <1> DEFINE e == [dest[d] EXCEPT !.other = @ + 1]
  <1>2. /\ UNCHANGED <<inputs, project, history, journal, copy, recorded, faults, strangers>>
        /\ dest' = [dest EXCEPT ![d] = e] /\ Goto(c, "commit")
    BY DEF Stage
  <1>3. e \in Dest /\ e.files = dest[d].files /\ e.claims = dest[d].claims /\ e.other > 0
    BY DestTypes DEF Dest
  <1> HIDE DEF e
  <1>4. /\ dest' \in [Dests -> Dest] /\ dest'[d] = e /\ \A u \in Dests \ {d} : dest'[u] = dest[u]
    BY <1>2, <1>3, DestPut
  <1>5. Moved(c, "commit") /\ OnSame(c) /\ call'[c].dest = d
    BY <1>2, GoneTo DEF Places
  <1>6. TypeOK'
    BY <1>2, <1>4, <1>5, TypesKept DEF TypeOK
  <1>7. dest'[d].files[n] = NoFile /\ dest'[d].claims[n] # NoClaim /\ dest'[d].other > 0
    BY <1>1, <1>3, <1>4, InItsDest
  <1> QED
    BY <1>1, <1>2, <1>4, <1>5, <1>6, <1>7, InDestStep

\* The files are put where none were.
LEMMA CommitStep ==
  ASSUME PInv, NEW c \in Callers, Commit(c)
  PROVE  PInv'
  <1> USE DEF PInv
  <1>1. call[c].pc \in InDest /\ call[c].pc = "commit"
    BY DEF Commit, At, InDest
  <1> PICK d \in Dests, n \in Seqs : d = call[c].dest /\ n = Number(c)
    BY <1>1, InItsDest
  <1> DEFINE file == [owner |-> call[c].project, content |-> call[c].content, intact |-> TRUE]
             marked(x) == [dest[d].claims EXCEPT ![n] = [dest[d].claims[n] EXCEPT !.state = x]]
             placed(x) == [files |-> [dest[d].files EXCEPT ![n] = file],
                           other |-> dest[d].other - 1, claims |-> marked(x)]
  <1>2. PICK x \in {"committed", "reserved"} :
          dest' = [dest EXCEPT ![d] = placed(x)] /\ faults' \in Nat
    <2>1. dest \in [Dests -> Dest]
      BY DestTypes
    <2>2. \/ dest' = [dest EXCEPT ![d] = placed("committed")] /\ UNCHANGED faults
          \/ dest' = [dest EXCEPT ![d] = placed("reserved")] /\ Fault
      BY <2>1 DEF Commit
    <2>3. faults' \in Nat
      BY <2>2 DEF Fault, TypeOK
    <2> QED
      BY <2>2, <2>3
  <1>3. UNCHANGED <<inputs, project, history, journal, copy, recorded, strangers>>
        /\ Goto(c, "entry")
    BY DEF Commit
  <1>4. marked(x) \in [Seqs -> Claim \union {NoClaim}]
    BY <1>1, InItsDest, Marked
  <1>5. file \in File
    BY <1>1, InItsDest DEF File
  <1> HIDE DEF file, marked
  <1>6. placed(x) \in Dest
    <2>1. dest[d].other \in Nat /\ dest[d].other > 0 /\ dest[d].files \in [Seqs -> File \union {NoFile}]
      BY <1>1, InItsDest, DestTypes
    <2>2. [dest[d].files EXCEPT ![n] = file] \in [Seqs -> File \union {NoFile}]
      BY <1>5, <2>1
    <2>3. dest[d].other - 1 \in Nat
      BY <2>1
    <2> QED
      BY <1>4, <2>2, <2>3 DEF Dest
  <1> HIDE DEF placed
  <1>7. dest' \in [Dests -> Dest] /\ \A u \in Dests \ {d} : dest'[u] = dest[u]
    BY <1>2, <1>6, DestPut
  <1>8. Moved(c, "entry") /\ OnSame(c) /\ call'[c].dest = d
    BY <1>3, GoneTo DEF Places
  <1>9. TypeOK'
    BY <1>2, <1>3, <1>7, <1>8, TypesKept
  <1> QED
    BY <1>1, <1>3, <1>7, <1>8, <1>9, InDestStep

\* A rendering is rolled back.
LEMMA RenderFailsStep ==
  ASSUME PInv, NEW c \in Callers, RenderFails(c)
  PROVE  PInv'
  <1> USE DEF PInv
  <1>1. call[c].pc \in InDest /\ call[c].pc = "commit"
    BY DEF RenderFails, At, InDest
  <1> PICK d \in Dests, n \in Seqs : d = call[c].dest /\ n = Number(c)
    BY <1>1, InItsDest
  <1> DEFINE marked(x) == [dest[d].claims EXCEPT ![n] = [dest[d].claims[n] EXCEPT !.state = x]]
             left(x, o) == [dest[d] EXCEPT !.other = o, !.claims = marked(x)]
  <1>2. /\ UNCHANGED <<inputs, project, history, journal, copy, recorded, strangers>>
        /\ Keep(c) /\ faults' \in Nat
    BY DEF RenderFails, Fault, TypeOK
  <1>3. dest[d] \in Dest /\ dest \in [Dests -> Dest] /\ dest[d].other \in Nat /\ dest[d].other > 0
    BY <1>1, InItsDest, DestTypes
  <1>4. \/ dest' = [dest EXCEPT ![d] = left("clean", dest[d].other - 1)]
        \/ dest' = [dest EXCEPT ![d] = left("partial", dest[d].other)]
    BY <1>3 DEF RenderFails, Dest
  <1>5. marked("clean") \in [Seqs -> Claim \union {NoClaim}]
        /\ marked("partial") \in [Seqs -> Claim \union {NoClaim}]
    BY <1>1, InItsDest, Marked
  <1> HIDE DEF marked
  <1>6. left("clean", dest[d].other - 1) \in Dest /\ left("partial", dest[d].other) \in Dest
    <2>1. dest[d].other - 1 \in Nat
      BY <1>3
    <2> QED
      BY <1>3, <1>5, <2>1 DEF Dest
  <1> HIDE DEF left
  <1>7. dest' \in [Dests -> Dest] /\ \A u \in Dests \ {d} : dest'[u] = dest[u]
    BY <1>4, <1>6, DestPut
  <1>8. Moved(c, "preview") /\ OnSame(c)
    BY <1>2, Kept
  <1>9. TypeOK'
    BY <1>2, <1>7, <1>8, TypesKept
  <1> QED
    BY <1>1, <1>2, <1>7, <1>8, <1>9, InDestStep

\* The process dies, perhaps in the middle of putting files in place.
LEMMA CrashStep ==
  ASSUME PInv, NEW c \in Callers, Crash(c)
  PROVE  PInv'
  <1> USE DEF PInv
  <1>1. /\ UNCHANGED <<inputs, project, history, journal, copy, recorded, strangers>>
        /\ call[c].pc \in InHistory /\ End(c) /\ faults' \in Nat
    BY DEF Crash, Fault, TypeOK
  <1>2. Moved(c, "idle")
    BY <1>1, Ended
  <1>3. dest' \in [Dests -> Dest]
        /\ \A u \in Dests : dest'[u] = dest[u] \/ (u = call[c].dest /\ call[c].pc \in InDest)
    <2>1. CASE UNCHANGED dest
      BY <2>1 DEF TypeOK
    <2>2. CASE ~UNCHANGED dest
      <3> DEFINE file == [owner |-> call[c].project, content |-> call[c].content, intact |-> FALSE]
      <3>1. call[c].pc \in InDest
        BY <2>2 DEF Crash, At, InDest
      <3> PICK d \in Dests, n \in Seqs : d = call[c].dest /\ n = Number(c)
        BY <3>1, InItsDest
      <3> DEFINE e == [dest[d] EXCEPT !.files = [dest[d].files EXCEPT ![n] = file]]
      <3>2. file \in File
        BY <3>1, InItsDest DEF File
      <3>3. dest' = [dest EXCEPT ![d] = e]
        BY <2>2, DestTypes DEF Crash, Dest
      <3> HIDE DEF file
      <3>4. e \in Dest
        BY <3>2, DestTypes DEF Dest
      <3> HIDE DEF e
      <3> QED
        BY <3>1, <3>3, <3>4, DestPut
    <2> QED
      BY <2>1, <2>2
  <1>4. TypeOK'
    BY <1>1, <1>2, <1>3, TypesKept
  <1>5. \A u \in Dests : SameDest(u) \/ (u = call[c].dest /\ call[c].pc \in InDest)
    BY <1>3 DEF SameDest
  <1>6. \A p \in Projects : ProjectInv(p)' /\ SameProject(p)
    BY <1>1, ProjectsKept
  <1> QED
    BY <1>2, <1>4, <1>5, <1>6, LeaveStep

\* The inputs of a project change: no publication minds before it compares.
LEMMA ChangeInputsStep ==
  ASSUME PInv, NEW p \in Projects, ChangeInputs(p)
  PROVE  PInv'
  <1>1. UNCHANGED <<project, history, journal, dest, call, copy, recorded, faults>>
    BY DEF ChangeInputs
  <1>2. TypeOK'
    <2>1. inputs' \in [Projects -> Contents] /\ strangers' \in Nat
      BY DEF ChangeInputs, Stranger, PInv, TypeOK
    <2> QED
      BY <1>1, <2>1 DEF PInv, TypeOK
  <1>3. \A q \in Projects : ProjectInv(q)' /\ SameProject(q)
    BY <1>1, ProjectsKept
  <1>4. \A d \in Dests : SameDest(d)
    BY <1>1 DEF SameDest
  <1> QED
    BY <1>1, <1>2, <1>3, <1>4, OtherStep

\* A file of a bundle is changed, or something is added to a destination.
LEMMA TouchDestStep ==
  ASSUME PInv, NEW d \in Dests, TouchDest(d)
  PROVE  PInv'
  <1> USE DEF PInv
  <1>1. UNCHANGED <<inputs, project, history, journal, call, copy, recorded, faults>>
        /\ strangers' \in Nat
    BY DEF TouchDest, Stranger, TypeOK
  <1>2. dest \in [Dests -> Dest] /\ dest[d] \in Dest
        /\ dest[d].files \in [Seqs -> File \union {NoFile}] /\ dest[d].other \in Nat
    BY DestTypes
  <1>3. PICK e \in Dest :
          /\ dest' = [dest EXCEPT ![d] = e] /\ e.claims = dest[d].claims
          /\ \A n \in Seqs : dest[d].files[n] = NoFile => e.files[n] = NoFile
          /\ dest[d].other > 0 => e.other > 0
    <2>1. CASE dest' = [dest EXCEPT ![d].other = @ + 1]
      <3> DEFINE e == [dest[d] EXCEPT !.other = @ + 1]
      <3>1. dest' = [dest EXCEPT ![d] = e]
        BY <2>1
      <3>2. e \in Dest /\ e.claims = dest[d].claims /\ e.files = dest[d].files /\ e.other > 0
        BY <1>2 DEF Dest
      <3> QED
        BY <3>1, <3>2
    <2>2. ASSUME NEW n \in Seqs, dest[d].files[n] # NoFile,
                 dest' = [dest EXCEPT ![d].files[n].intact = FALSE]
          PROVE  \E e \in Dest :
                   /\ dest' = [dest EXCEPT ![d] = e] /\ e.claims = dest[d].claims
                   /\ \A k \in Seqs : dest[d].files[k] = NoFile => e.files[k] = NoFile
                   /\ dest[d].other > 0 => e.other > 0
      <3> DEFINE g == [dest[d].files[n] EXCEPT !.intact = FALSE]
                 e == [dest[d] EXCEPT !.files = [dest[d].files EXCEPT ![n] = g]]
      <3>1. dest' = [dest EXCEPT ![d] = e]
        BY <1>2, <2>2
      <3>2. dest[d].files[n] \in File
        BY <1>2, <2>2
      <3>3. g \in File
        BY <3>2 DEF File
      <3> HIDE DEF g
      <3>4. e \in Dest /\ e.claims = dest[d].claims /\ e.other = dest[d].other
            /\ \A k \in Seqs \ {n} : e.files[k] = dest[d].files[k]
        BY <1>2, <3>3 DEF Dest
      <3> HIDE DEF e
      <3> QED
        BY <2>2, <3>1, <3>4
    <2> QED
      BY <2>1, <2>2 DEF TouchDest
  <1>4. /\ dest' \in [Dests -> Dest] /\ dest'[d] = e /\ \A u \in Dests \ {d} : dest'[u] = dest[u]
    BY <1>3, DestPut
  <1>5. TypeOK'
    BY <1>1, <1>4 DEF TypeOK
  <1>6. \A u \in Dests : SameDest(u)
    BY <1>3, <1>4 DEF SameDest
  <1>7. \A q \in Projects : ProjectInv(q)' /\ SameProject(q)
    BY <1>1, ProjectsKept
  <1> QED
    BY <1>1, <1>5, <1>6, <1>7, OtherStep

-----------------------------------------------------------------------------
(* What a reader completes.                                                     *)

\* The history of a project: its length, and what is in it.
LEMMA HistoryTypes ==
  ASSUME TypeOK, NEW p \in Projects
  PROVE  /\ history[p] \in Seq(Entry) /\ Len(history[p]) \in Nat /\ Len(history[p]) <= MaxSeq
         /\ \A n \in Revisions(p) : n \in Seqs /\ history[p][n] \in Entry
  <1>1. history[p] \in Seq(Entry) /\ Len(history[p]) <= MaxSeq
    BY DEF TypeOK
  <1>2. Len(history[p]) \in Nat /\ MaxSeq \in Nat
    BY <1>1, LenProperties, BoundsAssumption
  <1>3. ASSUME NEW n \in Revisions(p) PROVE n \in Seqs /\ history[p][n] \in Entry
    BY <1>1, <1>2, <1>3, ElementOfSeq DEF Revisions, Seqs
  <1> QED
    BY <1>1, <1>2, <1>3

\* Only a revision whose bundle the marker names is completed, and the history before the journal.
LEMMA ReconcileResult ==
  ASSUME PInv, NEW p \in Projects, Reconcile(p), UNCHANGED <<project, copy, recorded>>
  PROVE  /\ history' \in [Projects -> Seq(Entry)] /\ \A q \in Projects : Len(history'[q]) <= MaxSeq
         /\ journal' \in [Projects -> [Seqs -> Stages \union {NoEntry}]]
         /\ faults' \in Nat /\ Len(history'[p]) = Len(history[p])
         /\ \A q \in Projects : ProjectInv(q)'
         /\ \A q \in Projects \ {p} : SameProject(q)
  <1> USE DEF PInv
  <1> DEFINE H == ReconciledHistory(p)
             J == ReconciledJournal(p)
  <1>1. /\ history' = [history EXCEPT ![p] = H]
        /\ journal' = [journal EXCEPT ![p] = J] \/ journal' = journal
        /\ faults' \in Nat
    BY DEF Reconcile, Fault, TypeOK
  <1>2. /\ history \in [Projects -> Seq(Entry)] /\ history[p] \in Seq(Entry) /\ Len(history[p]) \in Nat
        /\ journal \in [Projects -> [Seqs -> Stages \union {NoEntry}]]
        /\ \A n \in Revisions(p) : n \in Seqs /\ history[p][n] \in Entry
    BY HistoryTypes DEF TypeOK
  <1>3. ASSUME NEW n \in Revisions(p)
        PROVE  /\ H[n] \in Entry /\ H[n].content = history[p][n].content
               /\ H[n].dest = history[p][n].dest
               /\ H[n].status = IF Completable(p, n) THEN "ready" ELSE history[p][n].status
    <2>1. H[n] = [history[p][n] EXCEPT !.status = IF Completable(p, n) THEN "ready" ELSE @]
      BY DEF ReconciledHistory, Revisions
    <2>2. history[p][n] \in Entry
      BY <1>2
    <2>3. CASE Completable(p, n)
      BY <2>1, <2>2, <2>3 DEF Entry
    <2>4. CASE ~Completable(p, n)
      BY <2>1, <2>2, <2>4 DEF Entry
    <2> QED
      BY <2>3, <2>4
  <1>4. H \in Seq(Entry) /\ Len(H) = Len(history[p])
    <2>1. H \in [1 .. Len(history[p]) -> Entry]
      <3>1. \A n \in 1 .. Len(history[p]) : H[n] \in Entry
        BY <1>3 DEF Revisions
      <3> QED
        BY <3>1 DEF ReconciledHistory
    <2> QED
      BY <1>2, <2>1, Sequence
  <1>5. \A n \in Seqs : J[n] = journal[p][n]
                        \/ (J[n] = "complete" /\ n \in Revisions(p) /\ Completable(p, n))
    BY DEF ReconciledJournal, Revisions
  <1>6. J \in [Seqs -> Stages \union {NoEntry}]
    <2>1. \A n \in Seqs : J[n] \in Stages \union {NoEntry}
      BY <1>2, <1>5 DEF Stages
    <2> QED
      BY <2>1 DEF ReconciledJournal
  <1> HIDE DEF H, J
  <1>7. /\ history' \in [Projects -> Seq(Entry)] /\ history'[p] = H
        /\ \A q \in Projects \ {p} : history'[q] = history[q]
    BY <1>1, <1>2, <1>4
  <1>8. /\ journal' \in [Projects -> [Seqs -> Stages \union {NoEntry}]]
        /\ journal'[p] = J \/ journal'[p] = journal[p]
        /\ \A q \in Projects \ {p} : journal'[q] = journal[q]
    BY <1>1, <1>2, <1>6
  <1>9. \A q \in Projects : Len(history'[q]) <= MaxSeq
    BY <1>4, <1>7, HistoryTypes
  <1>10. \A q \in Projects \ {p} : SameProject(q)
    BY <1>7, <1>8 DEF SameProject
  <1>11. ProjectInv(p)'
    <2> USE DEF ProjectInv
    <2>1. Revisions(p)' = Revisions(p)
      BY <1>4, <1>7 DEF Revisions
    <2>2. \A n \in Revisions(p) : BundleAt(p, n)' = BundleAt(p, n)
      BY <1>3, <1>7 DEF BundleAt
    <2>3. \A n \in Revisions(p) : Completable(p, n) => BundleAt(p, n) \in recorded[p]
      BY DEF Completable, Current
    <2>4. \A n \in Revisions(p) : history'[p][n].status = "ready" => BundleAt(p, n) \in recorded[p]
      BY <1>3, <1>7, <2>3
    <2>5. \A n \in Revisions(p) : history[p][n].status = "ready" \/ Completable(p, n) =>
                                   history'[p][n].status = "ready"
      BY <1>3, <1>7
    <2>6. \A n \in Seqs : journal'[p][n] = journal[p][n]
                          \/ (journal'[p][n] = "complete" /\ n \in Revisions(p) /\ Completable(p, n))
      BY <1>5, <1>8
    <2>7. \A n \in Seqs :
            /\ journal'[p][n] # NoEntry => n \in Revisions(p)
            /\ journal'[p][n] = "marked" => BundleAt(p, n)' \in recorded[p]
            /\ journal'[p][n] = "complete" => history'[p][n].status = "ready"
      <3> SUFFICES ASSUME NEW n \in Seqs
                   PROVE  /\ journal'[p][n] # NoEntry => n \in Revisions(p)
                          /\ journal'[p][n] = "marked" => BundleAt(p, n)' \in recorded[p]
                          /\ journal'[p][n] = "complete" => history'[p][n].status = "ready"
        OBVIOUS
      <3>1. CASE journal'[p][n] = journal[p][n]
        <4>1. /\ journal[p][n] # NoEntry => n \in Revisions(p)
              /\ journal[p][n] = "marked" => BundleAt(p, n) \in recorded[p]
              /\ journal[p][n] = "complete" => history[p][n].status = "ready"
          OBVIOUS
        <4>2. NoEntry # "marked" /\ NoEntry # "complete"
          BY NothingAssumption DEF Stages
        <4> QED
          BY <2>2, <2>5, <3>1, <4>1, <4>2
      <3>2. CASE journal'[p][n] = "complete" /\ n \in Revisions(p) /\ Completable(p, n)
        BY <2>5, <3>2
      <3> QED
        BY <2>6, <3>1, <3>2
    <2>8. ASSUME NEW b \in recorded[p]
          PROVE  /\ b.seq \in Revisions(p) /\ b = BundleAt(p, b.seq)'
                 /\ journal'[p][b.seq] \in {"prepared", "marked", "complete"}
      <3>1. /\ b.seq \in Revisions(p) /\ b = BundleAt(p, b.seq)
            /\ journal[p][b.seq] \in {"prepared", "marked", "complete"}
        BY <2>8
      <3>2. b.seq \in Seqs
        BY <1>2, <3>1
      <3>3. journal'[p][b.seq] = journal[p][b.seq] \/ journal'[p][b.seq] = "complete"
        BY <2>6, <3>2
      <3>4. PICK n \in Revisions(p) : n = b.seq
        BY <3>1
      <3>5. BundleAt(p, n)' = BundleAt(p, n)
        BY <2>2
      <3>6. BundleAt(p, b.seq)' = BundleAt(p, n)
        BY <3>4, <3>5
      <3> QED
        BY <3>1, <3>3, <3>4, <3>6
    <2>9. /\ project'[p].marker \in recorded'[p] \union {NoMarker}
          /\ copy'[p] # NoCopy => copy'[p].marker \in recorded'[p] \union {NoMarker}
      OBVIOUS
    <2>10. recorded' = recorded
      OBVIOUS
    <2> HIDE DEF ProjectInv
    <2> QED
      BY <2>1, <2>2, <2>4, <2>7, <2>8, <2>9, <2>10 DEF ProjectInv
  <1>12. \A q \in Projects : ProjectInv(q)'
    BY <1>10, <1>11, ProjectKept
  <1> QED
    BY <1>1, <1>4, <1>7, <1>8, <1>9, <1>10, <1>12

\* The types of all that is left when a call has moved and a history or a journal has changed.
LEMMA TypesKeptToo ==
  ASSUME PInv, call' \in [Callers -> CallRecord], history' \in [Projects -> Seq(Entry)],
         \A q \in Projects : Len(history'[q]) <= MaxSeq,
         journal' \in [Projects -> [Seqs -> Stages \union {NoEntry}]], faults' \in Nat,
         UNCHANGED <<inputs, project, dest, copy, recorded, strangers>>
  PROVE  TypeOK'
  BY DEF PInv, TypeOK, CallRecord

LEMMA ReadStep ==
  ASSUME PInv, NEW p \in Projects, Read(p)
  PROVE  PInv'
  <1>1. UNCHANGED <<inputs, project, dest, call, copy, recorded, strangers>>
        /\ Reconcile(p) /\ HistoryFree(p)
    BY DEF Read
  <1>2. call' \in [Callers -> CallRecord]
    BY <1>1 DEF PInv, TypeOK, CallRecord
  <1>3. TypeOK'
    BY <1>1, <1>2, ReconcileResult, TypesKeptToo
  <1>4. /\ \A q \in Projects : ProjectInv(q)' /\ (SameProject(q) \/ HistoryFree(q))
        /\ \A d \in Dests : SameDest(d)
    BY <1>1, ReconcileResult DEF SameDest
  <1> QED
    BY <1>1, <1>3, <1>4, OtherStep

LEMMA PreviewStep ==
  ASSUME PInv, NEW c \in Callers, NEW p \in Projects, Preview(c, p)
  PROVE  PInv'
  <1> DEFINE w == [NoCall EXCEPT !.pc = "preview", !.project = p, !.base = Len(history[p]),
                                 !.content = inputs[p]]
  <1>1. UNCHANGED <<inputs, project, dest, copy, recorded, strangers>>
        /\ call' = [call EXCEPT ![c] = w]
    BY DEF Preview
  <1>2. w \in CallRecord /\ w.pc = "preview" /\ w.project = p /\ w.content = inputs[p]
    <2>1. Len(history[p]) \in 0 .. MaxSeq
      BY HistoryTypes, BoundsAssumption DEF PInv
    <2>2. inputs[p] \in Contents
      BY DEF PInv, TypeOK
    <2> QED
      BY <2>1, <2>2 DEF NoCall, CallRecord, Places
  <1> HIDE DEF w
  <1>3. Moved(c, "preview") /\ call'[c] = w
    BY <1>1, <1>2 DEF PInv, TypeOK, Moved, CallRecord
  <1>4. call'[c].project \in Projects /\ call'[c].content \in Contents
    BY <1>2, <1>3 DEF PInv, TypeOK
  <1>5. \A d \in Dests : SameDest(d)
    BY <1>1 DEF SameDest
  <1>6. CASE UNCHANGED <<history, journal, faults>>
    <2>1. TypeOK'
      BY <1>1, <1>3, <1>6 DEF PInv, TypeOK, Moved, CallRecord
    <2>2. \A q \in Projects : ProjectInv(q)' /\ SameProject(q)
      BY <1>1, <1>6, ProjectsKept
    <2> QED
      BY <1>3, <1>4, <1>5, <2>1, <2>2, LeaveStep
  <1>7. CASE HistoryFree(p) /\ Reconcile(p)
    <2>1. TypeOK'
      BY <1>1, <1>3, <1>7, ReconcileResult, TypesKeptToo DEF Moved
    <2>2. \A q \in Projects : ProjectInv(q)' /\ (SameProject(q) \/ HistoryFree(q))
      BY <1>1, <1>7, ReconcileResult
    <2> QED
      BY <1>3, <1>4, <1>5, <2>1, <2>2, LeaveStep
  <1> QED
    BY <1>6, <1>7 DEF Preview

LEMMA RefuseStep ==
  ASSUME PInv, NEW c \in Callers, Refuse(c)
  PROVE  PInv'
  <1>1. UNCHANGED <<inputs, project, dest, copy, recorded, strangers>> /\ End(c)
        /\ Reconcile(call[c].project) /\ HistoryFree(call[c].project) /\ call[c].pc = "preview"
    BY DEF Refuse, At
  <1> PICK p \in Projects : p = call[c].project
    BY <1>1 DEF PInv, Progress
  <1>2. Moved(c, "idle")
    BY <1>1, Ended DEF PInv
  <1>3. TypeOK'
    BY <1>1, <1>2, ReconcileResult, TypesKeptToo DEF Moved
  <1>4. /\ \A q \in Projects : ProjectInv(q)' /\ (SameProject(q) \/ HistoryFree(q))
        /\ \A d \in Dests : SameDest(d)
    BY <1>1, ReconcileResult DEF SameDest
  <1> QED
    BY <1>2, <1>3, <1>4, LeaveStep

\* The publication takes the history, as the preview left it.
LEMMA PublishStep ==
  ASSUME PInv, NEW c \in Callers, NEW d \in Dests, Publish(c, d)
  PROVE  PInv'
  <1> DEFINE w == [call[c] EXCEPT !.pc = "reserve", !.dest = d]
  <1>1. /\ UNCHANGED <<inputs, project, dest, copy, recorded, strangers>>
        /\ call[c].pc = "preview" /\ HistoryFree(call[c].project) /\ Reconcile(call[c].project)
        /\ call[c].base = Len(history[call[c].project]) /\ call[c].base < MaxSeq
    BY DEF Publish, At
  <1> PICK p \in Projects : p = call[c].project
    BY <1>1 DEF PInv, Progress
  <1>2. call = [k \in Callers |-> call[k]] /\ call[c] \in CallRecord /\ call \in [Callers -> CallRecord]
    BY DEF PInv, TypeOK, CallRecord
  <1>3. call' = [call EXCEPT ![c] = w]
    BY <1>2 DEF Publish
  <1>4. /\ w \in CallRecord /\ w.pc = "reserve" /\ w.project = p /\ w.base = call[c].base
        /\ w.content = call[c].content /\ w.dest = d
    BY <1>2 DEF CallRecord, Places
  <1> HIDE DEF w
  <1>5. Moved(c, "reserve") /\ call'[c] = w
    BY <1>2, <1>3, <1>4 DEF Moved
  <1>6. TypeOK'
    BY <1>1, <1>5, ReconcileResult, TypesKeptToo DEF Moved
  <1>7. /\ \A q \in Projects : ProjectInv(q)' /\ (SameProject(q) \/ HistoryFree(q))
        /\ \A u \in Dests : SameDest(u)
    BY <1>1, ReconcileResult DEF SameDest
  <1>8. OneAtATime'
    BY <1>1, <1>4, <1>5, LocksKept DEF PInv, InDest
  <1>9. Progress(c)'
    <2>1. call[c].content \in Contents
      BY <1>1 DEF PInv, Progress
    <2>2. call[c].base = Len(history'[p])
      BY <1>1, ReconcileResult
    <2> QED
      BY <1>1, <1>4, <1>5, <2>1, <2>2 DEF Progress, InHistory, InDest, HasEntry
  <1> QED
    BY <1>5, <1>6, <1>7, <1>8, <1>9, CallStep

-----------------------------------------------------------------------------
(* The durable writes of a publication.                                         *)

\* A journal entry of a revision that there is.
LEMMA JournalSet ==
  ASSUME PInv, NEW p \in Projects, NEW n \in Revisions(p), NEW x \in Stages,
         journal' = [journal EXCEPT ![p][n] = x], UNCHANGED <<history, project, copy, recorded>>,
         Named(p, n) => x # "failed",
         x = "marked" => BundleAt(p, n) \in recorded[p],
         x = "complete" => history[p][n].status = "ready"
  PROVE  /\ journal' \in [Projects -> [Seqs -> Stages \union {NoEntry}]] /\ journal'[p][n] = x
         /\ \A q \in Projects : ProjectInv(q)'
         /\ \A q \in Projects \ {p} : SameProject(q)
  <1> USE DEF PInv
  <1>1. journal \in [Projects -> [Seqs -> Stages \union {NoEntry}]] /\ n \in Seqs
    BY HistoryTypes DEF TypeOK
  <1>2. /\ journal' \in [Projects -> [Seqs -> Stages \union {NoEntry}]] /\ journal'[p][n] = x
        /\ \A k \in Seqs \ {n} : journal'[p][k] = journal[p][k]
        /\ \A q \in Projects \ {p} : journal'[q] = journal[q]
    BY <1>1
  <1>3. \A q \in Projects \ {p} : SameProject(q)
    BY <1>2 DEF SameProject
  <1>4. ProjectInv(p)'
    <2>1. ProjectInv(p) /\ Revisions(p)' = Revisions(p)
      BY DEF Revisions
    <2>2. \A k \in Revisions(p) : BundleAt(p, k)' = BundleAt(p, k)
      BY DEF BundleAt
    <2>3. \A k \in Revisions(p) : k \in Seqs
      BY HistoryTypes
    <2>4. ASSUME NEW b \in recorded[p]
          PROVE  /\ b.seq \in Revisions(p) /\ b = BundleAt(p, b.seq)
                 /\ journal'[p][b.seq] \in {"prepared", "marked", "complete"}
      <3>1. /\ b.seq \in Revisions(p) /\ b = BundleAt(p, b.seq)
            /\ journal[p][b.seq] \in {"prepared", "marked", "complete"}
        BY <2>1, <2>4 DEF ProjectInv
      <3>2. b.seq = n => x \in {"prepared", "marked", "complete"}
        BY <2>4 DEF Named, Stages
      <3> QED
        BY <1>2, <2>3, <3>1, <3>2
    <2>5. ASSUME NEW k \in Seqs
          PROVE  /\ journal'[p][k] # NoEntry => k \in Revisions(p)
                 /\ journal'[p][k] = "marked" => BundleAt(p, k)' \in recorded[p]
                 /\ journal'[p][k] = "complete" => history[p][k].status = "ready"
      <3>1. CASE k = n
        BY <1>2, <2>2, <3>1
      <3>2. CASE k # n
        <4>1. journal'[p][k] = journal[p][k]
          BY <1>2, <3>2
        <4>2. /\ journal[p][k] # NoEntry => k \in Revisions(p)
              /\ journal[p][k] = "marked" => BundleAt(p, k) \in recorded[p]
              /\ journal[p][k] = "complete" => history[p][k].status = "ready"
          BY <2>1 DEF ProjectInv
        <4>3. BundleAt(p, k)' = BundleAt(p, k)
          BY DEF BundleAt
        <4> QED
          BY <4>1, <4>2, <4>3
      <3> QED
        BY <3>1, <3>2
    <2>6. \A b \in recorded'[p] : b = BundleAt(p, b.seq)'
      BY <2>4 DEF BundleAt
    <2> QED
      BY <2>1, <2>2, <2>4, <2>5, <2>6 DEF ProjectInv
  <1> QED
    BY <1>2, <1>3, <1>4, ProjectKept

\* A publication whose revision is in the history.
LEMMA InRecord ==
  ASSUME PInv, NEW c \in Callers, call[c].pc \in HasEntry
  PROVE  /\ call[c].pc \in InHistory /\ call[c].project \in Projects /\ call[c].content \in Contents
         /\ Number(c) \in Revisions(call[c].project) /\ Number(c) \in Seqs
         /\ Len(history[call[c].project]) = Number(c)
         /\ BundleAt(call[c].project, Number(c)) = BundleOf(c)
         /\ Progress(c) /\ ProjectInv(call[c].project)
         /\ call[c].dest \in Dests /\ call[c].base < MaxSeq
  <1>1. call[c].pc \in InHistory
    BY DEF HasEntry, InHistory
  <1>2. /\ call[c].project \in Projects /\ Number(c) \in Seqs /\ Progress(c)
        /\ Len(history[call[c].project]) = Number(c)
        /\ BundleAt(call[c].project, Number(c)) = BundleOf(c)
    BY <1>1, NumberInSeqs DEF Progress
  <1>3. Number(c) \in 1 .. Number(c)
    BY <1>2 DEF Seqs
  <1> QED
    BY <1>1, <1>2, <1>3, NumberInSeqs DEF Revisions, Progress

\* The step of such a publication, when its call stays on the same revision.
LEMMA RecordStep ==
  ASSUME PInv, NEW c \in Callers, call[c].pc \in InHistory,
         NEW place \in HasEntry, Moved(c, place), OnSame(c), call'[c].dest = call[c].dest,
         TypeOK', dest' = dest, Progress(c)',
         \A q \in Projects : ProjectInv(q)',
         \A q \in Projects \ {call[c].project} : SameProject(q)
  PROVE  PInv'
  <1>1. OneAtATime'
    BY LocksKept DEF PInv, OnSame, HasEntry, InDest
  <1>2. \A d \in Dests : SameDest(d)
    BY DEF SameDest
  <1>3. \A q \in Projects : SameProject(q) \/ (q = call[c].project /\ call[c].pc \in InHistory)
    OBVIOUS
  <1> QED
    BY <1>1, <1>2, <1>3, CallStep

\* And when it gives up, with the preview or without.
LEMMA GiveUpStep ==
  ASSUME PInv, NEW c \in Callers, call[c].pc \in InHistory,
         NEW place \in {"idle", "preview"}, Moved(c, place), place = "preview" => OnSame(c),
         TypeOK', dest' = dest,
         \A q \in Projects : ProjectInv(q)',
         \A q \in Projects \ {call[c].project} : SameProject(q)
  PROVE  PInv'
  <1>1. \A d \in Dests : SameDest(d)
    BY DEF SameDest
  <1>2. \A q \in Projects : SameProject(q) \/ (q = call[c].project /\ call[c].pc \in InHistory)
    OBVIOUS
  <1>3. place = "preview" => call'[c].project \in Projects /\ call'[c].content \in Contents
    BY NumberInSeqs DEF OnSame
  <1> QED
    BY <1>1, <1>2, <1>3, LeaveStep

\* The revision enters the history, as one that nothing has named.
LEMMA WriteEntryStep ==
  ASSUME PInv, NEW c \in Callers, WriteEntry(c)
  PROVE  PInv'
  <1> USE DEF PInv
  <1>1. /\ UNCHANGED <<inputs, project, journal, dest, copy, recorded, faults, strangers>>
        /\ call[c].pc = "entry" /\ call[c].pc \in InHistory /\ Goto(c, "journal")
    BY DEF WriteEntry, At, InHistory
  <1> PICK p \in Projects, n \in Seqs : p = call[c].project /\ n = Number(c)
    BY <1>1, NumberInSeqs
  <1> DEFINE e == [content |-> call[c].content, dest |-> call[c].dest, status |-> "unrecorded"]
             H == Append(history[p], e)
  <1>2. history' = [history EXCEPT ![p] = H]
    BY DEF WriteEntry
  <1>3. /\ call[c].content \in Contents /\ call[c].dest \in Dests /\ call[c].base < MaxSeq
        /\ n = Len(history[p]) + 1 /\ ProjectInv(p)
    BY <1>1, NumberInSeqs DEF Progress, HasEntry, InHistory, Number
  <1>4. e \in Entry /\ e.status = "unrecorded" /\ e.content = call[c].content /\ e.dest = call[c].dest
    BY <1>3 DEF Entry
  <1> HIDE DEF e
  <1>5. history[p] \in Seq(Entry) /\ Len(history[p]) \in Nat /\ history \in [Projects -> Seq(Entry)]
    BY HistoryTypes DEF TypeOK
  <1>6. /\ H \in Seq(Entry) /\ Len(H) = n /\ H[n] = e
        /\ \A k \in 1 .. Len(history[p]) : H[k] = history[p][k]
    BY <1>3, <1>4, <1>5, AppendProperties
  <1> HIDE DEF H
  <1>7. /\ history' \in [Projects -> Seq(Entry)] /\ history'[p] = H
        /\ \A q \in Projects \ {p} : history'[q] = history[q]
    BY <1>2, <1>5, <1>6
  <1>8. Moved(c, "journal") /\ OnSame(c) /\ call'[c].dest = call[c].dest
    BY <1>1, GoneTo DEF Places
  <1>9. TypeOK'
    <2>1. \A q \in Projects : Len(history'[q]) <= MaxSeq
      BY <1>6, <1>7, HistoryTypes, BoundsAssumption DEF Seqs
    <2> QED
      BY <1>1, <1>7, <1>8, <2>1, TypesKeptToo DEF Moved, TypeOK
  <1>10. \A q \in Projects \ {p} : SameProject(q)
    BY <1>1, <1>7 DEF SameProject
  <1>11. Revisions(p)' = 1 .. n /\ Revisions(p) \subseteq 1 .. n /\ n \in 1 .. n /\ n \notin Revisions(p)
         /\ \A k \in 1 .. n : k \in Revisions(p) \/ k = n
    BY <1>3, <1>5, <1>6, <1>7 DEF Revisions
  <1>12. \A k \in Revisions(p) : history'[p][k] = history[p][k] /\ BundleAt(p, k)' = BundleAt(p, k)
    BY <1>6, <1>7 DEF Revisions, BundleAt
  <1>13. ProjectInv(p)'
    <2>1. ASSUME NEW b \in recorded[p]
          PROVE  /\ b.seq \in 1 .. n /\ b = BundleAt(p, b.seq)'
                 /\ journal[p][b.seq] \in {"prepared", "marked", "complete"}
      <3>1. /\ b.seq \in Revisions(p) /\ b = BundleAt(p, b.seq)
            /\ journal[p][b.seq] \in {"prepared", "marked", "complete"}
        BY <1>3, <2>1 DEF ProjectInv
      <3>2. history'[p][b.seq] = history[p][b.seq]
        BY <1>12, <3>1
      <3> QED
        BY <1>11, <3>1, <3>2 DEF BundleAt
    <2>2. ASSUME NEW k \in Seqs
          PROVE  /\ journal[p][k] # NoEntry => k \in 1 .. n
                 /\ journal[p][k] = "marked" => BundleAt(p, k)' \in recorded[p]
                 /\ journal[p][k] = "complete" => history'[p][k].status = "ready"
      <3>1. /\ journal[p][k] # NoEntry => k \in Revisions(p)
            /\ journal[p][k] = "marked" => BundleAt(p, k) \in recorded[p]
            /\ journal[p][k] = "complete" => history[p][k].status = "ready"
        BY <1>3 DEF ProjectInv
      <3>2. NoEntry # "marked" /\ NoEntry # "complete"
        BY NothingAssumption DEF Stages
      <3> QED
        BY <1>11, <1>12, <3>1, <3>2
    <2>3. ASSUME NEW k \in 1 .. n, history'[p][k].status = "ready"
          PROVE  BundleAt(p, k)' \in recorded[p]
      <3>1. k # n
        BY <1>4, <1>6, <1>7, <2>3
      <3>2. k \in Revisions(p)
        BY <1>11, <3>1
      <3> QED
        BY <1>3, <1>12, <2>3, <3>2 DEF ProjectInv
    <2> QED
      BY <1>1, <1>3, <1>11, <2>1, <2>2, <2>3 DEF ProjectInv
  <1>14. Progress(c)'
    <2>1. call'[c].pc = "journal" /\ call'[c].project = p /\ Number(c)' = n
          /\ call'[c].content = call[c].content /\ call'[c].dest = call[c].dest
          /\ call'[c].base = call[c].base
      BY <1>8 DEF Moved, OnSame, Number
    <2>2. Len(history'[p]) = n /\ BundleAt(p, n)' = BundleOf(c)'
      BY <1>4, <1>6, <1>7, <2>1 DEF BundleAt, BundleOf
    <2>3. journal[p][n] = NoEntry
      BY <1>3, <1>11 DEF ProjectInv
    <2> QED
      BY <1>1, <1>3, <2>1, <2>2, <2>3 DEF Progress, InHistory, InDest, HasEntry
  <1>15. \A q \in Projects : ProjectInv(q)'
    BY <1>1, <1>10, <1>13, ProjectKept
  <1> QED
    BY <1>1, <1>8, <1>9, <1>10, <1>14, <1>15, RecordStep DEF HasEntry

\* Its journal is opened.
LEMMA WriteJournalStep ==
  ASSUME PInv, NEW c \in Callers, WriteJournal(c)
  PROVE  PInv'
  <1> USE DEF PInv
  <1>1. /\ UNCHANGED <<inputs, project, history, dest, copy, recorded, faults, strangers>>
        /\ call[c].pc = "journal" /\ call[c].pc \in HasEntry /\ Goto(c, "load")
    BY DEF WriteJournal, At, HasEntry
  <1> PICK p \in Projects, n \in Revisions(call[c].project) :
         p = call[c].project /\ n = Number(c) /\ n \in Seqs
    BY <1>1, InRecord
  <1>2. journal' = [journal EXCEPT ![p][n] = "prepared"]
    BY DEF WriteJournal
  <1>3. journal[p][n] = NoEntry
    BY <1>1 DEF Progress
  <1>4. ~Named(p, n)
    BY <1>3, NothingAssumption DEF Named, ProjectInv, Stages
  <1>5. /\ journal' \in [Projects -> [Seqs -> Stages \union {NoEntry}]] /\ journal'[p][n] = "prepared"
        /\ \A q \in Projects : ProjectInv(q)'
        /\ \A q \in Projects \ {p} : SameProject(q)
    <2> PICK x \in Stages : x = "prepared" /\ x # "marked" /\ x # "complete"
      BY DEF Stages
    <2>1. UNCHANGED <<history, project, copy, recorded>> /\ n \in Revisions(p)
      BY <1>1
    <2>2. journal' = [journal EXCEPT ![p][n] = x]
      BY <1>2
    <2> QED
      BY <1>4, <2>1, <2>2, JournalSet
  <1>6. Moved(c, "load") /\ OnSame(c) /\ call'[c].dest = call[c].dest
    BY <1>1, GoneTo DEF Places
  <1>7. TypeOK'
    BY <1>1, <1>5, <1>6 DEF TypeOK, Moved, CallRecord
  <1>8. Progress(c)'
    <2>1. call'[c].pc = "load" /\ call'[c].project = p /\ Number(c)' = n /\ BundleOf(c)' = BundleOf(c)
      BY <1>6 DEF Moved, OnSame, Number, BundleOf
    <2>2. BundleAt(p, n)' = BundleOf(c) /\ Len(history'[p]) = n
      BY <1>1, InRecord DEF BundleAt
    <2>3. ~Named(p, n)'
      BY <1>1, <1>4 DEF Named
    <2>4. call'[c].content \in Contents /\ call'[c].dest \in Dests /\ call'[c].base < MaxSeq
      BY <1>1, <1>6, InRecord DEF OnSame
    <2> QED
      BY <1>5, <2>1, <2>2, <2>3, <2>4 DEF Progress, InHistory, InDest, HasEntry
  <1> QED
    BY <1>1, <1>5, <1>6, <1>7, <1>8, RecordStep DEF HasEntry, InHistory

\* The project is loaded again.
LEMMA LoadProjectStep ==
  ASSUME PInv, NEW c \in Callers, LoadProject(c)
  PROVE  PInv'
  <1> USE DEF PInv
  <1> DEFINE w == [call[c] EXCEPT !.pc = "save", !.loaded = project[call[c].project]]
  <1>1. /\ UNCHANGED <<inputs, project, history, journal, dest, copy, recorded, faults, strangers>>
        /\ call[c].pc = "load" /\ call[c].pc \in HasEntry /\ call[c].pc \in InHistory
        /\ call' = [call EXCEPT ![c] = w]
    BY DEF LoadProject, At, HasEntry, InHistory
  <1> PICK p \in Projects, n \in Seqs : p = call[c].project /\ n = Number(c)
    BY <1>1, InRecord
  <1>2. project[p] \in Project /\ call[c] \in CallRecord /\ call \in [Callers -> CallRecord]
    BY DEF TypeOK, CallRecord
  <1>3. project[p] # NoCopy
    BY <1>2, NamesAssumption DEF Project, Bundle
  <1>4. /\ w \in CallRecord /\ w.pc = "save" /\ w.project = p /\ w.base = call[c].base
        /\ w.content = call[c].content /\ w.dest = call[c].dest /\ w.loaded = project[p]
    BY <1>2 DEF CallRecord, Places
  <1> HIDE DEF w
  <1>5. Moved(c, "save") /\ OnSame(c) /\ call'[c] = w
    BY <1>1, <1>2, <1>4 DEF Moved, OnSame
  <1>6. TypeOK'
    BY <1>1, <1>5 DEF TypeOK, Moved, CallRecord
  <1>7. \A q \in Projects : ProjectInv(q)' /\ SameProject(q)
    BY <1>1, ProjectsKept
  <1>8. Progress(c)'
    <2>1. Number(c)' = n /\ BundleOf(c)' = BundleOf(c)
      BY <1>4, <1>5 DEF Number, BundleOf
    <2>2. BundleAt(p, n)' = BundleOf(c) /\ Len(history'[p]) = n
      BY <1>1, InRecord DEF BundleAt
    <2>3. journal'[p][n] = "prepared" /\ ~Named(p, n)'
      BY <1>1 DEF Progress, Named
    <2>4. project[p].marker \in recorded'[p] \union {NoMarker}
      BY <1>1 DEF ProjectInv
    <2>5. call[c].content \in Contents /\ call[c].dest \in Dests /\ call[c].base < MaxSeq
      BY <1>1, InRecord
    <2> QED
      BY <1>3, <1>4, <1>5, <2>1, <2>2, <2>3, <2>4, <2>5 DEF Progress, InHistory, InDest, HasEntry
  <1> QED
    BY <1>1, <1>4, <1>5, <1>6, <1>7, <1>8, RecordStep DEF HasEntry

\* project.yaml names the bundle.
LEMMA SaveMarkerStep ==
  ASSUME PInv, NEW c \in Callers, SaveMarker(c)
  PROVE  PInv'
  <1> USE DEF PInv
  <1> DEFINE w == [call[c] EXCEPT !.pc = "marked", !.loaded = NoCopy]
             b == BundleOf(c)
             y == [call[c].loaded EXCEPT !.marker = b]
  <1>1. /\ UNCHANGED <<inputs, history, journal, dest, copy, faults, strangers>>
        /\ call[c].pc = "save" /\ call[c].pc \in HasEntry /\ call[c].pc \in InHistory
        /\ call' = [call EXCEPT ![c] = w]
    BY DEF SaveMarker, At, HasEntry, InHistory
  <1> PICK p \in Projects, n \in Seqs : p = call[c].project /\ n = Number(c)
    BY <1>1, InRecord
  <1>2. /\ project' = [project EXCEPT ![p] = y]
        /\ recorded' = [recorded EXCEPT ![p] = recorded[p] \union {b}]
    BY DEF SaveMarker
  <1>3. call[c] \in CallRecord /\ call \in [Callers -> CallRecord] /\ recorded \in [Projects -> SUBSET Bundle]
        /\ project \in [Projects -> Project]
    BY DEF TypeOK, CallRecord
  <1>4. b \in Bundle /\ call[c].loaded \in Project
    BY <1>1, <1>3, NumberInSeqs DEF Progress, CallRecord
  <1>5. /\ w \in CallRecord /\ w.pc = "marked" /\ w.project = p /\ w.base = call[c].base
        /\ w.content = call[c].content /\ w.dest = call[c].dest
    BY <1>3 DEF CallRecord, Places
  <1>6. y \in Project /\ y.marker = b
    BY <1>4 DEF Project
  <1>7. b.seq = n /\ b = BundleAt(p, n) /\ n \in Revisions(p) /\ journal[p][n] = "prepared"
    BY <1>1, InRecord DEF Progress, BundleOf
  <1>8. BundleOf(c)' = b /\ Number(c)' = n
    BY <1>1, <1>3, <1>5 DEF BundleOf, Number
  <1> HIDE DEF w, b, y
  <1>9. Moved(c, "marked") /\ OnSame(c) /\ call'[c] = w
    BY <1>1, <1>3, <1>5 DEF Moved, OnSame
  <1>10. /\ project' \in [Projects -> Project] /\ project'[p] = y
         /\ \A q \in Projects \ {p} : project'[q] = project[q]
    BY <1>2, <1>3, <1>6
  <1>11. /\ recorded' \in [Projects -> SUBSET Bundle] /\ recorded'[p] = recorded[p] \union {b}
         /\ \A q \in Projects \ {p} : recorded'[q] = recorded[q]
    BY <1>2, <1>3, <1>4
  <1>12. TypeOK'
    BY <1>1, <1>9, <1>10, <1>11 DEF TypeOK, Moved, CallRecord
  <1>13. \A q \in Projects \ {p} : SameProject(q) /\ ProjectInv(q)'
    <2>1. \A q \in Projects \ {p} : SameProject(q)
      BY <1>1, <1>11 DEF SameProject
    <2> QED
      BY <1>1, <1>10, <2>1, ProjectKept
  <1>14. ProjectInv(p)'
    <2>1. Revisions(p)' = Revisions(p) /\ \A k \in Seqs : BundleAt(p, k)' = BundleAt(p, k)
      BY <1>1 DEF Revisions, BundleAt
    <2>2. ASSUME NEW x \in recorded'[p]
          PROVE  /\ x.seq \in Revisions(p) /\ x = BundleAt(p, x.seq)
                 /\ journal[p][x.seq] \in {"prepared", "marked", "complete"}
      <3>1. CASE x = b
        BY <1>7, <3>1
      <3>2. CASE x \in recorded[p]
        BY <3>2 DEF ProjectInv
      <3> QED
        BY <1>11, <3>1, <3>2
    <2>3. \A x \in recorded'[p] : x = BundleAt(p, x.seq)'
      BY <1>1, <2>2 DEF BundleAt
    <2>4. \A k \in Revisions(p) : k \in Seqs
      BY HistoryTypes
    <2> QED
      BY <1>1, <1>6, <1>10, <1>11, <2>1, <2>2, <2>3, <2>4 DEF ProjectInv
  <1>15. Progress(c)'
    <2>1. BundleAt(p, n)' = b /\ Len(history'[p]) = n
      BY <1>1, <1>7, InRecord DEF BundleAt
    <2>2. call[c].content \in Contents /\ call[c].dest \in Dests /\ call[c].base < MaxSeq
      BY <1>1, InRecord
    <2> QED
      BY <1>5, <1>8, <1>9, <1>11, <2>1, <2>2 DEF Progress, InHistory, InDest, HasEntry
  <1> QED
    BY <1>1, <1>5, <1>9, <1>12, <1>13, <1>14, <1>15, RecordStep DEF HasEntry

\* The marker is refused: nothing has named the bundle, and the journal may say that it failed.
LEMMA MarkerFailsStep ==
  ASSUME PInv, NEW c \in Callers, MarkerFails(c)
  PROVE  PInv'
  <1> USE DEF PInv
  <1>1. /\ UNCHANGED <<inputs, project, history, dest, copy, recorded, strangers>>
        /\ call[c].pc \in {"load", "save"} /\ call[c].pc \in HasEntry /\ call[c].pc \in InHistory
        /\ Keep(c) /\ faults' \in Nat
    BY DEF MarkerFails, At, HasEntry, InHistory, Fault, TypeOK
  <1> PICK p \in Projects, n \in Seqs : p = call[c].project /\ n = Number(c) /\ n \in Revisions(p)
    BY <1>1, InRecord
  <1>2. journal' = journal \/ journal' = [journal EXCEPT ![p][n] = "failed"]
    BY DEF MarkerFails
  <1>3. ~Named(p, n)
    BY <1>1 DEF Progress
  <1>4. /\ journal' \in [Projects -> [Seqs -> Stages \union {NoEntry}]]
        /\ \A q \in Projects : ProjectInv(q)'
        /\ \A q \in Projects \ {p} : SameProject(q)
    <2>1. CASE journal' = journal
      BY <1>1, <2>1, ProjectsKept DEF TypeOK
    <2>2. CASE journal' = [journal EXCEPT ![p][n] = "failed"]
      <3>1. "failed" \in Stages
        BY DEF Stages
      <3> QED
        BY <1>1, <1>3, <2>2, <3>1, JournalSet
    <2> QED
      BY <1>2, <2>1, <2>2
  <1>5. Moved(c, "preview") /\ OnSame(c)
    BY <1>1, Kept
  <1>6. TypeOK'
    BY <1>1, <1>4, <1>5 DEF TypeOK, Moved, CallRecord
  <1> QED
    BY <1>1, <1>4, <1>5, <1>6, GiveUpStep

\* A write fails: what is there stays there, and after the marker the journal may be tried again.
LEMMA WriteFailsStep ==
  ASSUME PInv, NEW c \in Callers, WriteFails(c)
  PROVE  PInv'
  <1> USE DEF PInv
  <1>1. /\ UNCHANGED <<inputs, project, history, dest, copy, recorded, strangers>>
        /\ call[c].pc \in {"entry", "journal", "ready"} /\ call[c].pc \in InHistory
        /\ Keep(c) /\ faults' \in Nat
    BY DEF WriteFails, At, InHistory, Fault, TypeOK
  <1> PICK p \in Projects, n \in Seqs : p = call[c].project /\ n = Number(c)
    BY <1>1, NumberInSeqs
  <1>2. /\ journal' \in [Projects -> [Seqs -> Stages \union {NoEntry}]]
        /\ \A q \in Projects : ProjectInv(q)'
        /\ \A q \in Projects \ {p} : SameProject(q)
    <2>1. CASE journal' = journal
      BY <1>1, <2>1, ProjectsKept DEF TypeOK
    <2>2. CASE journal' # journal
      <3>1. call[c].pc = "ready" /\ journal' = [journal EXCEPT ![p][n] = "marked"]
        BY <2>2 DEF WriteFails, At
      <3> PICK x \in Stages : x = "marked" /\ x # "failed" /\ x # "complete"
        BY DEF Stages
      <3>2. n \in Revisions(p) /\ BundleAt(p, n) \in recorded[p]
        BY <3>1, InRecord DEF HasEntry, Progress
      <3>3. journal' = [journal EXCEPT ![p][n] = x]
        BY <3>1
      <3>4. UNCHANGED <<history, project, copy, recorded>>
        BY <1>1
      <3> QED
        BY <3>2, <3>3, <3>4, JournalSet
    <2> QED
      BY <2>1, <2>2
  <1>3. Moved(c, "preview") /\ OnSame(c)
    BY <1>1, Kept
  <1>4. TypeOK'
    BY <1>1, <1>2, <1>3 DEF TypeOK, Moved, CallRecord
  <1> QED
    BY <1>1, <1>2, <1>3, <1>4, GiveUpStep

\* The journal says that the marker is there, or the failure to say so is ignored.
LEMMA MarkJournalStep ==
  ASSUME PInv, NEW c \in Callers, MarkJournal(c)
  PROVE  PInv'
  <1> USE DEF PInv
  <1>1. /\ UNCHANGED <<inputs, project, history, dest, copy, recorded, strangers>>
        /\ call[c].pc = "marked" /\ call[c].pc \in HasEntry /\ call[c].pc \in InHistory
        /\ Goto(c, "ready") /\ faults' \in Nat
    BY DEF MarkJournal, At, HasEntry, InHistory, Fault, TypeOK
  <1> PICK p \in Projects, n \in Seqs : p = call[c].project /\ n = Number(c) /\ n \in Revisions(p)
    BY <1>1, InRecord
  <1>2. BundleOf(c) \in recorded[p] /\ BundleAt(p, n) = BundleOf(c)
    BY <1>1, InRecord DEF Progress
  <1>3. /\ journal' \in [Projects -> [Seqs -> Stages \union {NoEntry}]]
        /\ \A q \in Projects : ProjectInv(q)'
        /\ \A q \in Projects \ {p} : SameProject(q)
    <2>1. CASE journal' = journal
      BY <1>1, <2>1, ProjectsKept DEF TypeOK
    <2>2. CASE journal' # journal
      <3> PICK x \in Stages : x = "marked" /\ x # "failed" /\ x # "complete"
        BY DEF Stages
      <3>1. journal' = [journal EXCEPT ![p][n] = x]
        BY <2>2 DEF MarkJournal
      <3>2. UNCHANGED <<history, project, copy, recorded>>
        BY <1>1
      <3>3. BundleAt(p, n) \in recorded[p]
        BY <1>2
      <3> QED
        BY <3>1, <3>2, <3>3, JournalSet
    <2> QED
      BY <2>1, <2>2
  <1>4. Moved(c, "ready") /\ OnSame(c) /\ call'[c].dest = call[c].dest
    BY <1>1, GoneTo DEF Places
  <1>5. TypeOK'
    BY <1>1, <1>3, <1>4 DEF TypeOK, Moved, CallRecord
  <1>6. Progress(c)'
    <2>1. call'[c].pc = "ready" /\ call'[c].project = p /\ Number(c)' = n /\ BundleOf(c)' = BundleOf(c)
      BY <1>4 DEF Moved, OnSame, Number, BundleOf
    <2>2. BundleAt(p, n)' = BundleOf(c) /\ Len(history'[p]) = n
      BY <1>1, InRecord DEF BundleAt
    <2>3. call'[c].content \in Contents /\ call'[c].dest \in Dests /\ call'[c].base < MaxSeq
      BY <1>1, <1>4, InRecord DEF OnSame
    <2> QED
      BY <1>1, <1>2, <2>1, <2>2, <2>3 DEF Progress, InHistory, InDest, HasEntry
  <1> QED
    BY <1>1, <1>3, <1>4, <1>5, <1>6, RecordStep DEF HasEntry

\* The revision is presented as ready: the marker has named its bundle.
LEMMA WriteReadyStep ==
  ASSUME PInv, NEW c \in Callers, WriteReady(c)
  PROVE  PInv'
  <1> USE DEF PInv
  <1>1. /\ UNCHANGED <<inputs, project, journal, dest, copy, recorded, faults, strangers>>
        /\ call[c].pc = "ready" /\ call[c].pc \in HasEntry /\ call[c].pc \in InHistory
        /\ Goto(c, "complete")
    BY DEF WriteReady, At, HasEntry, InHistory
  <1> PICK p \in Projects, n \in Seqs : p = call[c].project /\ n = Number(c) /\ n \in Revisions(p)
    BY <1>1, InRecord
  <1> DEFINE e == [history[p][n] EXCEPT !.status = "ready"]
             H == [history[p] EXCEPT ![n] = e]
  <1>2. history' = [history EXCEPT ![p] = H]
    BY DEF WriteReady
  <1>3. BundleOf(c) \in recorded[p] /\ BundleAt(p, n) = BundleOf(c) /\ Len(history[p]) = n
    BY <1>1, InRecord DEF Progress
  <1>4. history[p] \in Seq(Entry) /\ history[p][n] \in Entry /\ history \in [Projects -> Seq(Entry)]
    BY HistoryTypes DEF TypeOK
  <1>5. /\ e \in Entry /\ e.status = "ready" /\ e.content = history[p][n].content
        /\ e.dest = history[p][n].dest
    BY <1>4 DEF Entry
  <1> HIDE DEF e
  <1>6. /\ H \in Seq(Entry) /\ Len(H) = Len(history[p]) /\ H[n] = e
        /\ \A k \in Revisions(p) \ {n} : H[k] = history[p][k]
    BY <1>4, <1>5, ExceptSeq DEF Revisions
  <1> HIDE DEF H
  <1>7. /\ history' \in [Projects -> Seq(Entry)] /\ history'[p] = H
        /\ \A q \in Projects \ {p} : history'[q] = history[q]
    BY <1>2, <1>4, <1>6
  <1>8. Moved(c, "complete") /\ OnSame(c) /\ call'[c].dest = call[c].dest
    BY <1>1, GoneTo DEF Places
  <1>9. TypeOK'
    <2>1. \A q \in Projects : Len(history'[q]) <= MaxSeq
      BY <1>6, <1>7, HistoryTypes
    <2> QED
      BY <1>1, <1>7, <1>8, <2>1, TypesKeptToo DEF Moved, TypeOK
  <1>10. \A q \in Projects \ {p} : SameProject(q)
    BY <1>1, <1>7 DEF SameProject
  <1>11. Revisions(p)' = Revisions(p) /\ \A k \in Revisions(p) : BundleAt(p, k)' = BundleAt(p, k)
    BY <1>5, <1>6, <1>7 DEF Revisions, BundleAt
  <1>12. ProjectInv(p)'
    <2>1. ASSUME NEW b \in recorded[p]
          PROVE  /\ b.seq \in Revisions(p) /\ b = BundleAt(p, b.seq)'
                 /\ journal[p][b.seq] \in {"prepared", "marked", "complete"}
      <3>1. /\ b.seq \in Revisions(p) /\ b = BundleAt(p, b.seq)
            /\ journal[p][b.seq] \in {"prepared", "marked", "complete"}
        BY <2>1 DEF ProjectInv
      <3>2. history'[p][b.seq].content = history[p][b.seq].content
            /\ history'[p][b.seq].dest = history[p][b.seq].dest
        BY <1>5, <1>6, <1>7, <3>1
      <3> QED
        BY <3>1, <3>2 DEF BundleAt
    <2>2. ASSUME NEW k \in Seqs
          PROVE  /\ journal[p][k] # NoEntry => k \in Revisions(p)
                 /\ journal[p][k] = "marked" => BundleAt(p, k)' \in recorded[p]
                 /\ journal[p][k] = "complete" => history'[p][k].status = "ready"
      <3>1. /\ journal[p][k] # NoEntry => k \in Revisions(p)
            /\ journal[p][k] = "marked" => BundleAt(p, k) \in recorded[p]
            /\ journal[p][k] = "complete" => history[p][k].status = "ready"
        BY DEF ProjectInv
      <3>2. NoEntry # "marked" /\ NoEntry # "complete"
        BY NothingAssumption DEF Stages
      <3> QED
        BY <1>5, <1>6, <1>7, <1>11, <3>1, <3>2
    <2>3. ASSUME NEW k \in Revisions(p), history'[p][k].status = "ready"
          PROVE  BundleAt(p, k)' \in recorded[p]
      <3>1. CASE k = n
        BY <1>3, <1>11, <3>1
      <3>2. CASE k # n
        <4>1. history'[p][k] = history[p][k]
          BY <1>6, <1>7, <3>2
        <4> QED
          BY <1>11, <2>3, <4>1 DEF ProjectInv
      <3> QED
        BY <3>1, <3>2
    <2> QED
      BY <1>1, <1>11, <2>1, <2>2, <2>3 DEF ProjectInv
  <1>13. Progress(c)'
    <2>1. call'[c].pc = "complete" /\ call'[c].project = p /\ Number(c)' = n
          /\ BundleOf(c)' = BundleOf(c)
      BY <1>8 DEF Moved, OnSame, Number, BundleOf
    <2>2. BundleAt(p, n)' = BundleOf(c) /\ Len(history'[p]) = n /\ history'[p][n].status = "ready"
      BY <1>3, <1>5, <1>6, <1>7, <1>11
    <2>3. call'[c].content \in Contents /\ call'[c].dest \in Dests /\ call'[c].base < MaxSeq
      BY <1>1, <1>8, InRecord DEF OnSame
    <2> QED
      BY <1>1, <1>3, <2>1, <2>2, <2>3 DEF Progress, InHistory, InDest, HasEntry
  <1>14. \A q \in Projects : ProjectInv(q)'
    BY <1>1, <1>10, <1>12, ProjectKept
  <1> QED
    BY <1>1, <1>8, <1>9, <1>10, <1>13, <1>14, RecordStep DEF HasEntry

\* The journal is closed, or the failure to close it is ignored.
LEMMA CompleteStep ==
  ASSUME PInv, NEW c \in Callers, Complete(c)
  PROVE  PInv'
  <1> USE DEF PInv
  <1>1. /\ UNCHANGED <<inputs, project, history, dest, copy, recorded, strangers>>
        /\ call[c].pc = "complete" /\ call[c].pc \in HasEntry /\ call[c].pc \in InHistory
        /\ End(c) /\ faults' \in Nat
    BY DEF Complete, At, HasEntry, InHistory, Fault, TypeOK
  <1> PICK p \in Projects, n \in Seqs : p = call[c].project /\ n = Number(c) /\ n \in Revisions(p)
    BY <1>1, InRecord
  <1>2. history[p][n].status = "ready"
    BY <1>1 DEF Progress
  <1>3. /\ journal' \in [Projects -> [Seqs -> Stages \union {NoEntry}]]
        /\ \A q \in Projects : ProjectInv(q)'
        /\ \A q \in Projects \ {p} : SameProject(q)
    <2>1. CASE journal' = journal
      BY <1>1, <2>1, ProjectsKept DEF TypeOK
    <2>2. CASE journal' # journal
      <3> PICK x \in Stages : x = "complete" /\ x # "failed" /\ x # "marked"
        BY DEF Stages
      <3>1. journal' = [journal EXCEPT ![p][n] = x]
        BY <2>2 DEF Complete
      <3>2. UNCHANGED <<history, project, copy, recorded>>
        BY <1>1
      <3> QED
        BY <1>2, <3>1, <3>2, JournalSet
    <2> QED
      BY <2>1, <2>2
  <1>4. Moved(c, "idle")
    BY <1>1, Ended
  <1>5. TypeOK'
    BY <1>1, <1>3, <1>4 DEF TypeOK, Moved, CallRecord
  <1> QED
    BY <1>1, <1>3, <1>4, <1>5, GiveUpStep

-----------------------------------------------------------------------------
(* Those who write project.yaml without a lock.                                 *)

LEMMA LoadEditStep ==
  ASSUME PInv, NEW p \in Projects, LoadEdit(p)
  PROVE  PInv'
  <1> USE DEF PInv
  <1>1. /\ UNCHANGED <<inputs, project, history, journal, dest, call, recorded, faults>>
        /\ copy' = [copy EXCEPT ![p] = project[p]] /\ strangers' \in Nat
    BY DEF LoadEdit, Stranger, TypeOK
  <1>2. TypeOK'
    BY <1>1 DEF TypeOK
  <1>3. /\ \A q \in Projects : SameProject(q)
        /\ \A d \in Dests : SameDest(d)
    BY <1>1 DEF SameProject, SameDest
  <1>4. ASSUME NEW q \in Projects PROVE ProjectInv(q)'
    <2>1. copy'[q] = IF q = p THEN project[q] ELSE copy[q]
      BY <1>1 DEF TypeOK
    <2>2. ProjectInv(q) /\ SameProject(q)
      BY <1>3
    <2> QED
      BY <1>1, <2>1, <2>2 DEF ProjectInv, SameProject, Revisions, BundleAt
  <1> QED
    BY <1>1, <1>2, <1>3, <1>4, OtherStep

\* An old copy of the project is saved: the marker in it was there once.
LEMMA SaveEditStep ==
  ASSUME PInv, NEW p \in Projects, SaveEdit(p)
  PROVE  PInv'
  <1> USE DEF PInv
  <1> DEFINE y == [copy[p] EXCEPT !.edits = @ + 1]
  <1>1. /\ UNCHANGED <<inputs, history, journal, dest, call, recorded, faults, strangers>>
        /\ copy[p] # NoCopy /\ project' = [project EXCEPT ![p] = y]
        /\ copy' = [copy EXCEPT ![p] = NoCopy]
    BY DEF SaveEdit
  <1>2. copy[p] \in Project /\ copy \in [Projects -> Project \union {NoCopy}]
        /\ project \in [Projects -> Project]
    BY <1>1 DEF TypeOK
  <1>3. y \in Project /\ y.marker = copy[p].marker
    BY <1>2 DEF Project
  <1> HIDE DEF y
  <1>4. /\ project' \in [Projects -> Project] /\ project'[p] = y /\ copy'[p] = NoCopy
        /\ copy' \in [Projects -> Project \union {NoCopy}]
        /\ \A q \in Projects \ {p} : project'[q] = project[q] /\ copy'[q] = copy[q]
    BY <1>1, <1>2, <1>3
  <1>5. TypeOK'
    BY <1>1, <1>4 DEF TypeOK
  <1>6. /\ \A q \in Projects : SameProject(q)
        /\ \A d \in Dests : SameDest(d)
    BY <1>1 DEF SameProject, SameDest
  <1>7. ASSUME NEW q \in Projects PROVE ProjectInv(q)'
    <2>1. CASE q # p
      BY <1>4, <1>6, <2>1, ProjectKept
    <2>2. CASE q = p
      <3>1. ProjectInv(p) /\ SameProject(p)
        BY <1>6
      <3> QED
        BY <1>1, <1>3, <1>4, <2>2, <3>1 DEF ProjectInv, SameProject, Revisions, BundleAt
    <2> QED
      BY <2>1, <2>2
  <1> QED
    BY <1>1, <1>5, <1>6, <1>7, OtherStep

-----------------------------------------------------------------------------
(* The theorems.                                                                *)

LEMMA InitInv == Init => PInv
  <1> SUFFICES ASSUME Init PROVE PInv
    OBVIOUS
  <1> PICK f \in [Seqs -> {NoFile} \union [owner : {Foreign}, content : Contents, intact : {TRUE}]] :
        dest = [d \in Dests |-> [files |-> f, other |-> 0, claims |-> [n \in Seqs |-> NoClaim]]]
    BY DEF Init
  <1>1. /\ inputs \in [Projects -> Contents]
        /\ project = [p \in Projects |-> [marker |-> NoMarker, edits |-> 0]]
        /\ history = [p \in Projects |-> <<>>]
        /\ journal = [p \in Projects |-> [n \in Seqs |-> NoEntry]]
        /\ call = [c \in Callers |-> NoCall] /\ copy = [p \in Projects |-> NoCopy]
        /\ recorded = [p \in Projects |-> {}] /\ faults = 0 /\ strangers = 0
    BY DEF Init
  <1>2. TypeOK
    <2>1. history \in [Projects -> Seq(Entry)] /\ \A p \in Projects : Len(history[p]) <= MaxSeq
      <3>1. <<>> \in Seq(Entry) /\ Len(<<>>) = 0 /\ 0 <= MaxSeq
        BY BoundsAssumption
      <3> QED
        BY <1>1, <3>1
    <2>2. dest \in [Dests -> Dest]
      <3>1. f \in [Seqs -> File \union {NoFile}]
        BY DEF File
      <3> QED
        BY <3>1 DEF Dest
    <2>3. NoCall \in CallRecord
      BY BoundsAssumption DEF NoCall, CallRecord, Places
    <2>4. project \in [Projects -> Project]
      BY <1>1 DEF Project
    <2> QED
      BY <1>1, <2>1, <2>2, <2>3, <2>4 DEF TypeOK, CallRecord
  <1>3. OneAtATime /\ \A c \in Callers : Progress(c)
    BY <1>1 DEF OneAtATime, Progress, NoCall, InHistory, InDest, HasEntry
  <1>4. ASSUME NEW p \in Projects PROVE ProjectInv(p)
    <2>1. /\ recorded[p] = {} /\ copy[p] = NoCopy /\ project[p].marker = NoMarker
          /\ \A n \in Seqs : journal[p][n] = NoEntry
      BY <1>1
    <2>2. Revisions(p) = {}
      BY <1>1 DEF Revisions
    <2>3. NoEntry # "marked" /\ NoEntry # "complete"
      BY NothingAssumption DEF Stages
    <2> QED
      BY <2>1, <2>2, <2>3 DEF ProjectInv
  <1> QED
    BY <1>2, <1>3, <1>4 DEF PInv

LEMMA StepInv == PInv /\ [Next]_vars => PInv'
  <1> SUFFICES ASSUME PInv, [Next]_vars PROVE PInv'
    OBVIOUS
  <1>1. ASSUME NEW c \in Callers, NEW p \in Projects, Preview(c, p) PROVE PInv'
    BY <1>1, PreviewStep
  <1>2. ASSUME NEW c \in Callers, NEW d \in Dests, Publish(c, d) PROVE PInv'
    BY <1>2, PublishStep
  <1>3. ASSUME NEW c \in Callers, Refuse(c) \/ Drop(c) \/ Trouble(c) PROVE PInv'
    BY <1>3, RefuseStep, DropStep, RenderFailsStep, WriteFailsStep, CrashStep DEF Trouble
  <1>4. ASSUME NEW c \in Callers, Proceed(c) PROVE PInv'
    BY <1>4, ReserveStep, StageStep, CommitStep, WriteEntryStep, WriteJournalStep, LoadProjectStep,
       SaveMarkerStep, MarkerFailsStep, MarkJournalStep, WriteReadyStep, CompleteStep DEF Proceed
  <1>5. ASSUME NEW p \in Projects, Read(p) PROVE PInv'
    BY <1>5, ReadStep
  <1>6. CASE Interfere
    BY <1>6, ChangeInputsStep, LoadEditStep, SaveEditStep, TouchDestStep DEF Interfere
  <1>7. CASE UNCHANGED vars
    <2>1. TypeOK' /\ call' = call
      BY <1>7 DEF vars, PInv, TypeOK
    <2>2. \A q \in Projects : ProjectInv(q)' /\ SameProject(q)
      BY <1>7, ProjectsKept DEF vars
    <2>3. \A d \in Dests : SameDest(d)
      BY <1>7 DEF vars, SameDest
    <2> QED
      BY <2>1, <2>2, <2>3, OtherStep
  <1> QED
    BY <1>1, <1>2, <1>3, <1>4, <1>5, <1>6, <1>7 DEF Next

\* The inductive invariant: how history, journal and marker of a project agree, how far each
\* publication has got with them, and that the locks exclude.
THEOREM Invariance == Spec => []PInv
  BY InitInv, StepInv, PTL DEF Spec

\* A revision is presented as ready only if project.yaml has named exactly its bundle at some
\* time, whoever completed the history (_reconcile_history_locked) and after whatever crash.
THEOREM ReadyIsTrue == Spec => []ReadyWasRecorded
  <1>1. PInv => ReadyWasRecorded
    BY DEF PInv, ProjectInv, ReadyWasRecorded
  <1> QED
    BY <1>1, Invariance, PTL

\* What lies in a destination, as far as others may rely on it.
FilesKept ==
  \A d \in Dests, n \in Seqs : dest[d].files[n] # NoFile =>
    /\ dest'[d].files[n] # NoFile
    /\ dest'[d].files[n].owner = dest[d].files[n].owner
    /\ dest'[d].files[n].content = dest[d].files[n].content

\* A change of everything in a destination but its files.
LEMMA SameFiles ==
  ASSUME \A d \in Dests : dest'[d].files = dest[d].files
  PROVE  FilesKept
  BY DEF FilesKept

\* Files that are put where there were none.
LEMMA PutFiles ==
  ASSUME NEW d \in Dests, NEW n \in Seqs, dest[d].files[n] = NoFile,
         \A u \in Dests \ {d} : dest'[u] = dest[u],
         \A k \in Seqs \ {n} : dest'[d].files[k] = dest[d].files[k]
  PROVE  FilesKept
  BY DEF FilesKept

LEMMA FilesStay == PInv /\ [Next]_vars => FilesKept
  <1> SUFFICES ASSUME PInv, [Next]_vars PROVE FilesKept
    OBVIOUS
  <1> USE DEF PInv
  <1>1. dest \in [Dests -> Dest] /\ \A d \in Dests : dest[d] \in Dest
    BY DEF TypeOK
  <1>2. CASE dest' = dest
    BY <1>2, SameFiles
  <1>3. ASSUME NEW c \in Callers, Reserve(c) PROVE FilesKept
    <2>1. CASE Reserved(c)
      BY <1>1, <2>1, SameFiles DEF Reserved, Dest
    <2>2. CASE ~Reserved(c)
      BY <1>2, <1>3, <2>2 DEF Reserve
    <2> QED
      BY <2>1, <2>2
  <1>4. ASSUME NEW c \in Callers, Stage(c) PROVE FilesKept
    BY <1>1, <1>4, SameFiles DEF Stage, Dest
  <1>5. ASSUME NEW c \in Callers, RenderFails(c) PROVE FilesKept
    <2>1. \/ dest' = [dest EXCEPT ![call[c].dest].other = @ - 1,
                                   ![call[c].dest].claims[Number(c)].state = "clean"]
          \/ dest' = [dest EXCEPT ![call[c].dest].claims[Number(c)].state = "partial"]
      BY <1>5 DEF RenderFails
    <2>2. \A u \in Dests : dest'[u].files = dest[u].files
      BY <1>1, <2>1 DEF Dest
    <2> QED
      BY <2>2, SameFiles
  <1>6. ASSUME NEW c \in Callers, Commit(c) PROVE FilesKept
    <2>1. call[c].pc \in InDest
      BY <1>6 DEF Commit, At, InDest
    <2> PICK d \in Dests, n \in Seqs : d = call[c].dest /\ n = Number(c)
      BY <2>1, InItsDest
    <2>2. dest[d].files[n] = NoFile /\ dest[d].files \in [Seqs -> File \union {NoFile}]
      BY <2>1, InItsDest, DestTypes
    <2>3. /\ \A u \in Dests \ {d} : dest'[u] = dest[u]
          /\ \A k \in Seqs \ {n} : dest'[d].files[k] = dest[d].files[k]
      BY <1>1, <1>6, <2>2 DEF Commit
    <2> QED
      BY <2>2, <2>3, PutFiles
  <1>7. ASSUME NEW c \in Callers, Crash(c), dest' # dest PROVE FilesKept
    <2>1. call[c].pc \in InDest
      BY <1>7 DEF Crash, At, InDest
    <2> PICK d \in Dests, n \in Seqs : d = call[c].dest /\ n = Number(c)
      BY <2>1, InItsDest
    <2>2. dest[d].files[n] = NoFile /\ dest[d].files \in [Seqs -> File \union {NoFile}]
      BY <2>1, InItsDest, DestTypes
    <2> DEFINE file == [owner |-> call[c].project, content |-> call[c].content, intact |-> FALSE]
    <2>3. dest' = [dest EXCEPT ![d].files[n] = file]
      BY <1>7 DEF Crash
    <2> HIDE DEF file
    <2>4. /\ \A u \in Dests \ {d} : dest'[u] = dest[u]
          /\ \A k \in Seqs \ {n} : dest'[d].files[k] = dest[d].files[k]
      BY <1>1, <2>2, <2>3 DEF Dest
    <2> QED
      BY <2>2, <2>4, PutFiles
  <1>8. ASSUME NEW d \in Dests, TouchDest(d) PROVE FilesKept
    <2>1. dest[d].files \in [Seqs -> File \union {NoFile}] /\ dest[d] \in Dest
      BY DestTypes
    <2>2. CASE dest' = [dest EXCEPT ![d].other = @ + 1]
      BY <1>1, <2>2, SameFiles DEF Dest
    <2>3. ASSUME NEW n \in Seqs, dest[d].files[n] # NoFile,
                 dest' = [dest EXCEPT ![d].files[n].intact = FALSE]
          PROVE  FilesKept
      <3> DEFINE g == [dest[d].files[n] EXCEPT !.intact = FALSE]
      <3>1. dest[d].files[n] \in File
        BY <2>1, <2>3
      <3>2. /\ g \in File /\ g.owner = dest[d].files[n].owner
            /\ g.content = dest[d].files[n].content
        BY <3>1 DEF File
      <3>3. dest' = [dest EXCEPT ![d].files[n] = g]
        BY <1>1, <2>1, <2>3
      <3> HIDE DEF g
      <3>4. /\ \A u \in Dests \ {d} : dest'[u] = dest[u]
            /\ \A k \in Seqs \ {n} : dest'[d].files[k] = dest[d].files[k]
            /\ dest'[d].files[n] = g
        BY <1>1, <2>1, <3>3 DEF Dest
      <3> QED
        BY <3>2, <3>4, NothingAssumption DEF FilesKept
    <2> QED
      BY <1>8, <2>2, <2>3 DEF TouchDest
  <1>9. CASE Next
    <2>1. ASSUME NEW c \in Callers, NEW p \in Projects, Preview(c, p) PROVE FilesKept
      BY <1>2, <2>1 DEF Preview
    <2>2. ASSUME NEW c \in Callers, NEW d \in Dests, Publish(c, d) PROVE FilesKept
      BY <1>2, <2>2 DEF Publish
    <2>3. ASSUME NEW c \in Callers, Refuse(c) \/ Drop(c) PROVE FilesKept
      BY <1>2, <2>3 DEF Refuse, Drop
    <2>4. ASSUME NEW c \in Callers, Proceed(c) PROVE FilesKept
      <3>1. CASE dest' # dest
        BY <1>3, <1>4, <1>6, <2>4, <3>1 DEF Proceed, WriteEntry, WriteJournal, LoadProject,
           SaveMarker, MarkerFails, MarkJournal, WriteReady, Complete
      <3> QED
        BY <1>2, <3>1
    <2>5. ASSUME NEW c \in Callers, Trouble(c) PROVE FilesKept
      BY <1>2, <1>5, <1>7, <2>5 DEF Trouble, WriteFails
    <2>6. ASSUME NEW p \in Projects, Read(p) PROVE FilesKept
      BY <1>2, <2>6 DEF Read
    <2>7. CASE Interfere
      BY <1>2, <1>8, <2>7 DEF Interfere, ChangeInputs, LoadEdit, SaveEdit
    <2> QED
      BY <1>9, <2>1, <2>2, <2>3, <2>4, <2>5, <2>6, <2>7 DEF Next
  <1> QED
    BY <1>2, <1>9 DEF vars

\* A publication never writes over files of its stem that are already in a destination, of
\* another project, of an earlier attempt or of somebody else (_output_has_revision_collision).
THEOREM NothingIsOverwritten == Spec => BundlesAreKept
  <1>1. PInv /\ [Next]_vars =>
          [\A d \in Dests, n \in Seqs : dest[d].files[n] # NoFile =>
             /\ dest'[d].files[n] # NoFile
             /\ dest'[d].files[n].owner = dest[d].files[n].owner
             /\ dest'[d].files[n].content = dest[d].files[n].content]_vars
    BY FilesStay DEF FilesKept
  <1> QED
    BY <1>1, Invariance, PTL DEF Spec, BundlesAreKept

=============================================================================
