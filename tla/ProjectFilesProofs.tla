------------------------- MODULE ProjectFilesProofs -------------------------
(* Proofs about the two components that write into a project's directory, for   *)
(* all values of the constants.                                                 *)
(*                                                                              *)
(* The gateway (ExternalReferences): a result is used once, a reservation has   *)
(* its call, nothing stale is published and an import is all or nothing.        *)
(*                                                                              *)
(* The lifecycle of the project (ProjectLifecycle, composed with the gateway in *)
(* MCProjectFiles), whatever step but the write of the committed record fails:  *)
(* the authority over ledger entries ends with its transaction, the project is  *)
(* never lost, without a journal directory, registry and ledger agree, and a    *)
(* move loses no edition.  The invariant is in five layers, each relative to    *)
(* those before it: Ctl (calls and journal), Receipts (the ledger), Trees (the  *)
(* directory), Registers (the registry), Entered (the destination's entry).     *)
EXTENDS MCProjectFiles, FiniteSetTheorems, SequenceTheorems, TLAPS

-----------------------------------------------------------------------------
(* Counting the uses of a result.                                               *)

Imports(r) == {a \in DOMAIN attempts : attempts[a] = [result |-> r, outcome |-> "ok"]}

\* The imports that ended well are finitely many, so that Granted is a number.
LEMMA GrantedIsNat ==
  ASSUME TypeOK, NEW r \in Results
  PROVE  /\ IsFiniteSet(Imports(r)) /\ Cardinality(Imports(r)) \in Nat
         /\ Granted(r) = Cardinality(Imports(r)) + claimed[r]
         /\ Granted(r) \in Nat
  <1>1. DOMAIN attempts = 1 .. Len(attempts) /\ Len(attempts) \in Nat
    BY DEF TypeOK
  <1>2. IsFiniteSet(Imports(r)) /\ Cardinality(Imports(r)) \in Nat
    <2>1. IsFiniteSet(1 .. Len(attempts))
      BY <1>1, FS_Interval
    <2>2. Imports(r) \in SUBSET (1 .. Len(attempts))
      BY <1>1 DEF Imports
    <2> QED
      BY <2>1, <2>2, FS_Subset, FS_CardinalityType
  <1> QED
    BY <1>2 DEF Granted, Imports, TypeOK

\* Nothing of what a use is counted by has changed.
LEMMA SameUse ==
  ASSUME UNCHANGED <<attempts, claimed>>, NEW r \in Results,
         (At("committed") /\ import.result = r) <=> (At("committed") /\ import.result = r)'
  PROVE  Used(r)' = Used(r)
  BY DEF Used, Granted

\* Before its token is committed no use is counted twice.
LEMMA UsedIsNat ==
  ASSUME TypeOK, NEW r \in Results
  PROVE  Used(r) \in Nat /\ Granted(r) <= Used(r)
  BY GrantedIsNat DEF Used

\* The initial state satisfies the inductive invariant.
LEMMA InitInv == Init => GInv
  <1> SUFFICES ASSUME Init PROVE GInv
    OBVIOUS
  <1>1. TypeOK
    BY BoundsAssumption DEF Init, TypeOK, NoSearch, NoImport, Fresh, Search, Attempt
  <1>2. \A r \in Results : Imports(r) = {}
    BY DEF Init, Imports
  <1>3. \A r \in Results : Granted(r) = 0
    BY <1>1, <1>2, GrantedIsNat, FS_EmptySet DEF Init
  <1>4. UsedOnce
    BY <1>3 DEF Init, UsedOnce, Used, At, NoImport
  <1>5. StoreInv /\ ReservationsAreHeld /\ ImportInv /\ LeaseInv
    BY DEF Init, StoreInv, ReservationsAreHeld, Kept, Fresh, ImportInv, At, NoImport, LeaseInv,
      NoSearch
  <1>6. FilesInv /\ ImportIsAllOrNothing
    BY DEF Init, FilesInv, ImportIsAllOrNothing, At, NoImport
  <1> QED
    BY <1>1, <1>4, <1>5, <1>6 DEF GInv

-----------------------------------------------------------------------------
(* The switch and the searches.                                                 *)

\* Steps that touch no token, no import and no file.
LEMMA NetStep ==
  ASSUME GInv, UNCHANGED <<store, previews, import, claim, project, history>>,
         TypeOK', LeaseInv'
  PROVE  GInv'
  <1> USE DEF GInv
  <1>1. StoreInv' /\ ReservationsAreHeld' /\ ImportInv'
    BY DEF StoreInv, ReservationsAreHeld, Kept, ImportInv, At, Current, store, history
  <1>2. UsedOnce'
    <2>1. \A r \in Results : Used(r)' = Used(r)
      BY SameUse DEF At, history
    <2> QED
      BY <2>1 DEF UsedOnce, Kept, store, history
  <1>3. ~LateSaves => FilesInv' /\ ImportIsAllOrNothing'
    BY DEF FilesInv, ImportIsAllOrNothing, At, Current, Verified, history
  <1> QED
    BY <1>1, <1>2, <1>3

\* The switch begins another epoch; the searches under way are cut.
LEMMA SetNetworkStep ==
  ASSUME GInv, NEW on \in BOOLEAN, SetNetwork(on)
  PROVE  GInv'
  <1> USE DEF GInv
  <1>1. UNCHANGED <<store, previews, import, claim, project, history>>
    BY DEF SetNetwork
  <1>2. /\ network' \in [enabled : BOOLEAN, epoch : Nat] /\ network'.epoch = network.epoch + 1
        /\ network.epoch \in Nat
    BY DEF SetNetwork, TypeOK
  <1>3. \A s \in Searchers :
          /\ [search[s] EXCEPT !.cut = TRUE].epoch = search[s].epoch
          /\ [search[s] EXCEPT !.cut = TRUE].pc = search[s].pc
          /\ [search[s] EXCEPT !.cut = TRUE] \in Search
    <2> SUFFICES ASSUME NEW s \in Searchers, search[s] \in Search
                 PROVE  /\ [search[s] EXCEPT !.cut = TRUE].epoch = search[s].epoch
                        /\ [search[s] EXCEPT !.cut = TRUE].pc = search[s].pc
                        /\ [search[s] EXCEPT !.cut = TRUE] \in Search
      BY DEF TypeOK
    <2> QED
      BY DEF Search
  <1>4. search' \in [Searchers -> Search]
    BY <1>3 DEF SetNetwork, TypeOK
  <1>5. counts' \in [saves : Nat, switches : Nat, crashes : Nat]
    <2>1. counts \in [saves : Nat, switches : Nat, crashes : Nat]
      BY DEF TypeOK
    <2> QED
      BY <2>1 DEF SetNetwork
  <1>6. TypeOK'
    BY <1>1, <1>2, <1>4, <1>5 DEF SetNetwork, TypeOK, store, history
  <1>7. \A s \in Searchers : search'[s].pc # "idle" =>
          search[s].pc # "idle" /\ search'[s].epoch = search[s].epoch
    BY <1>3 DEF SetNetwork
  <1>8. LeaseInv'
    <2> SUFFICES ASSUME NEW s \in Searchers, search'[s].pc # "idle"
                 PROVE  search'[s].epoch <= network'.epoch /\ search'[s].epoch # network'.epoch
      BY DEF LeaseInv
    <2>1. search[s].epoch <= network.epoch /\ search[s].epoch \in Nat
      BY <1>7 DEF LeaseInv, TypeOK, Search
    <2> QED
      BY <1>2, <1>7, <2>1
  <1> QED
    BY <1>1, <1>6, <1>8, NetStep

\* A lease is of the present epoch; a search that goes on keeps it.
LEMMA SearchStep ==
  ASSUME GInv, NEW s \in Searchers,
         AcquireLease(s) \/ Send(s) \/ Answered(s) \/ TimeOut(s) \/ ReleaseLease(s)
  PROVE  GInv'
  <1> USE DEF GInv
  <1>1. UNCHANGED <<network, store, previews, import, claim, project, history, counts>>
    BY DEF AcquireLease, Send, Answered, TimeOut, ReleaseLease, Searching
  <1>2. PICK w \in Search :
          /\ search' = [search EXCEPT ![s] = w]
          /\ \/ w.pc = "idle"
             \/ w.epoch = network.epoch /\ ~w.cut
             \/ search[s].pc # "idle" /\ w.epoch = search[s].epoch /\ w.cut = search[s].cut
    <2>1. search[s] \in Search /\ network.epoch \in Nat
      BY DEF TypeOK
    <2>2. CASE AcquireLease(s)
      <3> DEFINE w == [pc |-> "leased", epoch |-> network.epoch, cut |-> FALSE]
      <3>1. w \in Search /\ search' = [search EXCEPT ![s] = w]
        BY <2>1, <2>2 DEF AcquireLease, Search
      <3> QED
        BY <3>1
    <2>3. CASE ReleaseLease(s)
      <3>1. NoSearch \in Search /\ NoSearch.pc = "idle"
        BY DEF NoSearch, Search
      <3> QED
        BY <2>3, <3>1 DEF ReleaseLease
    <2>4. CASE Send(s) \/ Answered(s) \/ TimeOut(s)
      <3>1. PICK to \in {"sent", "done", "answered"} :
              search' = [search EXCEPT ![s].pc = to] /\ search[s].pc # "idle"
        BY <2>4 DEF Send, Answered, TimeOut, Searching
      <3> DEFINE w == [search[s] EXCEPT !.pc = to]
      <3>2. w \in Search /\ w.epoch = search[s].epoch /\ w.cut = search[s].cut
        BY <2>1 DEF Search
      <3>3. search' = [search EXCEPT ![s] = w]
        BY <2>1, <3>1 DEF TypeOK, Search
      <3> QED
        BY <3>1, <3>2, <3>3
    <2> QED
      BY <2>2, <2>3, <2>4
  <1>3. lingering' \in Nat
    BY DEF AcquireLease, Send, Answered, TimeOut, ReleaseLease, TypeOK
  <1>4. TypeOK'
    BY <1>1, <1>2, <1>3 DEF TypeOK, store, history
  <1>5. LeaseInv'
    BY <1>1, <1>2 DEF LeaseInv, TypeOK
  <1> QED
    BY <1>1, <1>4, <1>5, NetStep

\* A transport thread ends.
LEMMA ThreadEndsStep ==
  ASSUME GInv, ThreadEnds
  PROVE  GInv'
  <1> USE DEF GInv
  <1>1. UNCHANGED <<network, search, store, previews, import, claim, project, history, counts>>
        /\ lingering' \in Nat
    BY DEF ThreadEnds, TypeOK
  <1>2. TypeOK' /\ LeaseInv'
    BY <1>1 DEF TypeOK, LeaseInv, store, history
  <1> QED
    BY <1>1, <1>2, NetStep

-----------------------------------------------------------------------------
(* The token store.                                                             *)

\* Steps of the store, of the searches and of the claims leave the import alone.
LEMMA StoreStep ==
  ASSUME GInv, UNCHANGED <<previews, import, project, attempts>>,
         TypeOK', StoreInv', UsedOnce', ReservationsAreHeld', LeaseInv'
  PROVE  GInv'
  <1> USE DEF GInv
  <1>1. ImportInv'
    BY DEF ImportInv, At, Current
  <1>2. ~LateSaves => FilesInv' /\ ImportIsAllOrNothing'
    BY DEF FilesInv, ImportIsAllOrNothing, At, Current, Verified
  <1> QED
    BY <1>1, <1>2

\* What stays in the store is a sequence of what was there.
LEMMA RetainedOfStore ==
  ASSUME TypeOK
  PROVE  /\ Retained \in Seq(Results)
         /\ \A i \in 1 .. Len(Retained) : Kept(Retained[i])
  <1> DEFINE n == Cardinality(Expired)
  <1>1. /\ records \in Seq(Results) /\ Len(records) \in Nat
        /\ DOMAIN records = 1 .. Len(records)
        /\ \A i \in 1 .. Len(records) : records[i] \in Results
    BY DEF TypeOK
  <1>2. n \in Nat
    <2>1. Expired \in SUBSET (1 .. Len(records))
      BY <1>1 DEF Expired
    <2>2. IsFiniteSet(1 .. Len(records))
      BY <1>1, FS_Interval
    <2>3. IsFiniteSet(Expired)
      BY <2>1, <2>2, FS_Subset
    <2> QED
      BY <2>3, FS_CardinalityType
  <1> HIDE DEF n
  <1>3. /\ Alive \in Seq(Results) /\ Len(Alive) \in Nat
        /\ \A i \in 1 .. Len(Alive) : Kept(Alive[i])
    <2>1. Alive = SubSeq(records, n + 1, Len(records))
      BY DEF Alive, n
    <2>2. \A i \in (n + 1) .. Len(records) : records[i] \in Results
      BY <1>1, <1>2
    <2>3. /\ SubSeq(records, n + 1, Len(records)) \in Seq(Results)
          /\ Len(SubSeq(records, n + 1, Len(records))) =
               IF n + 1 <= Len(records) THEN Len(records) - (n + 1) + 1 ELSE 0
          /\ \A i \in 1 .. Len(records) - (n + 1) + 1 :
               SubSeq(records, n + 1, Len(records))[i] = records[n + 1 + i - 1]
      BY <1>1, <1>2, <2>2, SubSeqProperties
    <2>4. \A i \in 1 .. Len(Alive) : Alive[i] = records[n + i] /\ n + i \in 1 .. Len(records)
      BY <1>1, <1>2, <2>1, <2>3
    <2> QED
      BY <1>1, <2>1, <2>3, <2>4 DEF Kept
  <1>4. CASE Len(Alive) < MaxRecords
    BY <1>3, <1>4 DEF Retained
  <1>5. CASE ~(Len(Alive) < MaxRecords)
    <2> DEFINE m == Len(Alive) - MaxRecords + 2
    <2>1. /\ m \in Int /\ m >= 2 /\ Retained = SubSeq(Alive, m, Len(Alive))
      BY <1>3, <1>5, BoundsAssumption DEF Retained
    <2> HIDE DEF m
    <2>2. \A i \in m .. Len(Alive) : Alive[i] \in Results
      BY <1>3, <2>1
    <2>3. /\ SubSeq(Alive, m, Len(Alive)) \in Seq(Results)
          /\ Len(SubSeq(Alive, m, Len(Alive))) = IF m <= Len(Alive) THEN Len(Alive) - m + 1 ELSE 0
          /\ \A i \in 1 .. Len(Alive) - m + 1 :
               SubSeq(Alive, m, Len(Alive))[i] = Alive[m + i - 1]
      BY <1>3, <2>1, <2>2, SubSeqProperties
    <2>4. \A i \in 1 .. Len(Retained) :
            Retained[i] = Alive[m + i - 1] /\ m + i - 1 \in 1 .. Len(Alive)
      BY <1>3, <2>1, <2>3
    <2> QED
      BY <1>3, <2>1, <2>3, <2>4
  <1> QED
    BY <1>4, <1>5

\* A search that ends has a lease no more; one that goes on keeps its own.
LEMMA SameLeases ==
  ASSUME LeaseInv, UNCHANGED network,
         \A s \in Searchers : search'[s].pc # "idle" =>
           /\ search[s].pc # "idle"
           /\ search'[s].epoch = search[s].epoch /\ search'[s].cut = search[s].cut
  PROVE  LeaseInv'
  BY DEF LeaseInv

\* A new token is of a result that nobody has used.
LEMMA PublishStep ==
  ASSUME GInv, NEW s \in Searchers, Publish(s)
  PROVE  GInv'
  <1> USE DEF GInv
  <1>1. UNCHANGED <<network, lingering, previews, import, claim, project, attempts, claimed,
                    counts, token, expired>>
    BY DEF Publish, store
  <1>2. /\ search' \in [Searchers -> Search]
        /\ \A t \in Searchers : search'[t].pc # "idle" =>
             /\ search[t].pc # "idle"
             /\ search'[t].epoch = search[t].epoch /\ search'[t].cut = search[t].cut
    <2> DEFINE w == [search[s] EXCEPT !.pc = "done"]
    <2>1. search[s] \in Search /\ search[s].pc = "answered"
      BY DEF TypeOK, Publish
    <2>2. w \in Search /\ w.epoch = search[s].epoch /\ w.cut = search[s].cut
      BY <2>1 DEF Search
    <2>3. search' = [search EXCEPT ![s] = w]
      BY <2>1 DEF TypeOK, Publish, Search
    <2> HIDE DEF w
    <2> QED
      BY <2>1, <2>2, <2>3 DEF TypeOK
  <1>3. LeaseInv'
    BY <1>1, <1>2, SameLeases
  <1>4. CASE UNCHANGED <<records, drawn>>
    <2>1. TypeOK'
      BY <1>1, <1>2, <1>4 DEF TypeOK
    <2> QED
      BY <1>1, <1>3, <1>4, <2>1, NetStep DEF store, history
  <1>5. CASE \E r \in Results \ drawn :
               records' = Append(Retained, r) /\ drawn' = drawn \union {r}
    <2>1. PICK r \in Results \ drawn :
            records' = Append(Retained, r) /\ drawn' = drawn \union {r}
      BY <1>5
    <2>2. /\ records' \in Seq(Results) /\ DOMAIN records' = 1 .. Len(records')
          /\ \A i \in DOMAIN records' : records'[i] = r \/ Kept(records'[i])
      <3>1. /\ Append(Retained, r) \in Seq(Results)
            /\ Len(Append(Retained, r)) = Len(Retained) + 1
            /\ \A i \in 1 .. Len(Retained) : Append(Retained, r)[i] = Retained[i]
            /\ Append(Retained, r)[Len(Retained) + 1] = r
            /\ Len(Retained) \in Nat
        BY RetainedOfStore, AppendProperties, LenProperties
      <3> QED
        BY <2>1, <3>1, RetainedOfStore
    <2>3. \A q \in Results : Kept(q)' => q = r \/ Kept(q)
      BY <2>2 DEF Kept
    <2>4. TypeOK'
      BY <1>1, <1>2, <2>1, <2>2 DEF TypeOK
    <2>5. StoreInv'
      BY <1>1, <2>1, <2>2 DEF StoreInv, Kept, TypeOK
    <2>6. UsedOnce'
      <3> SUFFICES ASSUME NEW q \in Results
                   PROVE  /\ Used(q)' <= 1
                          /\ Used(q)' = 1 =>
                               q \in drawn' /\ (Kept(q)' => token'[q].state = "committed")
        BY DEF UsedOnce
      <3>1. Used(q)' = Used(q)
        BY <1>1, SameUse DEF At
      <3> QED
        BY <1>1, <2>1, <2>3, <3>1 DEF UsedOnce
    <2>7. ReservationsAreHeld'
      <3>1. token[r].state = "available"
        BY <2>1 DEF StoreInv
      <3> QED
        BY <1>1, <2>3, <3>1 DEF ReservationsAreHeld
    <2> QED
      BY <1>1, <1>3, <2>4, <2>5, <2>6, <2>7, StoreStep
  <1> QED
    BY <1>4, <1>5 DEF Publish, store

\* A token whose time is over is the same token.
LEMMA ExpireStep ==
  ASSUME GInv, Expire
  PROVE  GInv'
  <1> USE DEF GInv
  <1>1. UNCHANGED <<network, search, lingering, records, token, previews, import, claim, project,
                    attempts, claimed, drawn, counts>>
    BY DEF Expire, net, history
  <1>2. PICK i \in DOMAIN records : expired' = expired \union {records[i]}
    BY DEF Expire
  <1>3. TypeOK'
    <2>1. records[i] \in Results
      BY ElementOfSeq DEF TypeOK
    <2> QED
      BY <1>1, <1>2, <2>1 DEF TypeOK
  <1>4. StoreInv' /\ ReservationsAreHeld' /\ LeaseInv'
    BY <1>1 DEF StoreInv, ReservationsAreHeld, Kept, LeaseInv
  <1>5. UsedOnce'
    <2>1. \A r \in Results : Used(r)' = Used(r)
      BY <1>1, SameUse DEF At
    <2> QED
      BY <1>1, <2>1 DEF UsedOnce, Kept
  <1> QED
    BY <1>1, <1>3, <1>4, <1>5, StoreStep

\* One element less, and the others in their order.
LEMMA WithoutOne ==
  ASSUME NEW S, NEW s \in Seq(S), NEW i \in DOMAIN s
  PROVE  /\ Without(s, i) \in Seq(S)
         /\ \A j \in DOMAIN Without(s, i) : \E k \in DOMAIN s : Without(s, i)[j] = s[k]
  <1>1. Len(s) \in Nat /\ DOMAIN s = 1 .. Len(s) /\ i \in 1 .. Len(s)
    OBVIOUS
  <1>2. \A j \in 1 .. (Len(s) - 1) : (IF j < i THEN j ELSE j + 1) \in 1 .. Len(s)
    BY <1>1
  <1>3. \A j \in 1 .. (Len(s) - 1) : s[IF j < i THEN j ELSE j + 1] \in S
    BY <1>1, <1>2, ElementOfSeq
  <1>4. Without(s, i) \in Seq(S) /\ DOMAIN Without(s, i) = 1 .. (Len(s) - 1)
    BY <1>1, <1>3 DEF Without
  <1> QED
    BY <1>1, <1>2, <1>4 DEF Without

\* Forgetting takes nothing but one expired token from the store.
LEMMA ForgetStore ==
  ASSUME TypeOK, NEW r \in Results, Forget(r)
  PROVE  /\ records' \in Seq(Results)
         /\ \A i \in DOMAIN records' : \E k \in DOMAIN records : records'[i] = records[k]
  <1>1. records \in Seq(Results)
    BY DEF TypeOK
  <1>2. CASE Kept(r) /\ r \in expired
    <2>1. PICK i \in DOMAIN records : records' = Without(records, i)
      BY <1>2 DEF Forget
    <2> QED
      BY <1>1, <2>1, WithoutOne
  <1>3. CASE ~(Kept(r) /\ r \in expired)
    BY <1>1, <1>3 DEF Forget
  <1> QED
    BY <1>2, <1>3

\* A token that is reserved and still in the store has not been used.
LEMMA ReservedIsUnused ==
  ASSUME GInv, NEW r \in Results, Kept(r), token[r].state # "committed"
  PROVE  Used(r) = 0
  BY UsedIsNat DEF GInv, UsedOnce

-----------------------------------------------------------------------------
(* The claims.                                                                  *)

\* The reservation is the claim's, whose hands were empty.
LEMMA ReserveClaimStep ==
  ASSUME GInv, NEW c \in Claimers, ReserveClaim(c)
  PROVE  GInv'
  <1> USE DEF GInv
  <1>1. UNCHANGED <<network, search, lingering, records, expired, previews, import, project,
                    attempts, claimed, drawn, counts>>
    BY DEF ReserveClaim, net, history
  <1>2. PICK r \in drawn :
          /\ Reservable(r) /\ claim' = [claim EXCEPT ![c] = r]
          /\ token' = [token EXCEPT ![r] = [state |-> "reserved", holder |-> c]]
    BY DEF ReserveClaim, Become
  <1>3. r \in Results /\ Kept(r) /\ token[r].state = "available" /\ claim[c] = Nobody
        /\ r # Nobody
    BY <1>2, NamesAssumption DEF Reservable, Valid, TypeOK, ReserveClaim
  <1>4. TypeOK'
    BY <1>1, <1>2, <1>3 DEF TypeOK
  <1>5. /\ token'[r] = [state |-> "reserved", holder |-> c] /\ claim'[c] = r
        /\ \A q \in Results \ {r} : token'[q] = token[q]
        /\ \A d \in Claimers \ {c} : claim'[d] = claim[d]
    BY <1>2, <1>3 DEF TypeOK
  <1>6. StoreInv' /\ LeaseInv'
    BY <1>1, <1>2, <1>3, <1>5 DEF StoreInv, LeaseInv
  <1>7. UsedOnce'
    <2> SUFFICES ASSUME NEW q \in Results
                 PROVE  /\ Used(q)' <= 1
                        /\ Used(q)' = 1 => q \in drawn' /\ (Kept(q)' => token'[q].state = "committed")
      BY DEF UsedOnce
    <2>1. Used(q)' = Used(q)
      BY <1>1, SameUse DEF At
    <2>2. Used(r) = 0
      BY <1>3, ReservedIsUnused
    <2> QED
      BY <1>1, <1>5, <2>1, <2>2 DEF UsedOnce, Kept
  <1>8. ReservationsAreHeld'
    <2> SUFFICES ASSUME NEW q \in Results, Kept(q)', token'[q].state = "reserved"
                 PROVE  \/ token'[q].holder \in Claimers /\ claim'[token'[q].holder] = q
                        \/ token'[q].holder = Importer /\ import'.result = q
      BY DEF ReservationsAreHeld
    <2>1. CASE q = r
      BY <1>5, <2>1
    <2>2. CASE q # r
      <3>1. Kept(q) /\ token'[q] = token[q] /\ q # Nobody
        BY <1>1, <1>5, <2>2, NamesAssumption DEF Kept
      <3> QED
        BY <1>1, <1>3, <1>5, <3>1 DEF ReservationsAreHeld
    <2> QED
      BY <2>1, <2>2
  <1> QED
    BY <1>1, <1>4, <1>6, <1>7, <1>8, StoreStep

\* Granting a claim counts its one use.
LEMMA GrantClaimStep ==
  ASSUME GInv, NEW c \in Claimers, GrantClaim(c)
  PROVE  GInv'
  <1> USE DEF GInv
  <1>1. UNCHANGED <<network, search, lingering, records, expired, previews, import, project,
                    attempts, drawn, counts>>
    BY DEF GrantClaim, net
  <1>2. PICK r \in Results :
        /\ r = claim[c] /\ r # Nobody /\ Kept(r)
        /\ token[r] = [state |-> "reserved", holder |-> c]
        /\ token' = [token EXCEPT ![r] = [state |-> "committed", holder |-> c]]
        /\ claim' = [claim EXCEPT ![c] = Nobody]
        /\ claimed' = [claimed EXCEPT ![r] = @ + 1]
    BY DEF GrantClaim, Committable, Valid, ReservedBy, Become, TypeOK
  <1>3. TypeOK'
    <2>1. token' \in [Results -> [state : {"available", "reserved", "committed"},
                                 holder : Claimers \union {Importer, Nobody}]]
      BY <1>2 DEF TypeOK
    <2>2. claim' \in [Claimers -> Results \union {Nobody}]
      BY <1>2 DEF TypeOK
    <2>3. claimed' \in [Results -> Nat]
      BY <1>2 DEF TypeOK
    <2> QED
      BY <1>1, <2>1, <2>2, <2>3 DEF TypeOK
  <1>4. /\ token'[r] = [state |-> "committed", holder |-> c]
        /\ \A q \in Results \ {r} : token'[q] = token[q] /\ claimed'[q] = claimed[q]
        /\ claimed'[r] = claimed[r] + 1
        /\ \A d \in Claimers \ {c} : claim'[d] = claim[d]
    BY <1>2 DEF TypeOK
  <1>5. r \in drawn
    BY <1>2 DEF StoreInv
  <1>6. StoreInv' /\ LeaseInv'
    BY <1>1, <1>2, <1>4, <1>5 DEF StoreInv, LeaseInv
  <1>7. UsedOnce'
    <2> SUFFICES ASSUME NEW q \in Results
                 PROVE  /\ Used(q)' <= 1
                        /\ Used(q)' = 1 => q \in drawn' /\ (Kept(q)' => token'[q].state = "committed")
      BY DEF UsedOnce
    <2>1. CASE q = r
      <3>1. Used(r) = 0
        BY <1>2, ReservedIsUnused
      <3>2. Granted(r) \in Nat /\ Granted(r)' = Granted(r) + 1
        <4>1. Imports(r)' = Imports(r)
          BY <1>1 DEF Imports
        <4>2. Granted(r)' = Cardinality(Imports(r)') + claimed'[r]
          BY DEF Granted, Imports
        <4>3. Granted(r) = Cardinality(Imports(r)) + claimed[r] /\ Granted(r) \in Nat
              /\ Cardinality(Imports(r)) \in Nat /\ claimed[r] \in Nat
          BY <1>2, GrantedIsNat DEF TypeOK
        <4> QED
          BY <1>4, <4>1, <4>2, <4>3
      <3>3. Used(r)' = 1
        BY <1>1, <3>1, <3>2 DEF Used, At
      <3> QED
        BY <1>1, <1>4, <1>5, <2>1, <3>3
    <2>2. CASE q # r
      <3>1. Used(q)' = Used(q)
        BY <1>1, <1>4, <2>2 DEF Used, Granted, At
      <3> QED
        BY <1>1, <1>4, <2>2, <3>1 DEF UsedOnce, Kept
    <2> QED
      BY <2>1, <2>2
  <1>8. ReservationsAreHeld'
    <2> SUFFICES ASSUME NEW q \in Results, Kept(q)', token'[q].state = "reserved"
                 PROVE  \/ token'[q].holder \in Claimers /\ claim'[token'[q].holder] = q
                        \/ token'[q].holder = Importer /\ import'.result = q
      BY DEF ReservationsAreHeld
    <2>1. q # r /\ Kept(q) /\ token'[q] = token[q]
      BY <1>1, <1>4 DEF Kept
    <2> QED
      BY <1>1, <1>2, <1>4, <2>1 DEF ReservationsAreHeld
  <1> QED
    BY <1>1, <1>3, <1>6, <1>7, <1>8, StoreStep

\* A claim that is given up leaves no reservation behind.
LEMMA AbandonClaimStep ==
  ASSUME GInv, NEW c \in Claimers, AbandonClaim(c)
  PROVE  GInv'
  <1> USE DEF GInv
  <1>1. UNCHANGED <<network, search, lingering, expired, previews, import, project,
                    attempts, claimed, drawn, counts>>
    BY DEF AbandonClaim, net, history
  <1>2. PICK r \in Results :
        /\ r = claim[c] /\ r # Nobody /\ Forget(r)
        /\ token' = IF Kept(r) /\ ReservedBy(r, c) THEN [token EXCEPT ![r] = Fresh] ELSE token
        /\ claim' = [claim EXCEPT ![c] = Nobody]
    BY DEF AbandonClaim, Release, TypeOK
  <1>3. /\ records' \in Seq(Results)
        /\ \A i \in DOMAIN records' : \E k \in DOMAIN records : records'[i] = records[k]
    BY <1>2, ForgetStore
  <1>4. \A q \in Results : Kept(q)' => Kept(q)
    BY <1>3 DEF Kept
  <1>5. /\ \A q \in Results \ {r} : token'[q] = token[q]
        /\ token'[r] = token[r] \/ (token'[r] = Fresh /\ Kept(r) /\ ReservedBy(r, c))
        /\ Kept(r) /\ ReservedBy(r, c) => token'[r] = Fresh
        /\ \A d \in Claimers \ {c} : claim'[d] = claim[d]
    <2>1. token \in [Results -> [state : {"available", "reserved", "committed"},
                                 holder : Claimers \union {Importer, Nobody}]]
          /\ claim \in [Claimers -> Results \union {Nobody}]
      BY DEF TypeOK
    <2>2. CASE Kept(r) /\ ReservedBy(r, c)
      BY <1>2, <2>1, <2>2
    <2>3. CASE ~(Kept(r) /\ ReservedBy(r, c))
      <3>1. token' = token
        BY <1>2, <2>3
      <3>2. \A d \in Claimers \ {c} : claim'[d] = claim[d]
        BY <1>2, <2>1
      <3> QED
        BY <2>3, <3>1, <3>2
    <2> QED
      BY <2>2, <2>3
  <1>6. TypeOK'
    <2>1. token' \in [Results -> [state : {"available", "reserved", "committed"},
                                  holder : Claimers \union {Importer, Nobody}]]
      BY <1>2 DEF TypeOK, Fresh
    <2> QED
      BY <1>1, <1>2, <1>3, <2>1 DEF TypeOK
  <1>7. StoreInv' /\ LeaseInv'
    BY <1>1, <1>3, <1>5 DEF StoreInv, LeaseInv, Fresh
  <1>8. UsedOnce'
    <2> SUFFICES ASSUME NEW q \in Results
                 PROVE  /\ Used(q)' <= 1
                        /\ Used(q)' = 1 => q \in drawn' /\ (Kept(q)' => token'[q].state = "committed")
      BY DEF UsedOnce
    <2>1. Used(q)' = Used(q)
      BY <1>1, SameUse DEF At
    <2>2. Used(r) = 0 \/ token'[r] = token[r]
      BY <1>2, <1>5, ReservedIsUnused DEF ReservedBy
    <2> QED
      BY <1>1, <1>4, <1>5, <2>1, <2>2 DEF UsedOnce
  <1>9. ReservationsAreHeld'
    <2> SUFFICES ASSUME NEW q \in Results, Kept(q)', token'[q].state = "reserved"
                 PROVE  \/ token'[q].holder \in Claimers /\ claim'[token'[q].holder] = q
                        \/ token'[q].holder = Importer /\ import'.result = q
      BY DEF ReservationsAreHeld
    <2>1. Kept(q)
      BY <1>4
    <2>2. CASE q # r
      BY <1>1, <1>2, <1>5, <2>1, <2>2 DEF ReservationsAreHeld
    <2>3. CASE q = r
      <3>1. token'[r] = token[r] /\ token[r].holder # c
        <4>1. token[r] \in [state : {"available", "reserved", "committed"},
                            holder : Claimers \union {Importer, Nobody}]
          BY <1>2 DEF TypeOK
        <4> QED
          BY <1>5, <2>1, <2>3, <4>1 DEF ReservedBy, Fresh
      <3> QED
        BY <1>1, <1>5, <2>1, <2>3, <3>1 DEF ReservationsAreHeld
    <2> QED
      BY <2>2, <2>3
  <1> QED
    BY <1>1, <1>6, <1>7, <1>8, <1>9, StoreStep

-----------------------------------------------------------------------------
(* The imports.                                                                 *)

PCs == {"idle", "bound", "reserved", "staged", "renamed", "placed", "committed", "undo", "release"}
Import == [pc : PCs, preview : Nat, result : Results \union {Nobody}, version : Nat,
           placed : BOOLEAN]
Token == [state : {"available", "reserved", "committed"}, holder : Claimers \union {Importer, Nobody}]
Project == [version : Nat, stages : SUBSET (1 .. MaxImports), files : SUBSET (1 .. MaxImports)]

\* The import under way has a result and a number.
LEMMA UnderWay ==
  ASSUME GInv, ~At("idle")
  PROVE  /\ import \in Import /\ import.result \in Results /\ import.result # Nobody
         /\ attempts \in Seq(Attempt) /\ Current \in 1 .. Len(attempts) /\ Current \in Nat
         /\ Len(attempts) \in Nat /\ DOMAIN attempts = 1 .. Len(attempts)
         /\ Current \in 1 .. MaxImports
         /\ attempts[Current] = [result |-> import.result, outcome |-> "running"]
  <1> USE DEF GInv
  <1>1. import \in Import /\ attempts \in Seq(Attempt) /\ Len(attempts) <= MaxImports
    BY DEF TypeOK, Import, PCs
  <1>2. /\ attempts # <<>>
        /\ attempts[Current] = [result |-> import.result, outcome |-> "running"]
    BY DEF ImportInv
  <1>3. Len(attempts) \in Nat \ {0} /\ DOMAIN attempts = 1 .. Len(attempts)
    BY <1>1, <1>2, EmptySeq, LenProperties
  <1>4. Current \in 1 .. Len(attempts) /\ Current \in Nat /\ attempts[Current] \in Attempt
    BY <1>1, <1>3, ElementOfSeq DEF Current
  <1>5. import.result \in Results
    BY <1>2, <1>4 DEF Attempt
  <1>6. Current \in 1 .. MaxImports
    BY <1>1, <1>3, BoundsAssumption DEF Current
  <1> QED
    BY <1>1, <1>2, <1>3, <1>4, <1>5, <1>6, NamesAssumption DEF Current

\* What an import under way does to its own files, to a token and to its own place keeps
\* the files and the attempts of the others apart.
LEMMA MoveStep ==
  ASSUME GInv, ~At("idle"),
         NEW pc \in PCs \ {"idle"}, NEW placed \in BOOLEAN,
         import' = [import EXCEPT !.pc = pc, !.placed = placed],
         pc \in {"bound", "reserved", "staged", "renamed"} => ~placed,
         pc \in {"placed", "committed"} => placed,
         UNCHANGED <<network, search, lingering, expired, previews, claim, attempts, claimed,
                     drawn, counts>>,
         records' \in Seq(Results), token' \in [Results -> Token], project' \in Project,
         StoreInv', UsedOnce', ReservationsAreHeld',
         ~LateSaves =>
           /\ FilesInv'
           /\ project'.files \ {Current} = project.files \ {Current}
           /\ project'.stages \ {Current} = project.stages \ {Current}
  PROVE  GInv'
  <1> USE DEF GInv
  <1>1. /\ import \in Import /\ import' \in Import
        /\ import'.pc = pc /\ import'.placed = placed /\ import'.preview = import.preview
        /\ import'.result = import.result /\ import'.version = import.version
    <2>1. import \in Import
      BY UnderWay
    <2> QED
      BY <2>1 DEF Import
  <1>2. TypeOK'
    BY <1>1 DEF TypeOK, Import, PCs, Token, Project
  <1>3. ImportInv'
    BY <1>1 DEF ImportInv, At, Current
  <1>4. LeaseInv'
    BY DEF LeaseInv
  <1>5. ASSUME ~LateSaves PROVE ImportIsAllOrNothing'
    <2> SUFFICES ASSUME NEW a \in DOMAIN attempts
                 PROVE  /\ attempts[a].outcome = "ok" => a \in project'.files
                        /\ attempts[a].outcome = "failed" =>
                             a \notin project'.files \union project'.stages
      BY DEF ImportIsAllOrNothing
    <2>1. CASE a = Current
      BY <2>1, UnderWay
    <2>2. CASE a # Current
      BY <1>5, <2>2 DEF ImportIsAllOrNothing
    <2> QED
      BY <2>1, <2>2
  <1> QED
    BY <1>2, <1>3, <1>4, <1>5

\* Moving on, without the store.
LEMMA SameStore ==
  ASSUME GInv, UNCHANGED <<records, token, claim, attempts, claimed, drawn>>,
         import'.result = import.result,
         At("committed") <=> At("committed")'
  PROVE  StoreInv' /\ UsedOnce' /\ ReservationsAreHeld'
  <1> USE DEF GInv
  <1>1. StoreInv' /\ ReservationsAreHeld'
    BY DEF StoreInv, ReservationsAreHeld, Kept
  <1>2. \A q \in Results : Used(q)' = Used(q)
    BY SameUse
  <1> QED
    BY <1>1, <1>2 DEF UsedOnce, Kept

\* The token that an import takes or gives back has not been used.
LEMMA OwnToken ==
  ASSUME GInv, NEW r \in Results, Kept(r), token[r].state # "committed", r \in drawn,
         NEW w \in Token, w.state # "committed",
         token' = [token EXCEPT ![r] = w],
         w.state = "reserved" => w.holder = Importer,
         UNCHANGED <<records, claim, attempts, claimed, drawn>>,
         import.result = r, import'.result = r, ~At("committed"), ~At("committed")'
  PROVE  StoreInv' /\ UsedOnce' /\ ReservationsAreHeld' /\ token' \in [Results -> Token]
  <1> USE DEF GInv
  <1>1. token \in [Results -> Token]
    BY DEF TypeOK, Token
  <1>2. token' \in [Results -> Token] /\ token'[r] = w /\ \A q \in Results \ {r} : token'[q] = token[q]
    BY <1>1
  <1>3. StoreInv'
    BY <1>2 DEF StoreInv
  <1>4. ReservationsAreHeld'
    BY <1>2 DEF ReservationsAreHeld, Kept
  <1>5. \A q \in Results : Used(q)' = Used(q)
    BY SameUse
  <1>6. Used(r) = 0
    BY ReservedIsUnused
  <1>7. UsedOnce'
    BY <1>2, <1>5, <1>6 DEF UsedOnce, Kept
  <1> QED
    BY <1>2, <1>3, <1>4, <1>7

\* Forgetting an expired token on the way.
LEMMA ForgetOnTheWay ==
  ASSUME GInv, NEW r \in Results, Forget(r),
         UNCHANGED <<token, claim, attempts, claimed, drawn>>,
         import'.result = import.result, ~At("committed"), ~At("committed")'
  PROVE  StoreInv' /\ UsedOnce' /\ ReservationsAreHeld' /\ records' \in Seq(Results)
  <1> USE DEF GInv
  <1>1. /\ records' \in Seq(Results)
        /\ \A i \in DOMAIN records' : \E k \in DOMAIN records : records'[i] = records[k]
    BY ForgetStore
  <1>2. \A q \in Results : Kept(q)' => Kept(q)
    BY <1>1 DEF Kept
  <1>3. StoreInv' /\ ReservationsAreHeld'
    BY <1>1, <1>2 DEF StoreInv, ReservationsAreHeld
  <1>4. \A q \in Results : Used(q)' = Used(q)
    BY SameUse
  <1> QED
    BY <1>1, <1>2, <1>3, <1>4 DEF UsedOnce

\* Taking the reservation, or failing to.
LEMMA ReserveStep ==
  ASSUME GInv, Reserve
  PROVE  GInv'
  <1> USE DEF GInv
  <1>1. UNCHANGED <<network, search, lingering, expired, previews, claim, project, attempts,
                    claimed, drawn, counts>> /\ At("bound")
    BY DEF Reserve, net, history
  <1>2. ~At("idle") /\ ~At("committed")
    BY <1>1 DEF At
  <1>3. /\ import \in Import /\ import.result \in Results /\ ~import.placed
        /\ project \in Project /\ records \in Seq(Results) /\ token \in [Results -> Token]
    BY <1>1, <1>2, UnderWay DEF ImportInv, At, TypeOK, Token, Project
  <1>4. PICK pc \in {"reserved", "undo"} :
          /\ import' = [import EXCEPT !.pc = pc, !.placed = FALSE]
          /\ import'.pc = pc /\ import'.result = import.result /\ import'.version = import.version
          /\ ~import'.placed
          /\ \/ /\ Reservable(import.result) /\ UNCHANGED records
                /\ Become(import.result, "reserved", Importer)
             \/ Forget(import.result) /\ UNCHANGED token
    <2>1. PICK pc \in {"reserved", "undo"} :
            /\ import' = [import EXCEPT !.pc = pc]
            /\ \/ /\ Reservable(import.result) /\ UNCHANGED records
                  /\ Become(import.result, "reserved", Importer)
               \/ Forget(import.result) /\ UNCHANGED token
      BY DEF Reserve, Goto
    <2>2. /\ import' = [import EXCEPT !.pc = pc, !.placed = FALSE]
          /\ import'.pc = pc /\ import'.result = import.result /\ import'.version = import.version
          /\ ~import'.placed
      BY <1>3, <2>1 DEF Import
    <2> QED
      BY <2>1, <2>2
  <1>5. ~At("committed")'
    BY <1>4 DEF At
  <1>6. /\ StoreInv' /\ UsedOnce' /\ ReservationsAreHeld'
        /\ records' \in Seq(Results) /\ token' \in [Results -> Token]
    <2>1. CASE /\ Reservable(import.result) /\ UNCHANGED records
               /\ Become(import.result, "reserved", Importer)
      <3> DEFINE w == [state |-> "reserved", holder |-> Importer]
      <3>1. PICK r \in Results : r = import.result
        BY <1>3
      <3>2. /\ Kept(r) /\ token[r].state # "committed" /\ r \in drawn
            /\ token' = [token EXCEPT ![r] = w]
            /\ import.result = r /\ import'.result = r
        BY <1>4, <2>1, <3>1 DEF Reservable, Valid, Become, StoreInv, Kept
      <3>3. w \in Token /\ w.state # "committed" /\ (w.state = "reserved" => w.holder = Importer)
        BY DEF Token
      <3> HIDE DEF w
      <3> QED
        BY <1>1, <1>2, <1>3, <1>5, <2>1, <3>2, <3>3, OwnToken
    <2>2. CASE Forget(import.result) /\ UNCHANGED token
      BY <1>1, <1>2, <1>3, <1>4, <1>5, <2>2, ForgetOnTheWay
    <2> QED
      BY <1>4, <2>1, <2>2
  <1>7. ~LateSaves => FilesInv'
    BY <1>1, <1>4 DEF FilesInv, At, Current, Verified
  <1> QED
    BY <1>1, <1>2, <1>3, <1>4, <1>6, <1>7, MoveStep DEF PCs

\* Where the import went, with its place, and nothing else of it.
MovedTo(pc, placed) ==
  /\ import' = [import EXCEPT !.pc = pc, !.placed = placed]
  /\ import'.pc = pc /\ import'.placed = placed
  /\ import'.result = import.result /\ import'.version = import.version

\* Going to another place keeps whether the candidate is in its own.
LEMMA GoneTo ==
  ASSUME import \in Import, NEW pc \in PCs, Goto(pc)
  PROVE  MovedTo(pc, import.placed)
  BY DEF MovedTo, Goto, Import

\* The candidate is written beside its final place.
LEMMA StageStep ==
  ASSUME GInv, Stage
  PROVE  GInv'
  <1> USE DEF GInv
  <1>1. UNCHANGED <<network, search, lingering, records, token, expired, previews, claim, attempts,
                    claimed, drawn, counts>> /\ At("reserved")
    BY DEF Stage, net, store, history
  <1>2. /\ ~At("idle") /\ import \in Import /\ import.placed = FALSE
        /\ project \in Project /\ records \in Seq(Results) /\ token \in [Results -> Token]
        /\ Current \in 1 .. MaxImports
    BY <1>1, UnderWay DEF ImportInv, At, TypeOK, Token, Project, Import
  <1>3. PICK pc \in {"staged", "undo"}, stages \in {project.stages, project.stages \union {Current}} :
          /\ MovedTo(pc, import.placed)
          /\ project' \in Project
          /\ project'.stages = stages /\ project'.files = project.files
    <2>1. CASE project' = [project EXCEPT !.stages = @ \union {Current}]
               /\ \E pc \in {"staged", "undo"} : Goto(pc)
      <3>1. /\ project' \in Project
            /\ project'.stages = project.stages \union {Current} /\ project'.files = project.files
        BY <1>2, <2>1 DEF Project
      <3> QED
        BY <1>2, <2>1, <3>1, GoneTo DEF PCs
    <2>2. CASE Goto("undo") /\ UNCHANGED project
      BY <1>2, <2>2, GoneTo DEF PCs
    <2> QED
      BY <2>1, <2>2 DEF Stage
  <1>4. StoreInv' /\ UsedOnce' /\ ReservationsAreHeld'
    BY <1>1, <1>3, SameStore DEF At, MovedTo
  <1>5. ~LateSaves => FilesInv'
    BY <1>1, <1>2, <1>3 DEF FilesInv, At, Current, Verified, MovedTo
  <1> QED
    BY <1>1, <1>2, <1>3, <1>4, <1>5, MoveStep DEF PCs, MovedTo

\* The staged file becomes the candidate.
LEMMA RenameStep ==
  ASSUME GInv, Rename
  PROVE  GInv'
  <1> USE DEF GInv
  <1>1. UNCHANGED <<network, search, lingering, records, token, expired, previews, claim, attempts,
                    claimed, drawn, counts>> /\ At("staged")
    BY DEF Rename, net, store, history
  <1>2. /\ ~At("idle") /\ import \in Import /\ import.placed = FALSE
        /\ project \in Project /\ records \in Seq(Results) /\ token \in [Results -> Token]
        /\ Current \in 1 .. MaxImports
    BY <1>1, UnderWay DEF ImportInv, At, TypeOK, Token, Project, Import
  <1>3. CASE Verified /\ Goto("renamed")
             /\ project' = [project EXCEPT !.stages = @ \ {Current}, !.files = @ \union {Current}]
    <2>1. /\ project' \in Project /\ project'.version = project.version
          /\ project'.stages = project.stages \ {Current}
          /\ project'.files = project.files \union {Current}
      BY <1>2, <1>3 DEF Project
    <2>2. MovedTo("renamed", import.placed)
      BY <1>2, <1>3, GoneTo DEF PCs
    <2>3. StoreInv' /\ UsedOnce' /\ ReservationsAreHeld'
      BY <1>1, <2>2, SameStore DEF At, MovedTo
    <2>4. ~LateSaves => FilesInv'
      BY <1>1, <1>2, <1>3, <2>1, <2>2 DEF FilesInv, At, Current, Verified, MovedTo
    <2> QED
      BY <1>1, <1>2, <2>1, <2>2, <2>3, <2>4, MoveStep DEF PCs, MovedTo
  <1>4. CASE Goto("undo") /\ UNCHANGED project
    <2>1. MovedTo("undo", import.placed)
      BY <1>2, <1>4, GoneTo DEF PCs
    <2>2. StoreInv' /\ UsedOnce' /\ ReservationsAreHeld'
      BY <1>1, <2>1, SameStore DEF At, MovedTo
    <2>3. ~LateSaves => FilesInv'
      BY <1>1, <1>4, <2>1 DEF FilesInv, At, Current, Verified, MovedTo
    <2> QED
      BY <1>1, <1>2, <1>4, <2>1, <2>2, <2>3, MoveStep DEF PCs, MovedTo
  <1> QED
    BY <1>3, <1>4 DEF Rename

\* The last look at project.yaml; unless it is saved right then it is still the one that was
\* previewed.
LEMMA RenamedStep ==
  ASSUME GInv, Renamed
  PROVE  GInv'
  <1> USE DEF GInv
  <1>1. UNCHANGED <<network, search, lingering, records, token, expired, previews, claim, project,
                    attempts, claimed, drawn, counts>> /\ At("renamed")
    BY DEF Renamed, net, store, history
  <1>2. /\ ~At("idle") /\ import \in Import
        /\ project \in Project /\ records \in Seq(Results) /\ token \in [Results -> Token]
    BY <1>1, UnderWay DEF At, TypeOK, Token, Project
  <1>3. PICK pc \in {"placed", "undo"}, placed \in BOOLEAN :
          /\ MovedTo(pc, placed) /\ (placed <=> pc = "placed") /\ (Verified => placed)
    <2>1. CASE Verified
      <3>1. import' = [import EXCEPT !.pc = "placed", !.placed = TRUE]
        BY <2>1 DEF Renamed
      <3>2. MovedTo("placed", TRUE)
        BY <1>2, <3>1 DEF MovedTo, Import
      <3> QED
        BY <3>2
    <2>2. CASE ~Verified
      <3>1. import' = [import EXCEPT !.pc = "undo", !.placed = FALSE]
        <4>1. Verified = FALSE
          BY <2>2 DEF Verified
        <4> QED
          BY <4>1 DEF Renamed
      <3>2. MovedTo("undo", FALSE)
        BY <1>2, <3>1 DEF MovedTo, Import
      <3> QED
        BY <2>2, <3>2
    <2> QED
      BY <2>1, <2>2
  <1>4. StoreInv' /\ UsedOnce' /\ ReservationsAreHeld'
    BY <1>1, <1>3, SameStore DEF At, MovedTo
  <1>5. ~LateSaves => FilesInv'
    BY <1>1, <1>3 DEF FilesInv, At, Current, Verified, MovedTo
  <1> QED
    BY <1>1, <1>2, <1>3, <1>4, <1>5, MoveStep DEF PCs, MovedTo

\* The token is committed, or was lost on the way.
LEMMA CommitTokenStep ==
  ASSUME GInv, CommitToken
  PROVE  GInv'
  <1> USE DEF GInv
  <1>1. UNCHANGED <<network, search, lingering, expired, previews, claim, project, attempts,
                    claimed, drawn, counts>> /\ At("placed")
    BY DEF CommitToken, net, history
  <1>2. /\ ~At("idle") /\ ~At("committed") /\ import \in Import /\ import.placed = TRUE
        /\ project \in Project /\ records \in Seq(Results) /\ token \in [Results -> Token]
    BY <1>1, UnderWay DEF ImportInv, At, TypeOK, Token, Project, Import
  <1>3. PICK r \in Results : r = import.result /\ r # Nobody
    BY <1>2, UnderWay
  <1>4. CASE Verified /\ Committable(import.result, Importer)
    <2> DEFINE w == [state |-> "committed", holder |-> Importer]
    <2>1. /\ MovedTo("committed", import.placed) /\ UNCHANGED records
          /\ Kept(r) /\ token[r].state = "reserved" /\ w \in Token
          /\ token' = [token EXCEPT ![r] = w]
      BY <1>2, <1>3, <1>4, GoneTo
      DEF CommitToken, Committable, Valid, ReservedBy, Become, PCs, Token
    <2>2. /\ token' \in [Results -> Token] /\ token'[r] = w
          /\ \A q \in Results \ {r} : token'[q] = token[q]
      BY <1>2, <2>1
    <2>3. r \in drawn
      BY <2>1 DEF StoreInv
    <2>4. StoreInv' /\ ReservationsAreHeld'
      BY <1>1, <1>3, <2>1, <2>2, <2>3 DEF StoreInv, ReservationsAreHeld, Kept, MovedTo
    <2>5. UsedOnce'
      <3>1. Used(r) = 0
        BY <2>1, ReservedIsUnused
      <3>2. \A q \in Results : Granted(q)' = Granted(q) /\ Granted(q) \in Nat
        BY <1>1, GrantedIsNat DEF Granted
      <3>3. Used(r)' = 1
        <4>1. Granted(r) = 0
          BY <1>2, <3>1, <3>2 DEF Used
        <4>2. Used(r)' = Granted(r)' + 1
          BY <1>3, <2>1 DEF Used, At, MovedTo
        <4> QED
          BY <3>2, <4>1, <4>2
      <3>4. \A q \in Results \ {r} : Used(q)' = Used(q)
        BY <1>1, <1>2, <1>3, <2>1, <3>2 DEF Used, At, MovedTo
      <3> QED
        BY <1>1, <2>1, <2>2, <2>3, <3>3, <3>4 DEF UsedOnce, Kept
    <2>6. ~LateSaves => FilesInv'
      BY <1>1, <2>1 DEF FilesInv, At, Current, Verified, MovedTo
    <2> HIDE DEF w
    <2> QED
      BY <1>1, <1>2, <2>1, <2>2, <2>4, <2>5, <2>6, MoveStep DEF PCs, MovedTo
  <1>5. CASE ~(Verified /\ Committable(import.result, Importer))
    <2>1. /\ MovedTo("undo", import.placed) /\ UNCHANGED token
          /\ Forget(import.result) \/ UNCHANGED records
      BY <1>2, <1>5, GoneTo DEF CommitToken, PCs
    <2>2. StoreInv' /\ UsedOnce' /\ ReservationsAreHeld' /\ records' \in Seq(Results)
      <3>1. ~At("committed")' /\ import'.result = import.result
        BY <2>1 DEF At, MovedTo
      <3>2. CASE Forget(import.result)
        BY <1>1, <1>2, <1>3, <2>1, <3>1, <3>2, ForgetOnTheWay
      <3>3. CASE UNCHANGED records
        BY <1>1, <1>2, <2>1, <3>1, <3>3, SameStore
      <3> QED
        BY <2>1, <3>2, <3>3
    <2>3. ~LateSaves => FilesInv'
      BY <1>1, <1>2, <2>1 DEF FilesInv, At, Current, Verified, MovedTo
    <2> QED
      BY <1>1, <1>2, <2>1, <2>2, <2>3, MoveStep DEF PCs, MovedTo
  <1> QED
    BY <1>4, <1>5

\* The token is available again, and so the use that was counted is none.
LEMMA RollBackStep ==
  ASSUME GInv, RollBack
  PROVE  GInv'
  <1> USE DEF GInv
  <1>1. UNCHANGED <<network, search, lingering, records, expired, previews, claim, project, attempts,
                    claimed, drawn, counts>> /\ At("committed")
    BY DEF RollBack, net, history
  <1>2. /\ ~At("idle") /\ import \in Import /\ import.placed = TRUE
        /\ project \in Project /\ records \in Seq(Results) /\ token \in [Results -> Token]
    BY <1>1, UnderWay DEF ImportInv, At, TypeOK, Token, Project, Import
  <1>3. PICK r \in Results : r = import.result /\ r # Nobody
    BY <1>2, UnderWay
  <1>4. MovedTo("undo", import.placed)
    BY <1>2, GoneTo DEF RollBack, PCs
  <1>5. /\ token' \in [Results -> Token]
        /\ \A q \in Results \ {r} : token'[q] = token[q]
        /\ Kept(r) => token'[r] = Fresh
        /\ ~Kept(r) => token'[r] = token[r]
    <2>1. Fresh \in Token
      BY DEF Fresh, Token
    <2>2. CASE Kept(r)
      <3>1. token' = [token EXCEPT ![r] = Fresh]
        BY <1>3, <2>2 DEF RollBack
      <3> QED
        BY <1>2, <2>1, <2>2, <3>1
    <2>3. CASE ~Kept(r)
      <3>1. token' = token
        BY <1>3, <2>3 DEF RollBack
      <3> QED
        BY <1>2, <2>3, <3>1
    <2> QED
      BY <2>2, <2>3
  <1>6. StoreInv'
    BY <1>1, <1>3, <1>5 DEF StoreInv, Fresh
  <1>7. ReservationsAreHeld'
    <2> SUFFICES ASSUME NEW q \in Results, Kept(q)', token'[q].state = "reserved"
                 PROVE  \/ token'[q].holder \in Claimers /\ claim'[token'[q].holder] = q
                        \/ token'[q].holder = Importer /\ import'.result = q
      BY DEF ReservationsAreHeld
    <2>1. q # r /\ Kept(q) /\ token'[q] = token[q]
      BY <1>1, <1>5 DEF Kept, Fresh
    <2> QED
      BY <1>1, <1>4, <2>1 DEF ReservationsAreHeld, MovedTo
  <1>8. UsedOnce'
    <2>1. \A q \in Results : Granted(q)' = Granted(q) /\ Granted(q) \in Nat
      BY <1>1, GrantedIsNat DEF Granted
    <2>2. Used(r)' = 0
      <3>1. Used(r) = Granted(r) + 1 /\ Used(r) <= 1
        BY <1>1, <1>3 DEF Used, UsedOnce
      <3>2. Used(r)' = Granted(r)'
        BY <1>4, <2>1 DEF Used, At, MovedTo
      <3> QED
        BY <2>1, <3>1, <3>2
    <2>3. \A q \in Results \ {r} : Used(q)' = Used(q)
      BY <1>1, <1>3, <1>4, <2>1 DEF Used, At, MovedTo
    <2> QED
      BY <1>1, <1>5, <2>2, <2>3 DEF UsedOnce, Kept
  <1>9. ~LateSaves => FilesInv'
    BY <1>1, <1>2, <1>4 DEF FilesInv, At, Current, Verified, MovedTo
  <1> QED
    BY <1>1, <1>2, <1>4, <1>5, <1>6, <1>7, <1>8, <1>9, MoveStep DEF PCs, MovedTo

\* The candidate that was placed is taken away.
LEMMA UndoStep ==
  ASSUME GInv, Undo
  PROVE  GInv'
  <1> USE DEF GInv
  <1>1. UNCHANGED <<network, search, lingering, records, token, expired, previews, claim, attempts,
                    claimed, drawn, counts>> /\ At("undo")
    BY DEF Undo, net, store, history
  <1>2. /\ ~At("idle") /\ import \in Import /\ import.placed \in BOOLEAN
        /\ project \in Project /\ records \in Seq(Results) /\ token \in [Results -> Token]
    BY <1>1, UnderWay DEF At, TypeOK, Token, Project, Import
  <1>3. MovedTo("release", import.placed)
    BY <1>2, GoneTo DEF Undo, PCs
  <1>4. /\ project' \in Project /\ project'.stages = project.stages
        /\ project'.files = IF import.placed THEN project.files \ {Current} ELSE project.files
    <2>1. CASE import.placed
      <3>1. project' = [project EXCEPT !.files = @ \ {Current}]
        BY <2>1 DEF Undo
      <3> QED
        BY <1>2, <2>1, <3>1 DEF Project
    <2>2. CASE ~import.placed
      BY <1>2, <2>2 DEF Undo
    <2> QED
      BY <2>1, <2>2
  <1>5. StoreInv' /\ UsedOnce' /\ ReservationsAreHeld'
    BY <1>1, <1>3, SameStore DEF At, MovedTo
  <1>6. ~LateSaves => FilesInv'
    BY <1>1, <1>3, <1>4 DEF FilesInv, At, Current, Verified, MovedTo
  <1>7. ~LateSaves =>
          /\ FilesInv'
          /\ project'.files \ {Current} = project.files \ {Current}
          /\ project'.stages \ {Current} = project.stages \ {Current}
    BY <1>4, <1>6
  <1> QED
    BY <1>1, <1>2, <1>3, <1>4, <1>5, <1>7, MoveStep DEF PCs, MovedTo

\* How the import under way ended is noted in its own attempt, and only success counts as a
\* use.
LEMMA EndOfAttempt ==
  ASSUME GInv, ~At("idle"), NEW o \in {"ok", "failed", "crashed"},
         attempts' = [attempts EXCEPT ![Current].outcome = o], UNCHANGED claimed
  PROVE  /\ attempts' \in Seq(Attempt) /\ Len(attempts') = Len(attempts)
         /\ DOMAIN attempts' = DOMAIN attempts
         /\ attempts'[Current] = [result |-> import.result, outcome |-> o]
         /\ \A a \in DOMAIN attempts \ {Current} : attempts'[a] = attempts[a]
         /\ \A q \in Results : Granted(q)' =
              IF o = "ok" /\ q = import.result THEN Granted(q) + 1 ELSE Granted(q)
  <1> USE DEF GInv
  <1> DEFINE w == [result |-> import.result, outcome |-> o]
  <1>1. /\ attempts \in Seq(Attempt) /\ DOMAIN attempts = 1 .. Len(attempts) /\ Len(attempts) \in Nat
        /\ Current \in 1 .. Len(attempts) /\ import.result \in Results
        /\ attempts[Current] = [result |-> import.result, outcome |-> "running"]
    BY UnderWay
  <1>2. w \in Attempt
    BY <1>1 DEF Attempt
  <1>3. attempts' = [attempts EXCEPT ![Current] = w]
    <2>1. [attempts[Current] EXCEPT !.outcome = o] = w
      BY <1>1
    <2>2. attempts' = [attempts EXCEPT ![Current] = [attempts[Current] EXCEPT !.outcome = o]]
      OBVIOUS
    <2> QED
      BY <2>1, <2>2
  <1> HIDE DEF w
  <1>4. /\ attempts' \in Seq(Attempt) /\ Len(attempts') = Len(attempts)
        /\ \A a \in 1 .. Len(attempts) : attempts'[a] = IF a = Current THEN w ELSE attempts[a]
    BY <1>1, <1>2, <1>3, ExceptSeq
  <1>5. DOMAIN attempts' = 1 .. Len(attempts)
    BY <1>1, <1>4
  <1>6. ASSUME NEW q \in Results
        PROVE  Granted(q)' = IF o = "ok" /\ q = import.result THEN Granted(q) + 1 ELSE Granted(q)
    <2>1. /\ Granted(q) = Cardinality(Imports(q)) + claimed[q] /\ claimed[q] \in Nat
          /\ IsFiniteSet(Imports(q)) /\ Cardinality(Imports(q)) \in Nat
      BY GrantedIsNat DEF TypeOK
    <2>2. Granted(q)' = Cardinality(Imports(q)') + claimed[q]
      BY DEF Granted, Imports
    <2>3. Current \notin Imports(q)
      BY <1>1 DEF Imports
    <2>4. CASE o = "ok" /\ q = import.result
      <3>1. Imports(q)' = Imports(q) \union {Current}
        BY <1>1, <1>4, <1>5, <2>4 DEF Imports, w
      <3>2. Cardinality(Imports(q) \union {Current}) = Cardinality(Imports(q)) + 1
        BY <2>1, <2>3, FS_AddElement
      <3> QED
        BY <2>1, <2>2, <2>4, <3>1, <3>2
    <2>5. CASE ~(o = "ok" /\ q = import.result)
      <3>1. w # [result |-> q, outcome |-> "ok"]
        BY <2>5 DEF w
      <3>2. Imports(q)' = Imports(q)
        BY <1>1, <1>4, <1>5, <2>3, <3>1 DEF Imports
      <3> QED
        BY <2>1, <2>2, <2>5, <3>2
    <2> QED
      BY <2>4, <2>5
  <1> QED
    BY <1>1, <1>4, <1>5, <1>6 DEF w

\* The attempts that ended before keep their files when the import under way ends.
LEMMA FilesAtTheEnd ==
  ASSUME GInv, ~At("idle"), ~LateSaves,
         NEW o \in {"ok", "failed", "crashed"},
         attempts' = [attempts EXCEPT ![Current].outcome = o], UNCHANGED claimed,
         import' = NoImport,
         project'.files = project.files,
         project'.stages \in {project.stages, project.stages \ {Current}},
         o = "ok" => Current \in project.files,
         o = "failed" => Current \notin project'.files \union project'.stages
  PROVE  FilesInv' /\ ImportIsAllOrNothing'
  <1> USE DEF GInv
  <1>1. /\ Len(attempts') = Len(attempts) /\ DOMAIN attempts' = DOMAIN attempts
        /\ attempts'[Current] = [result |-> import.result, outcome |-> o]
        /\ \A a \in DOMAIN attempts \ {Current} : attempts'[a] = attempts[a]
    BY EndOfAttempt
  <1>2. FilesInv'
    BY <1>1 DEF FilesInv, At, Current, NoImport
  <1>3. ImportIsAllOrNothing'
    <2> SUFFICES ASSUME NEW a \in DOMAIN attempts
                 PROVE  /\ attempts'[a].outcome = "ok" => a \in project'.files
                        /\ attempts'[a].outcome = "failed" =>
                             a \notin project'.files \union project'.stages
      BY <1>1 DEF ImportIsAllOrNothing
    <2>1. CASE a = Current
      BY <1>1, <2>1
    <2>2. CASE a # Current
      BY <1>1, <2>2 DEF ImportIsAllOrNothing
    <2> QED
      BY <2>1, <2>2
  <1> QED
    BY <1>2, <1>3

\* Success: the use that was counted with the token is now counted with the attempt.
LEMMA SucceedStep ==
  ASSUME GInv, Succeed
  PROVE  GInv'
  <1> USE DEF GInv
  <1>1. /\ UNCHANGED <<network, search, lingering, records, token, expired, claim, project, claimed,
                       drawn, counts>>
        /\ At("committed") /\ import' = NoImport
        /\ attempts' = [attempts EXCEPT ![Current].outcome = "ok"]
    BY DEF Succeed, End, net, store
  <1>2. ~At("idle")
    BY <1>1 DEF At
  <1>3. /\ attempts' \in Seq(Attempt) /\ Len(attempts') = Len(attempts)
        /\ \A q \in Results : Granted(q)' =
             IF q = import.result THEN Granted(q) + 1 ELSE Granted(q)
    BY <1>1, <1>2, EndOfAttempt
  <1>4. previews' \in Seq([result : Results, version : Nat])
    <2>1. import.preview \in DOMAIN previews
      BY <1>2 DEF ImportInv
    <2> QED
      BY <2>1, WithoutOne DEF Succeed, TypeOK
  <1>5. TypeOK'
    BY <1>1, <1>3, <1>4 DEF TypeOK, NoImport
  <1>6. StoreInv' /\ LeaseInv' /\ ImportInv'
    BY <1>1 DEF StoreInv, LeaseInv, ImportInv, At, NoImport
  <1>7. \A q \in Results : Used(q)' = Used(q)
    <2> SUFFICES ASSUME NEW q \in Results PROVE Used(q)' = Used(q)
      OBVIOUS
    <2>1. Granted(q) \in Nat
      BY GrantedIsNat
    <2>2. Used(q)' = Granted(q)'
      BY <1>1, <1>3, <2>1 DEF Used, At, NoImport
    <2> QED
      BY <1>1, <1>3, <2>1, <2>2 DEF Used
  <1>8. UsedOnce'
    BY <1>1, <1>7 DEF UsedOnce, Kept
  <1>9. ReservationsAreHeld'
    <2> SUFFICES ASSUME NEW q \in Results, Kept(q), token[q].state = "reserved"
                 PROVE  token[q].holder \in Claimers /\ claim[token[q].holder] = q
      BY <1>1 DEF ReservationsAreHeld, Kept
    <2>1. import.result # q
      <3>1. Used(q) = 0
        BY ReservedIsUnused
      <3>2. Granted(q) \in Nat
        BY GrantedIsNat
      <3> QED
        BY <1>1, <3>1, <3>2 DEF Used
    <2> QED
      BY <2>1 DEF ReservationsAreHeld
  <1>10. ASSUME ~LateSaves PROVE FilesInv' /\ ImportIsAllOrNothing'
    <2>1. Current \in project.files
      BY <1>1, <1>10 DEF FilesInv, At
    <2> QED
      BY <1>1, <1>2, <1>10, <2>1, FilesAtTheEnd
  <1> QED
    BY <1>5, <1>6, <1>8, <1>9, <1>10

\* Failure: the reservation is given back and nothing is left behind.
LEMMA GiveBackStep ==
  ASSUME GInv, GiveBack
  PROVE  GInv'
  <1> USE DEF GInv
  <1>1. /\ UNCHANGED <<network, search, lingering, records, expired, previews, claim, claimed,
                       drawn, counts>>
        /\ At("release") /\ import' = NoImport
        /\ attempts' = [attempts EXCEPT ![Current].outcome = "failed"]
        /\ Release(import.result, Importer)
        /\ project' = [project EXCEPT !.stages = @ \ {Current}]
    BY DEF GiveBack, End, net
  <1>2. ~At("idle") /\ ~At("committed")
    BY <1>1 DEF At
  <1>3. /\ attempts' \in Seq(Attempt) /\ Len(attempts') = Len(attempts)
        /\ \A q \in Results : Granted(q)' = Granted(q)
    BY <1>1, <1>2, EndOfAttempt
  <1>4. PICK r \in Results : r = import.result
    BY <1>2, UnderWay
  <1>5. /\ token' \in [Results -> Token]
        /\ \A q \in Results \ {r} : token'[q] = token[q]
        /\ Kept(r) /\ ReservedBy(r, Importer) => token'[r] = Fresh
        /\ ~(Kept(r) /\ ReservedBy(r, Importer)) => token'[r] = token[r]
    <2>1. Fresh \in Token /\ token \in [Results -> Token]
      BY DEF Fresh, Token, TypeOK
    <2>2. CASE Kept(r) /\ ReservedBy(r, Importer)
      <3>1. token' = [token EXCEPT ![r] = Fresh]
        BY <1>1, <1>4, <2>2 DEF Release
      <3> QED
        BY <2>1, <2>2, <3>1
    <2>3. CASE ~(Kept(r) /\ ReservedBy(r, Importer))
      <3>1. token' = token
        BY <1>1, <1>4, <2>3 DEF Release
      <3> QED
        BY <2>1, <2>3, <3>1
    <2> QED
      BY <2>2, <2>3
  <1>6. /\ project \in Project /\ project' \in Project /\ project'.files = project.files
        /\ project'.stages = project.stages \ {Current}
    <2>1. project \in Project
      BY DEF TypeOK, Project
    <2> QED
      BY <1>1, <2>1 DEF Project
  <1>7. TypeOK'
    BY <1>1, <1>3, <1>5, <1>6 DEF TypeOK, NoImport, Token, Project
  <1>8. StoreInv' /\ LeaseInv' /\ ImportInv'
    BY <1>1, <1>5 DEF StoreInv, LeaseInv, ImportInv, At, NoImport, Fresh
  <1>9. \A q \in Results : Used(q)' = Used(q)
    BY <1>1, <1>2, <1>3 DEF Used, At, NoImport
  <1>10. UsedOnce'
    <2>1. Kept(r) /\ ReservedBy(r, Importer) => Used(r) = 0
      BY ReservedIsUnused DEF ReservedBy
    <2> QED
      BY <1>1, <1>5, <1>9, <2>1 DEF UsedOnce, Kept
  <1>11. ReservationsAreHeld'
    <2> SUFFICES ASSUME NEW q \in Results, Kept(q), token'[q].state = "reserved"
                 PROVE  token'[q].holder \in Claimers /\ claim[token'[q].holder] = q
      BY <1>1 DEF ReservationsAreHeld, Kept
    <2>1. token'[q] = token[q] /\ (q = r => ~ReservedBy(r, Importer))
      BY <1>5 DEF Fresh
    <2>2. token[q].holder = Importer => import.result # q
      <3>1. token[q] \in Token
        BY DEF TypeOK, Token
      <3>2. token[q].holder = Importer => ReservedBy(q, Importer)
        BY <2>1, <3>1 DEF ReservedBy, Token
      <3> QED
        BY <1>4, <2>1, <3>2
    <2> QED
      BY <2>1, <2>2 DEF ReservationsAreHeld
  <1>12. ASSUME ~LateSaves PROVE FilesInv' /\ ImportIsAllOrNothing'
    <2>1. Current \notin project'.files \union project'.stages
      BY <1>1, <1>6, <1>12 DEF FilesInv, At
    <2> QED
      BY <1>1, <1>2, <1>6, <1>12, <2>1, FilesAtTheEnd
  <1> QED
    BY <1>7, <1>8, <1>10, <1>11, <1>12

\* A preview is one more, in the place of the oldest if need be.
LEMMA PreviewStep ==
  ASSUME GInv, Preview
  PROVE  GInv'
  <1> USE DEF GInv
  <1>1. UNCHANGED <<network, search, lingering, records, token, expired, import, claim, project,
                    attempts, claimed, drawn, counts>> /\ At("idle")
    BY DEF Preview, net, store, history
  <1>2. previews' \in Seq([result : Results, version : Nat])
    <2> DEFINE P == [result : Results, version : Nat]
    <2>1. previews \in Seq(P) /\ Len(previews) \in Nat
      BY DEF TypeOK
    <2>2. PICK r \in drawn :
            previews' = Append(IF Len(previews) < MaxRecords THEN previews ELSE Tail(previews),
                               [result |-> r, version |-> project.version])
      BY DEF Preview
    <2> DEFINE p == [result |-> r, version |-> project.version]
    <2>3. p \in P
      BY DEF TypeOK
    <2> HIDE DEF p, P
    <2>4. CASE Len(previews) < MaxRecords
      <3>1. previews' = Append(previews, p)
        BY <2>2, <2>4 DEF p
      <3> QED
        BY <2>1, <2>3, <3>1, AppendProperties DEF P
    <2>5. CASE ~(Len(previews) < MaxRecords)
      <3>1. previews # <<>>
        BY <2>1, <2>5, EmptySeq, BoundsAssumption
      <3>2. Tail(previews) \in Seq(P)
        BY <2>1, <3>1, HeadTailProperties
      <3>3. previews' = Append(Tail(previews), p)
        BY <2>2, <2>5 DEF p
      <3> QED
        BY <2>3, <3>2, <3>3, AppendProperties DEF P
    <2> QED
      BY <2>4, <2>5
  <1>3. TypeOK'
    BY <1>1, <1>2 DEF TypeOK
  <1>4. StoreInv' /\ LeaseInv' /\ ImportInv' /\ ReservationsAreHeld'
    BY <1>1 DEF StoreInv, LeaseInv, ImportInv, At, ReservationsAreHeld, Kept
  <1>5. UsedOnce'
    <2>1. \A q \in Results : Used(q)' = Used(q)
      BY <1>1, SameUse DEF At
    <2> QED
      BY <1>1, <2>1 DEF UsedOnce, Kept
  <1>6. ~LateSaves => FilesInv' /\ ImportIsAllOrNothing'
    BY <1>1 DEF FilesInv, ImportIsAllOrNothing, At, Current, Verified
  <1> QED
    BY <1>3, <1>4, <1>5, <1>6

\* An import begins as an attempt of its own, which has no file yet.
LEMMA BeginImportStep ==
  ASSUME GInv, BeginImport
  PROVE  GInv'
  <1> USE DEF GInv
  <1>1. /\ UNCHANGED <<network, search, lingering, records, token, expired, previews, claim, project,
                       claimed, drawn, counts>>
        /\ At("idle") /\ import = NoImport /\ Len(attempts) < MaxImports
    BY DEF BeginImport, net, store, ImportInv
  <1>2. PICK i \in DOMAIN previews :
          /\ previews[i].version = project.version
          /\ import' = [NoImport EXCEPT !.pc = "bound", !.preview = i,
                                        !.result = previews[i].result, !.version = project.version]
          /\ attempts' = Append(attempts, [result |-> previews[i].result, outcome |-> "running"])
    BY DEF BeginImport
  <1> DEFINE a == [result |-> previews[i].result, outcome |-> "running"]
  <1>3. /\ i \in Nat /\ previews[i].result \in Results /\ project.version \in Nat
    <2>0. previews \in Seq([result : Results, version : Nat])
      BY DEF TypeOK
    <2>1. previews \in Seq([result : Results, version : Nat]) /\ i \in 1 .. Len(previews)
      BY <2>0
    <2>2. previews[i] \in [result : Results, version : Nat]
      BY <2>1, ElementOfSeq
    <2> QED
      BY <2>1, <2>2 DEF TypeOK
  <1>4. /\ import' \in Import /\ import'.pc = "bound" /\ import'.preview = i
        /\ import'.result = previews[i].result /\ import'.placed = FALSE
    BY <1>2, <1>3 DEF NoImport, Import, PCs
  <1>5. a \in Attempt
    BY <1>3 DEF Attempt
  <1>6. /\ attempts \in Seq(Attempt) /\ DOMAIN attempts = 1 .. Len(attempts) /\ Len(attempts) \in Nat
        /\ attempts' \in Seq(Attempt) /\ attempts' # <<>>
        /\ Len(attempts') = Len(attempts) + 1 /\ DOMAIN attempts' = 1 .. (Len(attempts) + 1)
        /\ \A j \in 1 .. Len(attempts) : attempts'[j] = attempts[j]
        /\ attempts'[Len(attempts) + 1] = a
    <2>1. attempts \in Seq(Attempt) /\ Len(attempts) \in Nat /\ attempts' = Append(attempts, a)
      BY <1>2 DEF TypeOK
    <2> HIDE DEF a
    <2>2. /\ attempts' \in Seq(Attempt) /\ attempts' # <<>> /\ Len(attempts') = Len(attempts) + 1
          /\ \A j \in 1 .. Len(attempts) : attempts'[j] = attempts[j]
          /\ attempts'[Len(attempts) + 1] = a
      BY <1>5, <2>1, AppendProperties
    <2> QED
      BY <2>1, <2>2
  <1>7. TypeOK'
    <2>1. Len(attempts') <= MaxImports
      BY <1>1, <1>6, BoundsAssumption
    <2> QED
      BY <1>1, <1>4, <1>6, <2>1 DEF TypeOK, Import, PCs
  <1>8. \A q \in Results : Used(q)' = Used(q)
    <2> SUFFICES ASSUME NEW q \in Results PROVE Used(q)' = Used(q)
      OBVIOUS
    <2>1. Imports(q)' = Imports(q)
      BY <1>6 DEF Imports
    <2>2. Granted(q)' = Granted(q)
      BY <1>1, <2>1 DEF Granted, Imports
    <2> QED
      BY <1>1, <1>4, <2>2 DEF Used, At, NoImport
  <1>9. UsedOnce'
    BY <1>1, <1>8 DEF UsedOnce, Kept
  <1>10. StoreInv' /\ LeaseInv'
    BY <1>1 DEF StoreInv, LeaseInv
  <1>11. ReservationsAreHeld'
    BY <1>1, NamesAssumption DEF ReservationsAreHeld, Kept, NoImport
  <1>12. ImportInv'
    BY <1>1, <1>4, <1>6 DEF ImportInv, At, Current
  <1>13. ASSUME ~LateSaves PROVE FilesInv' /\ ImportIsAllOrNothing'
    <2>1. project.stages \union project.files \subseteq 1 .. Len(attempts)
      BY <1>13 DEF FilesInv, Current
    <2>2. FilesInv'
      BY <1>1, <1>4, <1>6, <2>1 DEF FilesInv, At, Current
    <2>3. ImportIsAllOrNothing'
      BY <1>1, <1>6, <1>13 DEF ImportIsAllOrNothing
    <2> QED
      BY <2>2, <2>3
  <1> QED
    BY <1>7, <1>9, <1>10, <1>11, <1>12, <1>13

-----------------------------------------------------------------------------
(* The environment.                                                             *)

\* Another project.yaml is no file of an import.
LEMMA SaveProjectStep ==
  ASSUME GInv, SaveProject
  PROVE  GInv'
  <1> USE DEF GInv
  <1>1. /\ UNCHANGED <<network, search, lingering, records, token, expired, previews, import, claim,
                       attempts, claimed, drawn>>
        /\ LateSaves \/ ~At("renamed")
        /\ project' = [project EXCEPT !.version = @ + 1]
    BY DEF SaveProject, net, store, history
  <1>2. /\ project' \in Project
        /\ project'.stages = project.stages /\ project'.files = project.files
    <2>1. project \in Project
      BY DEF TypeOK, Project
    <2> QED
      BY <1>1, <2>1 DEF Project
  <1>3. counts' \in [saves : Nat, switches : Nat, crashes : Nat]
    <2>1. counts \in [saves : Nat, switches : Nat, crashes : Nat]
      BY DEF TypeOK
    <2> QED
      BY <2>1 DEF SaveProject
  <1>4. TypeOK'
    BY <1>1, <1>2, <1>3 DEF TypeOK, Project
  <1>5. StoreInv' /\ LeaseInv' /\ ImportInv' /\ ReservationsAreHeld'
    BY <1>1 DEF StoreInv, LeaseInv, ImportInv, At, Current, ReservationsAreHeld, Kept
  <1>6. UsedOnce'
    <2>1. \A q \in Results : Used(q)' = Used(q)
      BY <1>1, SameUse DEF At
    <2> QED
      BY <1>1, <2>1 DEF UsedOnce, Kept
  <1>7. ~LateSaves => FilesInv' /\ ImportIsAllOrNothing'
    BY <1>1, <1>2 DEF FilesInv, ImportIsAllOrNothing, At, Current
  <1> QED
    BY <1>4, <1>5, <1>6, <1>7

\* After a crash no token is left, and the import that was under way has not succeeded.
LEMMA CrashStep ==
  ASSUME GInv, Crash
  PROVE  GInv'
  <1> USE DEF GInv
  <1>1. /\ network' = [enabled |-> FALSE, epoch |-> 1] /\ search' = [s \in Searchers |-> NoSearch]
        /\ lingering' = 0 /\ records' = <<>> /\ expired' = {} /\ previews' = <<>>
        /\ token' = [r \in Results |-> Fresh] /\ import' = NoImport
        /\ claim' = [c \in Claimers |-> Nobody]
        /\ UNCHANGED <<project, claimed, drawn>>
    BY DEF Crash
  <1>2. counts' \in [saves : Nat, switches : Nat, crashes : Nat]
    <2>1. counts \in [saves : Nat, switches : Nat, crashes : Nat]
      BY DEF TypeOK
    <2> QED
      BY <2>1 DEF Crash
  <1>3. /\ attempts' \in Seq(Attempt) /\ Len(attempts') = Len(attempts)
        /\ \A q \in Results : Granted(q)' = Granted(q)
    <2>1. CASE At("idle")
      <3>1. attempts' = attempts
        BY <2>1 DEF Crash
      <3> QED
        BY <1>1, <3>1 DEF TypeOK, Granted
    <2>2. CASE ~At("idle")
      BY <1>1, <2>2, EndOfAttempt DEF Crash
    <2> QED
      BY <2>1, <2>2
  <1>4. TypeOK'
    <2>1. /\ NoSearch \in Search /\ NoImport.pc = "idle" /\ NoImport.preview = 0
          /\ NoImport.result = Nobody /\ NoImport.version \in Nat /\ NoImport.placed \in BOOLEAN
      BY DEF NoSearch, Search, NoImport
    <2> QED
      BY <1>1, <1>2, <1>3, <2>1 DEF TypeOK, NoImport, Fresh
  <1>5. StoreInv' /\ LeaseInv' /\ ImportInv' /\ ReservationsAreHeld' /\ \A q \in Results : ~Kept(q)'
    BY <1>1 DEF StoreInv, LeaseInv, ImportInv, At, ReservationsAreHeld, Kept, NoImport, NoSearch,
      Fresh
  <1>6. UsedOnce'
    <2> SUFFICES ASSUME NEW q \in Results
                 PROVE  Used(q)' <= 1 /\ (Used(q)' = 1 => q \in drawn)
      BY <1>1, <1>5 DEF UsedOnce
    <2>1. Used(q)' = Granted(q) /\ Granted(q) \in Nat
      BY <1>1, <1>3, GrantedIsNat DEF Used, At, NoImport
    <2>2. Used(q) \in Nat /\ Granted(q) <= Used(q)
      BY UsedIsNat
    <2>3. Used(q) <= 1 /\ (Used(q) = 1 => q \in drawn)
      BY DEF UsedOnce
    <2> QED
      BY <2>1, <2>2, <2>3
  <1>7. ASSUME ~LateSaves PROVE FilesInv' /\ ImportIsAllOrNothing'
    <2>1. CASE At("idle")
      <3>1. attempts' = attempts
        BY <2>1 DEF Crash
      <3> QED
        BY <1>1, <1>7, <3>1 DEF FilesInv, ImportIsAllOrNothing, At, Current, NoImport
    <2>2. CASE ~At("idle")
      BY <1>1, <1>7, <2>2, FilesAtTheEnd DEF Crash
    <2> QED
      BY <2>1, <2>2
  <1> QED
    BY <1>4, <1>5, <1>6, <1>7

-----------------------------------------------------------------------------
(* Every step.                                                                  *)

\* A step that changes nothing preserves the invariant.
LEMMA StutterStep ==
  ASSUME GInv, UNCHANGED vars
  PROVE  GInv'
  <1> USE DEF GInv
  <1>1. UNCHANGED <<network, search, lingering, records, token, expired, previews, import, claim,
                    project, attempts, claimed, drawn, counts>>
    BY DEF vars, net, store, history
  <1>2. TypeOK' /\ LeaseInv'
    BY <1>1 DEF TypeOK, LeaseInv
  <1> QED
    BY <1>1, <1>2, NetStep DEF store, history

\* Every step preserves the invariant.
LEMMA StepInv ==
  ASSUME GInv, [Next]_vars
  PROVE  GInv'
  <1>1. CASE \E on \in BOOLEAN : SetNetwork(on)
    BY <1>1, SetNetworkStep
  <1>2. CASE \E s \in Searchers :
               \/ AcquireLease(s) \/ Send(s) \/ Answered(s) \/ TimeOut(s) \/ Publish(s)
               \/ ReleaseLease(s)
    BY <1>2, SearchStep, PublishStep
  <1>3. CASE ThreadEnds \/ Expire
    BY <1>3, ThreadEndsStep, ExpireStep
  <1>4. CASE \E c \in Claimers : ReserveClaim(c) \/ ClaimEnds(c)
    BY <1>4, ReserveClaimStep, GrantClaimStep, AbandonClaimStep DEF ClaimEnds
  <1>5. CASE Preview \/ BeginImport
    BY <1>5, PreviewStep, BeginImportStep
  <1>6. CASE ImportStep
    BY <1>6, ReserveStep, StageStep, RenameStep, RenamedStep, CommitTokenStep, SucceedStep,
      RollBackStep, UndoStep, GiveBackStep DEF ImportStep
  <1>7. CASE SaveProject \/ Crash
    BY <1>7, SaveProjectStep, CrashStep
  <1>8. CASE UNCHANGED vars
    BY <1>8, StutterStep
  <1> QED
    BY <1>1, <1>2, <1>3, <1>4, <1>5, <1>6, <1>7, <1>8 DEF Next

\* Whatever the gateway does, the inductive invariant holds (ExternalReferenceGateway).
THEOREM Invariance == Spec => []GInv
  <1>1. Init => GInv
    BY InitInv
  <1>2. GInv /\ [Next]_vars => GInv'
    BY StepInv
  <1> QED
    BY <1>1, <1>2, PTL DEF Spec

\* A token authorises one claim or import at most, however many searches, claims and imports
\* there are (_ResultTokenStore).
THEOREM OneUse == Spec => []OneUsePerResult
  <1>1. GInv => OneUsePerResult
    <2> SUFFICES ASSUME GInv, NEW r \in Results PROVE Granted(r) <= 1
      BY DEF OneUsePerResult
    <2>1. Granted(r) \in Nat /\ Used(r) \in Nat /\ Granted(r) <= Used(r) /\ Used(r) <= 1
      BY GrantedIsNat, UsedIsNat DEF GInv, UsedOnce
    <2> QED
      BY <2>1
  <1> QED
    BY <1>1, Invariance, PTL

\* A reservation has a call that will end it (release_import, rollback_committed_import).
THEOREM NoOrphanedReservation == Spec => []ReservationsAreHeld
  <1>1. GInv => ReservationsAreHeld
    BY DEF GInv
  <1> QED
    BY <1>1, Invariance, PTL

\* An import leaves its candidate or nothing, if project.yaml is not saved between the rename
\* and the look at it that follows (import_structure_candidate).
THEOREM AllOrNothing ==
  ASSUME LateSaves = FALSE
  PROVE  Spec => []ImportIsAllOrNothing
  <1>1. GInv => ImportIsAllOrNothing
    BY DEF GInv
  <1> QED
    BY <1>1, Invariance, PTL

\* No search whose lease was cut publishes what it found (_assert_network_lease_current).
THEOREM NothingStale == Spec => NothingStaleIsPublished
  <1>1. ASSUME GInv, [Next]_vars, drawn' # drawn
        PROVE  \E s \in Searchers :
                 search[s].pc = "answered" /\ ~search[s].cut /\ search'[s].pc = "done"
    <2>1. PICK s \in Searchers : Publish(s)
      <3>1. \A on \in BOOLEAN : SetNetwork(on) => drawn' = drawn
        BY DEF SetNetwork, history
      <3>2. \A s \in Searchers :
              AcquireLease(s) \/ Send(s) \/ Answered(s) \/ TimeOut(s) \/ ReleaseLease(s) =>
              drawn' = drawn
        BY DEF AcquireLease, Send, Answered, TimeOut, ReleaseLease, Searching, history
      <3>3. ThreadEnds \/ Expire \/ Preview \/ BeginImport \/ SaveProject \/ Crash => drawn' = drawn
        BY DEF ThreadEnds, Expire, Preview, BeginImport, SaveProject, Crash, history
      <3>4. \A c \in Claimers : ReserveClaim(c) \/ ClaimEnds(c) => drawn' = drawn
        BY DEF ReserveClaim, ClaimEnds, GrantClaim, AbandonClaim, history
      <3>5. ImportStep => drawn' = drawn
        BY DEF ImportStep, Reserve, Stage, Rename, Renamed, CommitToken, Succeed, RollBack, Undo,
          GiveBack, history
      <3>6. UNCHANGED vars => drawn' = drawn
        BY DEF vars, history
      <3> QED
        BY <1>1, <3>1, <3>2, <3>3, <3>4, <3>5, <3>6 DEF Next
    <2>2. /\ search[s].pc = "answered" /\ search' = [search EXCEPT ![s].pc = "done"]
          /\ network.enabled /\ search[s].epoch = network.epoch
      BY <1>1, <2>1 DEF Publish, LeaseIsCurrent
    <2>3. search[s] \in Search /\ search \in [Searchers -> Search]
      BY <1>1 DEF GInv, TypeOK
    <2>4. ~search[s].cut
      BY <1>1, <2>2, <2>3 DEF GInv, LeaseInv
    <2>5. search'[s].pc = "done"
      BY <2>2, <2>3 DEF Search
    <2> QED
      BY <2>2, <2>4, <2>5
  <1>2. GInv /\ [Next]_vars =>
          [drawn' # drawn =>
             \E s \in Searchers :
               search[s].pc = "answered" /\ ~search[s].cut /\ search'[s].pc = "done"]_vars
    BY <1>1
  <1> QED
    BY <1>2, Invariance, PTL DEF Spec, NothingStaleIsPublished

-----------------------------------------------------------------------------
(* The calls of the project's lifecycle, as MCProjectFiles composes it with the *)
(* gateway: where a call is, what it has in memory and what the journal says.   *)

\* The record in memory is the journal's, or the one whose write failed.
SameTransaction(rec) ==
  /\ rec.txn = journal.txn /\ rec.action = journal.action /\ rec.registry = journal.registry
  /\ rec.status = "committed" <=> journal.status = "committed"
  /\ journal.projection \in {{}, rec.projection}

\* A copy or a move is planned where nothing is registered.
SoundPlan(plan) ==
  plan.action # "adopt" => "destination" \notin plan.registry \union plan.ledger.dirs

\* What a call in its transaction has reached: the status that the journal tells, and the steps
\* of its action.
StatusOk(c, pc) ==
  /\ journal.status = "committed" => pc \in {"undo", "release", "unmark", "forget"}
  /\ pc \in {"release", "unmark"} => journal.status = "committed"
  /\ pc \in L!Forward => c.rec = journal /\ c.plan.action = journal.action
  /\ pc \in {"copy", "fill", "out", "mark", "inspect", "rewrite", "rewriteJob", "publish",
               "projectRegistry"} => journal.projection = {}
  /\ pc \in {"checkRegistry", "writeRegistry", "projectLedger", "merge", "commit"} =>
       journal.projection # {}

ActionOk(c, pc) ==
  /\ pc \in {"copy", "fill", "removing"} => journal.action = "clone"
  /\ pc \in {"out", "mark", "restore", "back", "authority"} => journal.action = "move"
  /\ pc \in {"rewriteJob", "restoreProject", "undoJob", "restoreJob"} => journal.action = "adopt"
  /\ pc \in {"inspect", "rewrite"} => journal.action # "clone"
  /\ pc = "publish" => journal.action # "adopt"
  /\ pc \in {"removing", "restore", "back"} => c.owned \in {"stage", "destination"}
  /\ pc = "restore" => c.current.text = c.rec.project.text

CallOk(c) ==
  /\ c.plan # None => SoundPlan(c.plan)
  /\ c.pc \in L!Forward => c.plan # None
  /\ c.pc = "begin" => journal = None /\ begun + 1 \in Lifecycles
  /\ c.pc \notin {"idle", "begin"} =>
       journal # None /\ c.rec # None /\ SameTransaction(c.rec)
       /\ StatusOk(c, c.pc) /\ ActionOk(c, c.pc)

Ctl ==
  /\ L!TypeOK
  /\ \A s \in Services : CallOk(service[s]) /\ (service[s].pc # "idle" => lock = s)

Steps == L!Forward \union L!Cleanup \union L!UndoTree \union L!UndoRest \union {"idle"}

\* Everybody but the caller is idle: what a step makes of its call decides.
LEMMA CtlCalls ==
  ASSUME Ctl, NEW s \in Services, NEW w \in L!Call,
         service' = [service EXCEPT ![s] = w],
         service[s].pc # "idle" \/ lock = Nobody,
         lock' \in {lock, s, Nobody}, w.pc # "idle" => lock' = s,
         CallOk(w)'
  PROVE  /\ service' \in [Services -> L!Call] /\ lock' \in Services \union {Nobody}
         /\ service'[s] = w
         /\ \A d \in Services : d # s => service'[d] = service[d] /\ service[d].pc = "idle"
         /\ \A d \in Services : CallOk(service[d])' /\ (service'[d].pc # "idle" => lock' = d)
  <1>1. service \in [Services -> L!Call] /\ lock \in Services \union {Nobody}
    BY DEF Ctl, L!TypeOK
  <1>2. service' \in [Services -> L!Call] /\ service'[s] = w
    BY <1>1
  <1>3. lock = s \/ lock = Nobody
    BY DEF Ctl
  <1>4. Nobody \notin Services
    BY LifecycleAssumptions DEF L!ConstantsAssumption
  <1>5. ASSUME NEW d \in Services, d # s
        PROVE  /\ service'[d] = service[d] /\ service[d].pc = "idle"
               /\ CallOk(service[d])'
    <2>1. service'[d] = service[d]
      BY <1>1, <1>5
    <2>2. service[d].pc = "idle"
      BY <1>3, <1>4, <1>5 DEF Ctl
    <2>3. service[d].plan # None => SoundPlan(service[d].plan)
      BY DEF Ctl, CallOk
    <2>4. CallOk(service[d])'
      BY <2>1, <2>2, <2>3 DEF CallOk, L!Forward, SoundPlan
    <2> QED
      BY <2>1, <2>2, <2>4
  <1>6. CallOk(service[s])'
    BY <1>2 DEF CallOk
  <1>7. lock' \in Services \union {Nobody}
    BY <1>1
  <1> QED
    BY <1>2, <1>5, <1>6, <1>7

\* A call at another step.
LEMMA GotoCall ==
  ASSUME service \in [Services -> L!Call], NEW s \in Services, NEW pc \in Steps, L!Goto(s, pc)
  PROVE  \E w \in L!Call :
           /\ service' = [service EXCEPT ![s] = w]
           /\ w.pc = pc /\ w.how = service[s].how /\ w.plan = service[s].plan
           /\ w.rec = service[s].rec /\ w.owned = service[s].owned
           /\ w.failed = service[s].failed /\ w.seen = service[s].seen
           /\ w.current = service[s].current
  <1>1. PICK w : w = [service[s] EXCEPT !.pc = pc]
    OBVIOUS
  <1>2. service[s] \in L!Call
    OBVIOUS
  <1>3. w \in L!Call
    BY <1>1, <1>2 DEF L!Call, Steps
  <1>4. /\ w.pc = pc /\ w.how = service[s].how /\ w.plan = service[s].plan
        /\ w.rec = service[s].rec /\ w.owned = service[s].owned
        /\ w.failed = service[s].failed /\ w.seen = service[s].seen
        /\ w.current = service[s].current
    BY <1>1, <1>2 DEF L!Call
  <1>5. service' = [service EXCEPT ![s] = w]
    BY <1>1 DEF L!Goto
  <1> QED
    BY <1>3, <1>4, <1>5

\* A call that remembers an error and goes on with its recovery.
LEMMA SkipCall ==
  ASSUME service \in [Services -> L!Call], NEW s \in Services, NEW pc \in Steps, L!Skip(s, pc)
  PROVE  \E w \in L!Call :
           /\ service' = [service EXCEPT ![s] = w]
           /\ w.pc = pc /\ w.how = service[s].how /\ w.plan = service[s].plan
           /\ w.rec = service[s].rec /\ w.failed
  <1>1. PICK w : w = [service[s] EXCEPT !.failed = TRUE, !.pc = pc]
    OBVIOUS
  <1>2. service[s] \in L!Call
    OBVIOUS
  <1>3. w \in L!Call
    BY <1>1, <1>2 DEF L!Call, Steps
  <1>4. /\ w.pc = pc /\ w.how = service[s].how /\ w.plan = service[s].plan
        /\ w.rec = service[s].rec /\ w.failed
    BY <1>1, <1>2 DEF L!Call
  <1>5. service' = [service EXCEPT ![s] = w]
    BY <1>1 DEF L!Skip
  <1> QED
    BY <1>3, <1>4, <1>5

\* An exception in apply(), with the record that memory holds.
LEMMA UndoCall ==
  ASSUME service \in [Services -> L!Call], NEW s \in Services, NEW rec \in L!Record,
         service' = [service EXCEPT ![s].rec = rec, ![s].pc = "undo", ![s].how = "failing"]
  PROVE  \E w \in L!Call :
           /\ service' = [service EXCEPT ![s] = w]
           /\ w.pc = "undo" /\ w.plan = service[s].plan /\ w.rec = rec
           /\ w.failed = service[s].failed
  <1>1. PICK w : w = [service[s] EXCEPT !.rec = rec, !.pc = "undo", !.how = "failing"]
    OBVIOUS
  <1>2. service[s] \in L!Call
    OBVIOUS
  <1>3. w \in L!Call
    BY <1>1, <1>2 DEF L!Call, L!UndoTree
  <1>4. /\ w.pc = "undo" /\ w.plan = service[s].plan /\ w.rec = rec /\ w.failed = service[s].failed
    BY <1>1, <1>2 DEF L!Call
  <1>5. service' = [service EXCEPT ![s] = w]
    BY <1>1
  <1> QED
    BY <1>3, <1>4, <1>5

\* A call that has written its record to the journal.
LEMMA JournalCall ==
  ASSUME service \in [Services -> L!Call], NEW s \in Services, NEW pc \in Steps,
         NEW rec \in L!Record, L!Journal(s, rec, pc)
  PROVE  /\ journal' = rec
         /\ \E w \in L!Call :
              /\ service' = [service EXCEPT ![s] = w]
              /\ w.pc = pc /\ w.how = service[s].how /\ w.plan = service[s].plan
              /\ w.rec = rec /\ w.failed = service[s].failed
  <1>1. PICK w : w = [service[s] EXCEPT !.rec = rec, !.pc = pc]
    OBVIOUS
  <1>2. service[s] \in L!Call
    OBVIOUS
  <1>3. w \in L!Call
    BY <1>1, <1>2 DEF L!Call, Steps
  <1>4. /\ w.pc = pc /\ w.how = service[s].how /\ w.plan = service[s].plan
        /\ w.rec = rec /\ w.failed = service[s].failed
    BY <1>1, <1>2 DEF L!Call
  <1>5. service' = [service EXCEPT ![s] = w]
    BY <1>1 DEF L!Journal
  <1> QED
    BY <1>3, <1>4, <1>5 DEF L!Journal

\* A call that returns what it has to say.
LEMMA ReturnCall ==
  ASSUME NEW s \in Services,
         NEW said \in {"nothing", "refused", "done", "failed", "partial", "finalized", "rolled back"},
         L!Return(s, said)
  PROVE  /\ lock' = Nobody
         /\ \E w \in L!Call :
              /\ service' = [service EXCEPT ![s] = w]
              /\ w.pc = "idle" /\ w.plan = None /\ w.rec = None
  <1>1. PICK w : w = [L!NoCall EXCEPT !.said = said]
    OBVIOUS
  <1>2. w \in L!Call /\ w.pc = "idle" /\ w.plan = None /\ w.rec = None
    BY <1>1 DEF L!Call, L!NoCall, L!Original, L!Content
  <1> QED
    BY <1>1, <1>2 DEF L!Return

\* The files, the bounds and the history stay what they may be.
FilesTyped ==
  /\ tree \in [L!Places -> L!Tree] /\ registry \in SUBSET Entries /\ ledger \in L!Ledger
  /\ journal \in L!Record \union {None} /\ begun \in Nat /\ troubles \in Nat
  /\ raced \in BOOLEAN /\ clerk \in L!Clerk /\ touched \in SUBSET Entries

\* Ctl after a step of one call, from what the step makes of that call and of the files.
LEMMA CtlStep ==
  ASSUME Ctl, NEW s \in Services, NEW w \in L!Call,
         service' = [service EXCEPT ![s] = w],
         service[s].pc # "idle" \/ lock = Nobody,
         lock' \in {lock, s, Nobody}, w.pc # "idle" => lock' = s,
         CallOk(w)', FilesTyped'
  PROVE  Ctl'
  <1>1. /\ service' \in [Services -> L!Call] /\ lock' \in Services \union {Nobody}
        /\ \A d \in Services : CallOk(service[d])' /\ (service'[d].pc # "idle" => lock' = d)
    BY CtlCalls
  <1> QED
    BY <1>1 DEF Ctl, L!TypeOK, FilesTyped

\* What holds of a call in its transaction.
LEMMA CtlTells ==
  ASSUME Ctl, NEW s \in Services, service[s].pc \notin {"idle", "begin"}
  PROVE  /\ service \in [Services -> L!Call] /\ service[s] \in L!Call
         /\ lock = s /\ journal \in L!Record /\ journal # None
         /\ service[s].rec \in L!Record /\ service[s].rec # None
         /\ SameTransaction(service[s].rec)
         /\ StatusOk(service[s], service[s].pc) /\ ActionOk(service[s], service[s].pc)
         /\ service[s].plan # None => SoundPlan(service[s].plan)
         /\ service[s].pc \in L!Forward => service[s].plan \in L!Plan
         /\ FilesTyped
  <1>1. service \in [Services -> L!Call] /\ FilesTyped
    BY DEF Ctl, L!TypeOK, FilesTyped
  <1>2. CallOk(service[s]) /\ lock = s
    BY DEF Ctl
  <1>3. service[s] \in L!Call
    BY <1>1
  <1>4. service[s].plan \in L!Plan \union {None} /\ service[s].rec \in L!Record \union {None}
    BY <1>3 DEF L!Call
  <1> QED
    BY <1>1, <1>2, <1>3, <1>4 DEF CallOk, FilesTyped

\* A step that leaves the journal alone and goes on.
LEMMA CtlGoto ==
  ASSUME Ctl, NEW s \in Services, service[s].pc \notin {"idle", "begin"},
         NEW pc \in Steps \ {"idle", "begin"}, L!Goto(s, pc), UNCHANGED <<lock, journal>>,
         FilesTyped', StatusOk(service[s], pc), ActionOk(service[s], pc),
         pc \in L!Forward => service[s].pc \in L!Forward
  PROVE  Ctl'
  <1>1. /\ service \in [Services -> L!Call] /\ lock = s /\ journal # None
        /\ service[s].rec # None /\ SameTransaction(service[s].rec)
        /\ service[s].plan # None => SoundPlan(service[s].plan)
        /\ service[s].pc \in L!Forward => service[s].plan \in L!Plan
    BY CtlTells
  <1>2. PICK w \in L!Call :
          /\ service' = [service EXCEPT ![s] = w]
          /\ w.pc = pc /\ w.how = service[s].how /\ w.plan = service[s].plan
          /\ w.rec = service[s].rec /\ w.owned = service[s].owned
          /\ w.failed = service[s].failed /\ w.seen = service[s].seen
          /\ w.current = service[s].current
    BY <1>1, GotoCall
  <1>3. None \notin L!Plan
    BY LifecycleAssumptions DEF L!ConstantsAssumption
  <1>4. CallOk(w)
    BY <1>1, <1>2, <1>3 DEF CallOk, StatusOk, ActionOk
  <1>5. CallOk(w)'
    BY <1>2, <1>4 DEF CallOk, StatusOk, ActionOk, SameTransaction, SoundPlan
  <1> QED
    BY <1>1, <1>2, <1>5, CtlStep

\* A step of the recovery that remembers an error.
LEMMA CtlSkip ==
  ASSUME Ctl, NEW s \in Services, service[s].pc \notin {"idle", "begin"},
         NEW pc \in {"undoLedger", "readRegistry", "finish"}, L!Skip(s, pc),
         UNCHANGED <<lock, journal>>, FilesTyped', journal.status # "committed"
  PROVE  Ctl'
  <1>1. /\ service \in [Services -> L!Call] /\ lock = s /\ journal # None
        /\ service[s].rec # None /\ SameTransaction(service[s].rec)
        /\ service[s].plan # None => SoundPlan(service[s].plan)
    BY CtlTells
  <1>2. pc \in Steps
    BY DEF Steps, L!UndoRest
  <1>3. PICK w \in L!Call :
          /\ service' = [service EXCEPT ![s] = w]
          /\ w.pc = pc /\ w.how = service[s].how /\ w.plan = service[s].plan
          /\ w.rec = service[s].rec /\ w.failed
    BY <1>1, <1>2, SkipCall
  <1>4. CallOk(w)'
    BY <1>1, <1>3 DEF CallOk, StatusOk, ActionOk, SameTransaction, L!Forward
  <1> QED
    BY <1>1, <1>3, <1>4, CtlStep

\* An exception in apply().
LEMMA CtlUndo ==
  ASSUME Ctl, NEW s \in Services, service[s].pc \notin {"idle", "begin"},
         NEW rec \in L!Record, rec # None, SameTransaction(rec),
         service' = [service EXCEPT ![s].rec = rec, ![s].pc = "undo", ![s].how = "failing"],
         UNCHANGED <<lock, journal>>, FilesTyped'
  PROVE  Ctl'
  <1>1. /\ service \in [Services -> L!Call] /\ lock = s /\ journal # None
        /\ service[s].plan # None => SoundPlan(service[s].plan)
    BY CtlTells
  <1>2. PICK w \in L!Call :
          /\ service' = [service EXCEPT ![s] = w]
          /\ w.pc = "undo" /\ w.plan = service[s].plan /\ w.rec = rec
          /\ w.failed = service[s].failed
    BY <1>1, UndoCall
  <1>3. CallOk(w)'
    BY <1>1, <1>2 DEF CallOk, StatusOk, ActionOk, SameTransaction, L!Forward
  <1> QED
    BY <1>1, <1>2, <1>3, CtlStep

\* A write of the journal: memory and file agree.
LEMMA CtlJournal ==
  ASSUME Ctl, NEW s \in Services, service[s].pc \in L!Forward,
         NEW pc \in Steps \ {"idle", "begin"}, NEW rec \in L!Record,
         L!Journal(s, rec, pc), lock' = lock, FilesTyped',
         rec.action = service[s].plan.action,
         rec.status = "committed" <=> pc = "release",
         rec.projection # {} <=> pc \notin {"copy", "out", "inspect", "rewrite"},
         pc \in {"copy", "out", "inspect", "rewrite", "checkRegistry", "merge", "release"},
         pc = "copy" => rec.action = "clone", pc = "out" => rec.action = "move",
         pc \in {"inspect", "rewrite"} => rec.action # "clone"
  PROVE  Ctl'
  <1>1. service \in [Services -> L!Call] /\ CallOk(service[s]) /\ lock = s
    BY DEF Ctl, L!TypeOK, L!Forward
  <1>2. journal' = rec
    BY <1>1, JournalCall
  <1>3. PICK w \in L!Call :
          /\ service' = [service EXCEPT ![s] = w]
          /\ w.pc = pc /\ w.how = service[s].how /\ w.plan = service[s].plan
          /\ w.rec = rec /\ w.failed = service[s].failed
    BY <1>1, JournalCall
  <1>4. None \notin L!Record
    BY LifecycleAssumptions DEF L!ConstantsAssumption
  <1>5. SameTransaction(rec)'
    BY <1>2 DEF SameTransaction
  <1>6. StatusOk(w, pc)' /\ ActionOk(w, pc)'
    BY <1>2, <1>3 DEF StatusOk, ActionOk
  <1>7. CallOk(w)'
    BY <1>1, <1>2, <1>3, <1>4, <1>5, <1>6 DEF CallOk
  <1> QED
    BY <1>1, <1>3, <1>7, CtlStep DEF L!Forward

\* The call returns.
LEMMA CtlReturn ==
  ASSUME Ctl, NEW s \in Services, service[s].pc # "idle" \/ lock = Nobody,
         NEW said \in {"nothing", "refused", "done", "failed", "partial", "finalized", "rolled back"},
         L!Return(s, said), FilesTyped'
  PROVE  Ctl'
  <1>1. lock' = Nobody
    BY ReturnCall
  <1>2. PICK w \in L!Call :
          /\ service' = [service EXCEPT ![s] = w]
          /\ w.pc = "idle" /\ w.plan = None /\ w.rec = None
    BY ReturnCall
  <1>3. CallOk(w)'
    BY <1>2 DEF CallOk, L!Forward
  <1> QED
    BY <1>1, <1>2, <1>3, CtlStep

-----------------------------------------------------------------------------
(* What the ledger's operations do.                                             *)

\* Owners own what is there; a transaction that owns an entry has it in its receipt, and a
\* receipt speaks of entries that are there.
LedgerOk(l) ==
  /\ \A e \in Entries : l.owner[e] # NoOwner => e \in l.dirs
  /\ \A e \in Entries : l.owner[e] \in Lifecycles =>
       /\ l.receipt[l.owner[e]] # NoReceipt
       /\ e \in l.receipt[l.owner[e]].added
  /\ \A t \in Lifecycles : l.receipt[t] # NoReceipt =>
       /\ l.receipt[t].added \subseteq l.dirs
       /\ l.receipt[t].added \intersect l.receipt[t].removed = {}

\* What a save is given, and what it leaves.
Savable(l, dirs, owner) ==
  l \in L!Ledger /\ dirs \in SUBSET Entries /\ owner \in [Entries -> L!Owners]
Saved(l, dirs, owner, m) ==
  /\ m \in L!Ledger /\ m.dirs = dirs
  /\ \A e \in Entries : m.owner[e] = IF e \in dirs THEN owner[e] ELSE NoOwner
  /\ \A t \in Lifecycles :
       /\ m.receipt[t] = NoReceipt <=> l.receipt[t] = NoReceipt
       /\ l.receipt[t] # NoReceipt =>
            /\ m.receipt[t].added = l.receipt[t].added \intersect dirs
            /\ m.receipt[t].removed = l.receipt[t].removed

\* A save gives the entries and owners it was told, and takes away from receipts only.
LEMMA SaveTyped ==
  ASSUME NEW l, NEW dirs, NEW owner, Savable(l, dirs, owner)
  PROVE  Saved(l, dirs, owner, L!Save(l, dirs, owner))
  <1> USE DEF Savable
  <1>1. L!Kept(owner, dirs) \in [Entries -> L!Owners]
    BY DEF L!Kept, L!Owners
  <1>2. NoReceipt \notin L!Receipt
    BY LifecycleAssumptions DEF L!ConstantsAssumption, L!OwnersAreDistinct, L!Receipt
  <1>3. PICK rec : rec = [t \in Lifecycles |->
          IF l.receipt[t] = NoReceipt THEN NoReceipt
          ELSE [l.receipt[t] EXCEPT !.added = @ \intersect dirs]]
    OBVIOUS
  <1>4. ASSUME NEW t \in Lifecycles
        PROVE  /\ rec[t] \in L!Receipt \union {NoReceipt}
               /\ rec[t] = NoReceipt <=> l.receipt[t] = NoReceipt
               /\ l.receipt[t] # NoReceipt =>
                    /\ rec[t].added = l.receipt[t].added \intersect dirs
                    /\ rec[t].removed = l.receipt[t].removed
    <2>1. l.receipt[t] \in L!Receipt \union {NoReceipt}
      BY DEF L!Ledger
    <2>2. CASE l.receipt[t] \in L!Receipt
      <3>1. [l.receipt[t] EXCEPT !.added = @ \intersect dirs] \in L!Receipt
        BY <2>2 DEF L!Receipt
      <3>2. /\ [l.receipt[t] EXCEPT !.added = @ \intersect dirs].added
                 = l.receipt[t].added \intersect dirs
            /\ [l.receipt[t] EXCEPT !.added = @ \intersect dirs].removed = l.receipt[t].removed
        BY <2>2 DEF L!Receipt
      <3> QED
        BY <1>2, <1>3, <2>2, <3>1, <3>2
    <2>3. CASE l.receipt[t] = NoReceipt
      BY <1>3, <2>3
    <2> QED
      BY <2>1, <2>2, <2>3
  <1>5. rec \in [Lifecycles -> L!Receipt \union {NoReceipt}]
    BY <1>3, <1>4
  <1>6. L!Save(l, dirs, owner) = [dirs |-> dirs, owner |-> L!Kept(owner, dirs), receipt |-> rec]
    BY <1>3 DEF L!Save
  <1>7. PICK m : m = [dirs |-> dirs, owner |-> L!Kept(owner, dirs), receipt |-> rec]
    OBVIOUS
  <1>8. Saved(l, dirs, owner, m)
    BY <1>1, <1>4, <1>5, <1>7 DEF Saved, L!Ledger, L!Kept
  <1> QED
    BY <1>6, <1>7, <1>8

\* A save that gives no entry to a lifecycle transaction.
LEMMA SaveOk ==
  ASSUME NEW l \in L!Ledger, LedgerOk(l),
         NEW dirs \in SUBSET Entries, NEW owner \in [Entries -> L!Owners],
         \A e \in dirs : owner[e] \in Lifecycles => owner[e] = l.owner[e]
  PROVE  LedgerOk(L!Save(l, dirs, owner))
  <1>1. PICK m : m = L!Save(l, dirs, owner)
    OBVIOUS
  <1>2. Saved(l, dirs, owner, m)
    BY <1>1, SaveTyped DEF Savable
  <1>3. NoOwner \notin Lifecycles
    BY LifecycleAssumptions DEF L!ConstantsAssumption, L!OwnersAreDistinct
  <1>4. ASSUME NEW e \in Entries, m.owner[e] \in Lifecycles
        PROVE  m.receipt[m.owner[e]] # NoReceipt /\ e \in m.receipt[m.owner[e]].added
    <2>1. e \in dirs /\ m.owner[e] = l.owner[e]
      BY <1>2, <1>3, <1>4 DEF Saved
    <2>2. l.receipt[l.owner[e]] # NoReceipt /\ e \in l.receipt[l.owner[e]].added
      BY <1>4, <2>1 DEF LedgerOk
    <2> QED
      BY <1>2, <1>4, <2>1, <2>2 DEF Saved
  <1>5. LedgerOk(m)
    BY <1>2, <1>4 DEF LedgerOk, Saved
  <1> QED
    BY <1>1, <1>5

\* What others do to an entry of theirs.
OthersDo(l, m, e) ==
  \/ m = L!Register(l, e) \/ m = L!Unregister(l, e)
  \/ \E r \in Registrations :
       \/ L!Claimable(l, e, r) /\ m = L!RegisterOwned(l, e, r)
       \/ m = L!UnregisterOwned(l, e, r) \/ m = L!ReleaseOwner(l, e, r)
       \/ L!Claimable(l, e, r) /\ m = L!EnsureReleased(l, e, r)

\* Each of it is a save that touches that entry only.
LEMMA OthersSave ==
  ASSUME NEW l \in L!Ledger, NEW e \in Entries, NEW m, OthersDo(l, m, e)
  PROVE  \/ m = l
         \/ \E dirs \in SUBSET Entries, owner \in [Entries -> L!Owners] :
              /\ m = L!Save(l, dirs, owner)
              /\ \A d \in Entries : d # e => (d \in dirs <=> d \in l.dirs) /\ owner[d] = l.owner[d]
              /\ owner[e] \in Lifecycles => owner[e] = l.owner[e]
  <1>1. l.dirs \in SUBSET Entries /\ l.owner \in [Entries -> L!Owners]
    BY DEF L!Ledger
  <1>2. \A r \in Registrations \union {NoOwner} :
          [l.owner EXCEPT ![e] = r] \in [Entries -> L!Owners] /\ r \notin Lifecycles
    BY <1>1, LifecycleAssumptions DEF L!Owners, L!ConstantsAssumption, L!OwnersAreDistinct
  <1>3. \A r : \A d \in Entries : d # e => [l.owner EXCEPT ![e] = r][d] = l.owner[d]
    BY <1>1
  <1>4. \A r : [l.owner EXCEPT ![e] = r][e] = r
    BY <1>1
  <1>5. CASE m = L!Register(l, e)
    BY <1>1, <1>5 DEF L!Register
  <1>6. CASE m = L!Unregister(l, e)
    BY <1>1, <1>6 DEF L!Unregister
  <1>7. ASSUME NEW r \in Registrations, m = L!RegisterOwned(l, e, r)
        PROVE  m = l \/ \E dirs \in SUBSET Entries, owner \in [Entries -> L!Owners] :
                 /\ m = L!Save(l, dirs, owner)
                 /\ \A d \in Entries : d # e => (d \in dirs <=> d \in l.dirs) /\ owner[d] = l.owner[d]
                 /\ owner[e] \in Lifecycles => owner[e] = l.owner[e]
    BY <1>1, <1>2, <1>3, <1>4, <1>7 DEF L!RegisterOwned
  <1>8. ASSUME NEW r \in Registrations, m = L!UnregisterOwned(l, e, r)
        PROVE  m = l \/ \E dirs \in SUBSET Entries, owner \in [Entries -> L!Owners] :
                 /\ m = L!Save(l, dirs, owner)
                 /\ \A d \in Entries : d # e => (d \in dirs <=> d \in l.dirs) /\ owner[d] = l.owner[d]
                 /\ owner[e] \in Lifecycles => owner[e] = l.owner[e]
    BY <1>1, <1>8 DEF L!UnregisterOwned
  <1>9. ASSUME NEW r \in Registrations, m = L!ReleaseOwner(l, e, r) \/ m = L!EnsureReleased(l, e, r)
        PROVE  m = l \/ \E dirs \in SUBSET Entries, owner \in [Entries -> L!Owners] :
                 /\ m = L!Save(l, dirs, owner)
                 /\ \A d \in Entries : d # e => (d \in dirs <=> d \in l.dirs) /\ owner[d] = l.owner[d]
                 /\ owner[e] \in Lifecycles => owner[e] = l.owner[e]
    <2>1. PICK owner : owner = [l.owner EXCEPT ![e] = NoOwner]
      OBVIOUS
    <2>2. /\ owner \in [Entries -> L!Owners] /\ owner[e] \notin Lifecycles
          /\ \A d \in Entries : d # e => owner[d] = l.owner[d]
      BY <1>2, <1>3, <1>4, <2>1
    <2>3. \A dirs \in {l.dirs, l.dirs \union {e}} :
            dirs \in SUBSET Entries /\ \A d \in Entries : d # e => (d \in dirs <=> d \in l.dirs)
      BY <1>1
    <2>4. \/ m = l
          \/ m = L!Save(l, l.dirs, owner)
          \/ m = L!Save(l, l.dirs \union {e}, owner)
      BY <1>9, <2>1 DEF L!ReleaseOwner, L!EnsureReleased
    <2> QED
      BY <2>2, <2>3, <2>4
  <1> QED
    BY <1>5, <1>6, <1>7, <1>8, <1>9 DEF OthersDo

\* What others do leaves a ledger, and of a transaction's receipt takes away only.
LEMMA OthersTyped ==
  ASSUME NEW l \in L!Ledger, NEW e \in Entries, NEW m, OthersDo(l, m, e)
  PROVE  /\ m \in L!Ledger
         /\ \A d \in Entries : d # e => (d \in m.dirs <=> d \in l.dirs)
         /\ \A t \in Lifecycles :
              /\ m.receipt[t] = NoReceipt <=> l.receipt[t] = NoReceipt
              /\ l.receipt[t] # NoReceipt =>
                   /\ m.receipt[t].added \subseteq l.receipt[t].added
                   /\ m.receipt[t].removed = l.receipt[t].removed
  <1>1. CASE m = l
    BY <1>1
  <1>2. CASE m # l
    <2>1. PICK dirs \in SUBSET Entries, owner \in [Entries -> L!Owners] :
            /\ m = L!Save(l, dirs, owner)
            /\ \A d \in Entries : d # e => (d \in dirs <=> d \in l.dirs) /\ owner[d] = l.owner[d]
      BY <1>2, OthersSave
    <2>2. Saved(l, dirs, owner, m)
      BY <2>1, SaveTyped DEF Savable
    <2> QED
      BY <2>1, <2>2 DEF Saved
  <1> QED
    BY <1>1, <1>2

\* What others do to one entry leaves the owners of all the others.
LEMMA OthersOk ==
  ASSUME NEW l \in L!Ledger, LedgerOk(l), NEW e \in Entries, NEW m, OthersDo(l, m, e)
  PROVE  /\ LedgerOk(m)
         /\ \A d \in Entries : d # e => m.owner[d] = l.owner[d]
  <1>1. CASE m = l
    BY <1>1
  <1>2. CASE m # l
    <2>1. PICK dirs \in SUBSET Entries, owner \in [Entries -> L!Owners] :
            /\ m = L!Save(l, dirs, owner)
            /\ \A d \in Entries : d # e => (d \in dirs <=> d \in l.dirs) /\ owner[d] = l.owner[d]
            /\ owner[e] \in Lifecycles => owner[e] = l.owner[e]
      BY <1>2, OthersSave
    <2>2. LedgerOk(m)
      BY <2>1, SaveOk
    <2>3. Saved(l, dirs, owner, m)
      BY <2>1, SaveTyped DEF Savable
    <2>4. ASSUME NEW d \in Entries, d # e
          PROVE  m.owner[d] = l.owner[d]
      <3>1. l.owner[d] # NoOwner => d \in l.dirs
        BY DEF LedgerOk
      <3> QED
        BY <2>1, <2>3, <2>4, <3>1 DEF Saved
    <2> QED
      BY <2>2, <2>4
  <1> QED
    BY <1>1, <1>2

\* What a merge leaves: the transaction has its receipt, owns what it added, and the entries
\* that its projection does not change are as they were.
Merged(l, t, base, projected, m) ==
  /\ m \in L!Ledger /\ m.receipt[t] # NoReceipt
  /\ \A u \in Lifecycles : u # t => m.receipt[u] = l.receipt[u]
  /\ l.receipt[t] = NoReceipt =>
       /\ \A e \in projected \ base : e \notin l.dirs => m.owner[e] = t
       /\ \A e \in Entries : (e \in base <=> e \in projected) =>
            /\ e \in m.dirs <=> e \in l.dirs
            /\ e \notin m.receipt[t].added /\ e \notin m.receipt[t].removed
  /\ l.receipt[t] # NoReceipt => m = l

\* merge_projection adds and removes what differs between base and projection.
LEMMA MergeTyped ==
  ASSUME NEW l \in L!Ledger, NEW t \in Lifecycles,
         NEW base \in SUBSET Entries, NEW projected \in SUBSET Entries
  PROVE  Merged(l, t, base, projected, L!Merge(l, t, base, projected))
  <1>1. NoReceipt \notin L!Receipt
    BY LifecycleAssumptions DEF L!ConstantsAssumption, L!OwnersAreDistinct, L!Receipt
  <1>2. CASE l.receipt[t] # NoReceipt
    BY <1>2 DEF L!Merge, Merged
  <1>3. CASE l.receipt[t] = NoReceipt
    <2> DEFINE added == (projected \ base) \ l.dirs
               removed == l.dirs \intersect (base \ projected)
               dirs == (l.dirs \ removed) \union added
    <2>1. PICK owner : owner = [e \in Entries |-> IF e \in added THEN t ELSE L!Kept(l.owner, dirs)[e]]
      OBVIOUS
    <2>2. PICK r : r = [added |-> added, removed |-> removed]
      OBVIOUS
    <2>3. PICK receipt : receipt = [l.receipt EXCEPT ![t] = r]
      OBVIOUS
    <2>4. PICK m : m = [dirs |-> dirs, owner |-> owner, receipt |-> receipt]
      OBVIOUS
    <2>5. L!Merge(l, t, base, projected) = m
      BY <1>3, <2>1, <2>2, <2>3, <2>4 DEF L!Merge
    <2>6. added \in SUBSET Entries /\ removed \in SUBSET Entries /\ dirs \in SUBSET Entries
      BY DEF L!Ledger
    <2>7. r \in L!Receipt /\ r.added = added /\ r.removed = removed
      BY <2>2, <2>6 DEF L!Receipt
    <2>8. owner \in [Entries -> L!Owners] /\ \A e \in added : owner[e] = t
      BY <2>1, <2>6 DEF L!Ledger, L!Kept, L!Owners
    <2>9. /\ receipt \in [Lifecycles -> L!Receipt \union {NoReceipt}]
          /\ receipt[t] = r /\ \A u \in Lifecycles : u # t => receipt[u] = l.receipt[u]
      BY <2>3, <2>7 DEF L!Ledger
    <2>10. m \in L!Ledger /\ m.dirs = dirs /\ m.owner = owner /\ m.receipt = receipt
      BY <2>4, <2>6, <2>8, <2>9 DEF L!Ledger
    <2>11. \A e \in Entries : (e \in base <=> e \in projected) =>
             (e \in dirs <=> e \in l.dirs) /\ e \notin added /\ e \notin removed
      OBVIOUS
    <2>12. Merged(l, t, base, projected, m)
      BY <1>1, <1>3, <2>7, <2>8, <2>9, <2>10, <2>11 DEF Merged
    <2> QED
      BY <2>5, <2>12
  <1> QED
    BY <1>2, <1>3

\* Nobody but one transaction has a receipt.
OnlyReceipt(l, t) == \A u \in Lifecycles : u # t => l.receipt[u] = NoReceipt

\* A merge leaves every owned entry in the receipt of its owner.
LEMMA MergeOk ==
  ASSUME NEW l \in L!Ledger, LedgerOk(l), NEW t \in Lifecycles, OnlyReceipt(l, t),
         NEW base \in SUBSET Entries, NEW projected \in SUBSET Entries
  PROVE  LedgerOk(L!Merge(l, t, base, projected))
  <1>1. NoReceipt \notin L!Receipt
    BY LifecycleAssumptions DEF L!ConstantsAssumption, L!OwnersAreDistinct, L!Receipt
  <1>2. CASE l.receipt[t] # NoReceipt
    BY <1>2 DEF L!Merge
  <1>3. CASE l.receipt[t] = NoReceipt
    <2> DEFINE added == (projected \ base) \ l.dirs
               removed == l.dirs \intersect (base \ projected)
               dirs == (l.dirs \ removed) \union added
    <2>1. PICK owner : owner = [e \in Entries |-> IF e \in added THEN t ELSE L!Kept(l.owner, dirs)[e]]
      OBVIOUS
    <2>2. PICK r : r = [added |-> added, removed |-> removed]
      OBVIOUS
    <2>3. PICK receipt : receipt = [l.receipt EXCEPT ![t] = r]
      OBVIOUS
    <2>4. PICK m : m = [dirs |-> dirs, owner |-> owner, receipt |-> receipt]
      OBVIOUS
    <2>5. L!Merge(l, t, base, projected) = m
      BY <1>3, <2>1, <2>2, <2>3, <2>4 DEF L!Merge
    <2>6. /\ receipt[t] = r /\ r.added = added /\ r.removed = removed
          /\ \A u \in Lifecycles : u # t => receipt[u] = NoReceipt
      BY <2>2, <2>3 DEF L!Ledger, OnlyReceipt
    <2>7. \A e \in Entries : l.owner[e] \notin Lifecycles
      BY <1>3 DEF LedgerOk, OnlyReceipt
    <2>8. NoOwner \notin Lifecycles
      BY LifecycleAssumptions DEF L!ConstantsAssumption, L!OwnersAreDistinct
    <2>9. \A e \in Entries :
            /\ owner[e] # NoOwner => e \in dirs
            /\ owner[e] \in Lifecycles => owner[e] = t /\ e \in added
      BY <2>1, <2>7, <2>8 DEF L!Kept
    <2>10. added \subseteq dirs /\ added \intersect removed = {} /\ r # NoReceipt
      <3>1. r \in L!Receipt
        BY <2>2 DEF L!Receipt, L!Ledger
      <3> QED
        BY <1>1, <3>1
    <2>11. LedgerOk(m)
      BY <2>4, <2>6, <2>9, <2>10 DEF LedgerOk
    <2> QED
      BY <2>5, <2>11
  <1> QED
    BY <1>2, <1>3

\* What a rollback leaves: no receipt, and none of the entries that are still the transaction's.
RolledBack(l, t, m) ==
  /\ m \in L!Ledger /\ m.receipt[t] = NoReceipt
  /\ \A u \in Lifecycles : u # t => m.receipt[u] = l.receipt[u]
  /\ l.receipt[t] = NoReceipt => m = l
  /\ l.receipt[t] # NoReceipt => \A e \in Entries :
       /\ e \in l.receipt[t].added /\ e \notin l.receipt[t].removed /\ l.owner[e] = t => e \notin m.dirs
       /\ e \notin l.receipt[t].added \union l.receipt[t].removed => (e \in m.dirs <=> e \in l.dirs)

\* rollback_projection takes back the entries that the transaction still owns.
LEMMA RollbackTyped ==
  ASSUME NEW l \in L!Ledger, NEW t \in Lifecycles
  PROVE  RolledBack(l, t, L!Rollback(l, t))
  <1>1. CASE l.receipt[t] = NoReceipt
    BY <1>1 DEF L!Rollback, RolledBack
  <1>2. CASE l.receipt[t] # NoReceipt
    <2> DEFINE mine == {e \in l.receipt[t].added : L!Owns(l, e, t)}
               dirs == (l.dirs \ mine) \union l.receipt[t].removed
    <2>1. l.receipt[t] \in L!Receipt
      BY <1>2 DEF L!Ledger
    <2>2. PICK owner : owner = [e \in Entries |-> IF e \in l.dirs \ mine THEN l.owner[e] ELSE NoOwner]
      OBVIOUS
    <2>3. PICK receipt : receipt = [l.receipt EXCEPT ![t] = NoReceipt]
      OBVIOUS
    <2>4. PICK m : m = [dirs |-> dirs, owner |-> owner, receipt |-> receipt]
      OBVIOUS
    <2>5. L!Rollback(l, t) = m
      BY <1>2, <2>2, <2>3, <2>4 DEF L!Rollback
    <2>6. dirs \in SUBSET Entries
      BY <2>1 DEF L!Ledger, L!Receipt
    <2>7. owner \in [Entries -> L!Owners]
      BY <2>2 DEF L!Ledger, L!Owners
    <2>8. /\ receipt \in [Lifecycles -> L!Receipt \union {NoReceipt}]
          /\ receipt[t] = NoReceipt /\ \A u \in Lifecycles : u # t => receipt[u] = l.receipt[u]
      BY <2>3 DEF L!Ledger
    <2>9. m \in L!Ledger /\ m.dirs = dirs /\ m.receipt = receipt
      BY <2>4, <2>6, <2>7, <2>8 DEF L!Ledger
    <2>10. ASSUME NEW e \in Entries
           PROVE  /\ e \in l.receipt[t].added /\ e \notin l.receipt[t].removed /\ l.owner[e] = t =>
                       e \notin dirs
                  /\ e \notin l.receipt[t].added \union l.receipt[t].removed =>
                       (e \in dirs <=> e \in l.dirs)
      BY DEF L!Owns
    <2>11. RolledBack(l, t, m)
      BY <1>2, <2>8, <2>9, <2>10 DEF RolledBack
    <2> QED
      BY <2>5, <2>11
  <1> QED
    BY <1>1, <1>2

\* A rollback leaves every owned entry in the receipt of its owner.
LEMMA RollbackOk ==
  ASSUME NEW l \in L!Ledger, LedgerOk(l), NEW t \in Lifecycles, OnlyReceipt(l, t)
  PROVE  LedgerOk(L!Rollback(l, t))
  <1>1. CASE l.receipt[t] = NoReceipt
    BY <1>1 DEF L!Rollback
  <1>2. CASE l.receipt[t] # NoReceipt
    <2> DEFINE mine == {e \in l.receipt[t].added : L!Owns(l, e, t)}
               dirs == (l.dirs \ mine) \union l.receipt[t].removed
    <2>1. PICK owner : owner = [e \in Entries |-> IF e \in l.dirs \ mine THEN l.owner[e] ELSE NoOwner]
      OBVIOUS
    <2>2. PICK receipt : receipt = [l.receipt EXCEPT ![t] = NoReceipt]
      OBVIOUS
    <2>3. PICK m : m = [dirs |-> dirs, owner |-> owner, receipt |-> receipt]
      OBVIOUS
    <2>4. L!Rollback(l, t) = m
      BY <1>2, <2>1, <2>2, <2>3 DEF L!Rollback
    <2>5. \A u \in Lifecycles : receipt[u] = NoReceipt
      BY <2>2 DEF L!Ledger, OnlyReceipt
    <2>6. NoOwner \notin Lifecycles
      BY LifecycleAssumptions DEF L!ConstantsAssumption, L!OwnersAreDistinct
    <2>7. ASSUME NEW e \in Entries
          PROVE  owner[e] \notin Lifecycles /\ (owner[e] # NoOwner => e \in dirs)
      <3>1. l.owner[e] \in Lifecycles => e \in mine
        BY <2>6 DEF LedgerOk, OnlyReceipt, L!Owns
      <3> QED
        BY <2>1, <2>6, <3>1
    <2>8. LedgerOk(m)
      BY <2>3, <2>5, <2>7 DEF LedgerOk
    <2> QED
      BY <2>4, <2>8
  <1> QED
    BY <1>1, <1>2

\* What a release leaves: the entries, without an owner that could take them back.
Released(l, t, m) ==
  /\ m \in L!Ledger /\ m.dirs = l.dirs /\ m.receipt[t] = NoReceipt
  /\ \A u \in Lifecycles : u # t => m.receipt[u] = l.receipt[u]

\* release_projection_receipt gives up the transaction's ownership and keeps the entries.
LEMMA ReleaseTyped ==
  ASSUME NEW l \in L!Ledger, NEW t \in Lifecycles
  PROVE  /\ Released(l, t, L!Release(l, t))
         /\ LedgerOk(l) /\ OnlyReceipt(l, t) => LedgerOk(L!Release(l, t))
  <1>1. CASE l.receipt[t] = NoReceipt
    BY <1>1 DEF L!Release, Released
  <1>2. CASE l.receipt[t] # NoReceipt
    <2>1. PICK owner : owner = [e \in Entries |->
            IF e \in l.receipt[t].added /\ l.owner[e] = t THEN NoOwner ELSE l.owner[e]]
      OBVIOUS
    <2>2. PICK receipt : receipt = [l.receipt EXCEPT ![t] = NoReceipt]
      OBVIOUS
    <2>3. PICK m : m = [l EXCEPT !.owner = owner, !.receipt = receipt]
      OBVIOUS
    <2>4. L!Release(l, t) = m
      BY <1>2, <2>1, <2>2, <2>3 DEF L!Release, L!Ledger
    <2>5. owner \in [Entries -> L!Owners]
      BY <2>1 DEF L!Ledger, L!Owners
    <2>6. /\ receipt \in [Lifecycles -> L!Receipt \union {NoReceipt}]
          /\ receipt[t] = NoReceipt /\ \A u \in Lifecycles : u # t => receipt[u] = l.receipt[u]
      BY <2>2 DEF L!Ledger
    <2>7. m \in L!Ledger /\ m.dirs = l.dirs /\ m.receipt = receipt /\ m.owner = owner
      BY <2>3, <2>5, <2>6 DEF L!Ledger
    <2>8. NoOwner \notin Lifecycles
      BY LifecycleAssumptions DEF L!ConstantsAssumption, L!OwnersAreDistinct
    <2>9. ASSUME LedgerOk(l), OnlyReceipt(l, t)
          PROVE  LedgerOk(m)
      <3>1. \A u \in Lifecycles : receipt[u] = NoReceipt
        BY <2>6, <2>9 DEF OnlyReceipt
      <3>2. \A e \in Entries : owner[e] \notin Lifecycles /\ (owner[e] # NoOwner => e \in l.dirs)
        BY <2>1, <2>8, <2>9 DEF LedgerOk, OnlyReceipt
      <3> QED
        BY <2>7, <3>1, <3>2 DEF LedgerOk
    <2> QED
      BY <2>4, <2>6, <2>7, <2>9 DEF Released
  <1> QED
    BY <1>1, <1>2

-----------------------------------------------------------------------------
(* What the files may hold, after each step.                                    *)

\* Trees and contents.
LEMMA DataTyped ==
  /\ L!Original \in L!Content
  /\ L!Nothing \in L!Tree /\ L!Nothing.kind = "none" /\ L!Nothing.mark = NoOwner
  /\ L!Foreign \in L!Tree /\ L!Foreign.kind = "foreign" /\ L!Foreign.mark = NoOwner
  /\ L!Project \in L!Tree /\ L!Project.kind = "whole" /\ L!Project.mark = NoOwner
  /\ \A m \in Lifecycles \union {NoOwner} :
       L!Partial(m) \in L!Tree /\ L!Partial(m).kind = "partial" /\ L!Partial(m).mark = m
  /\ \A c \in L!Content, t \in Lifecycles :
       L!Rewritten(c, t) \in L!Content /\ L!Rewritten(c, t).text = c.text
  <1>1. L!Original \in L!Content
    BY DEF L!Original, L!Content
  <1>2. L!Nothing \in L!Tree /\ L!Nothing.kind = "none" /\ L!Nothing.mark = NoOwner
    BY <1>1 DEF L!Nothing, L!Tree
  <1>3. L!Foreign \in L!Tree /\ L!Foreign.kind = "foreign" /\ L!Foreign.mark = NoOwner
    BY <1>2 DEF L!Foreign, L!Tree
  <1>4. L!Project \in L!Tree /\ L!Project.kind = "whole" /\ L!Project.mark = NoOwner
    BY <1>2 DEF L!Project, L!Tree
  <1>5. ASSUME NEW m \in Lifecycles \union {NoOwner}
        PROVE  L!Partial(m) \in L!Tree /\ L!Partial(m).kind = "partial" /\ L!Partial(m).mark = m
    BY <1>2, <1>5 DEF L!Partial, L!Tree
  <1>6. ASSUME NEW c \in L!Content, NEW t \in Lifecycles
        PROVE  L!Rewritten(c, t) \in L!Content /\ L!Rewritten(c, t).text = c.text
    BY LifecycleAssumptions DEF L!ConstantsAssumption, L!Rewritten, L!Content
  <1> QED
    BY <1>1, <1>2, <1>3, <1>4, <1>5, <1>6

\* What a step makes of one tree.
LEMMA TreeEdit ==
  ASSUME NEW x \in L!Tree
  PROVE  /\ \A m \in Lifecycles \union {NoOwner} : 
              /\ [x EXCEPT !.mark = m] \in L!Tree /\ [x EXCEPT !.mark = m].mark = m
              /\ [x EXCEPT !.mark = m].kind = x.kind
              /\ [x EXCEPT !.mark = m].project = x.project
              /\ [x EXCEPT !.mark = m].job = x.job
         /\ \A c \in L!Content :
              /\ [x EXCEPT !.project = c] \in L!Tree /\ [x EXCEPT !.project = c].mark = x.mark
              /\ [x EXCEPT !.project = c].kind = x.kind
              /\ [x EXCEPT !.project = c].project = c
              /\ [x EXCEPT !.project = c].job = x.job
         /\ \A c \in L!Content :
              /\ [x EXCEPT !.job = c] \in L!Tree /\ [x EXCEPT !.job = c].mark = x.mark
              /\ [x EXCEPT !.job = c].kind = x.kind
              /\ [x EXCEPT !.job = c].project = x.project
              /\ [x EXCEPT !.job = c].job = c
  BY DEF L!Tree

\* What the next write of the journal would say.
LEMMA NextTells ==
  ASSUME Ctl, NEW s \in Services, service[s].pc \in L!Forward \ {"begin"}
  PROVE  /\ L!NextRecord(s) \in L!Record
         /\ L!NextRecord(s).txn = journal.txn /\ L!NextRecord(s).action = journal.action
         /\ L!NextRecord(s).registry = journal.registry
         /\ L!NextRecord(s).status = "committed" <=> service[s].pc = "commit"
         /\ service[s].pc = "projectRegistry" =>
              L!NextRecord(s).projection =
                (service[s].plan.registry
                   \ (IF service[s].plan.action = "move" THEN {"source"} ELSE {}))
                  \union {IF service[s].plan.action = "adopt" THEN "source" ELSE "destination"}
         /\ service[s].pc # "projectRegistry" =>
              L!NextRecord(s).projection = journal.projection
  <1>1. service[s].pc \notin {"idle", "begin"} /\ service[s].pc \in L!Forward
    BY DEF L!Forward
  <1>2. /\ journal \in L!Record /\ service[s].plan \in L!Plan
        /\ service[s].rec = journal /\ StatusOk(service[s], service[s].pc)
    BY <1>1, CtlTells DEF StatusOk
  <1>3. journal.status # "committed"
    BY <1>1, <1>2 DEF StatusOk, L!Forward
  <1>4. PICK rec : rec = journal
    OBVIOUS
  <1>5. PICK pc : pc = service[s].pc
    OBVIOUS
  <1>6. PICK plan : plan = service[s].plan
    OBVIOUS
  <1>7. PICK written : written = IF plan.action = "move" THEN {"project"} ELSE {"project", "job"}
    OBVIOUS
  <1>8. PICK projection : projection =
          (plan.registry \ (IF plan.action = "move" THEN {"source"} ELSE {}))
            \union {IF plan.action = "adopt" THEN "source" ELSE "destination"}
    OBVIOUS
  <1>9. projection \in SUBSET Entries
    BY <1>2, <1>6, <1>8, LifecycleAssumptions DEF L!ConstantsAssumption, L!Plan
  <1>10. written \in SUBSET {"project", "job"}
    BY <1>7
  <1>11. L!NextRecord(s) =
           IF pc = "inspect" THEN [rec EXCEPT !.status = "filesystem", !.written = written]
           ELSE IF pc = "projectRegistry"
           THEN [rec EXCEPT !.status = "registry", !.projection = projection]
           ELSE IF pc = "projectLedger" THEN [rec EXCEPT !.status = "ledger"]
           ELSE IF pc = "commit" THEN [rec EXCEPT !.status = "committed"]
           ELSE rec
    BY <1>2, <1>4, <1>5, <1>6, <1>7, <1>8 DEF L!NextRecord, L!At, L!Action, L!Rec
  <1>12. rec \in L!Record /\ rec.status # "committed"
    BY <1>2, <1>3, <1>4
  <1>13. PICK next : next = L!NextRecord(s)
    OBVIOUS
  <1>14. /\ next \in L!Record
         /\ next.txn = rec.txn /\ next.action = rec.action /\ next.registry = rec.registry
         /\ next.status = "committed" <=> pc = "commit"
         /\ pc = "projectRegistry" => next.projection = projection
         /\ pc # "projectRegistry" => next.projection = rec.projection
    <2>1. CASE pc = "inspect"
      BY <1>10, <1>11, <1>12, <1>13, <2>1 DEF L!Record, L!Statuses
    <2>2. CASE pc = "projectRegistry"
      BY <1>9, <1>11, <1>12, <1>13, <2>2 DEF L!Record, L!Statuses
    <2>3. CASE pc \in {"projectLedger", "commit"}
      BY <1>11, <1>12, <1>13, <2>3 DEF L!Record, L!Statuses
    <2>4. CASE pc \notin {"inspect", "projectRegistry", "projectLedger", "commit"}
      BY <1>11, <1>12, <1>13, <2>4
    <2> QED
      BY <2>1, <2>2, <2>3, <2>4
  <1> QED
    BY <1>4, <1>5, <1>6, <1>8, <1>13, <1>14

-----------------------------------------------------------------------------
(* One lemma per action.                                                        *)

\* A step that changes nothing but the tree, if anything.
LEMMA TreeOnly ==
  ASSUME FilesTyped, tree' \in [L!Places -> L!Tree],
         UNCHANGED <<registry, ledger, journal, begun, troubles, clerk, raced, touched>>
  PROVE  FilesTyped'
  BY DEF FilesTyped

\* An exception, with the record that memory holds.
LEMMA CtlException ==
  ASSUME Ctl, NEW s \in Services, service[s].pc \notin {"idle", "begin"}, L!Undo(s),
         UNCHANGED <<tree, registry, ledger, journal, lock, begun, troubles, clerk, raced, touched>>
  PROVE  Ctl'
  <1>1. /\ FilesTyped /\ service \in [Services -> L!Call] /\ service[s].rec \in L!Record
        /\ service[s].rec # None /\ SameTransaction(service[s].rec)
    BY CtlTells
  <1>2. FilesTyped'
    BY <1>1 DEF FilesTyped
  <1>3. service[s] = [service[s] EXCEPT !.rec = service[s].rec]
    BY <1>1 DEF L!Call
  <1>4. service' = [service EXCEPT ![s].rec = service[s].rec, ![s].pc = "undo", ![s].how = "failing"]
    BY <1>1, <1>3 DEF L!Undo
  <1> QED
    BY <1>1, <1>2, <1>4, CtlUndo

\* A preflight writes nothing but the plan.
LEMMA CtlPreflight ==
  ASSUME Ctl, NEW s \in Services, NEW action \in L!Actions, L!Preflight(s, action)
  PROVE  Ctl'
  <1>1. /\ service \in [Services -> L!Call] /\ FilesTyped /\ lock = Nobody
        /\ service[s].pc = "idle" /\ UNCHANGED <<lock, journal>>
    BY DEF Ctl, L!TypeOK, FilesTyped, L!Preflight, L!Idle, L!At, L!files
  <1>2. PICK plan : plan = [action |-> action, registry |-> registry, ledger |-> ledger,
          project |-> tree["source"].project, job |-> tree["source"].job]
    OBVIOUS
  <1>3. plan \in L!Plan
    BY <1>1, <1>2 DEF FilesTyped, L!Plan, L!Tree, L!Places
  <1>4. SoundPlan(plan)
    BY <1>2 DEF SoundPlan, L!Preflight, L!Plannable
  <1>5. PICK w : w = [service[s] EXCEPT !.plan = plan]
    OBVIOUS
  <1>6. w \in L!Call /\ w.pc = "idle" /\ w.plan = plan
    BY <1>1, <1>3, <1>5 DEF L!Call
  <1>7. service' = [service EXCEPT ![s] = w]
    BY <1>2, <1>5 DEF L!Preflight
  <1>8. CallOk(w)
    BY <1>4, <1>6 DEF CallOk, L!Forward
  <1>9. CallOk(w)'
    BY <1>4, <1>6 DEF CallOk, SoundPlan, L!Forward
  <1>10. FilesTyped'
    BY <1>1 DEF FilesTyped, L!Preflight, L!files, L!others
  <1> QED
    BY <1>1, <1>6, <1>7, <1>9, <1>10, CtlStep

\* apply() takes the lock and compares the plan with what is there.
LEMMA CtlApply ==
  ASSUME Ctl, NEW s \in Services, L!Apply(s)
  PROVE  Ctl'
  <1>1. /\ service \in [Services -> L!Call] /\ FilesTyped /\ lock = Nobody
        /\ service[s].pc = "idle" /\ UNCHANGED journal /\ journal = None
        /\ service[s].plan # None /\ CallOk(service[s])
        /\ begun' = begun /\ begun + 1 \in Lifecycles
    BY DEF Ctl, L!TypeOK, FilesTyped, L!Apply, L!Idle, L!At, L!files
  <1>2. FilesTyped'
    BY <1>1 DEF FilesTyped, L!Apply, L!files, L!others
  <1>3. CASE L!Fresh(service[s].plan)
    <2>1. lock' = s /\ L!Goto(s, "begin")
      BY <1>3 DEF L!Apply
    <2>2. "begin" \in Steps
      BY DEF Steps, L!Forward
    <2>3. PICK w \in L!Call :
            /\ service' = [service EXCEPT ![s] = w]
            /\ w.pc = "begin" /\ w.how = service[s].how /\ w.plan = service[s].plan
            /\ w.rec = service[s].rec /\ w.owned = service[s].owned
            /\ w.failed = service[s].failed /\ w.seen = service[s].seen
      BY <1>1, <2>1, <2>2, GotoCall
    <2>4. CallOk(w)'
      BY <1>1, <2>3 DEF CallOk, SoundPlan
    <2> QED
      BY <1>1, <1>2, <2>1, <2>3, <2>4, CtlStep
  <1>4. CASE ~L!Fresh(service[s].plan)
    BY <1>1, <1>2, <1>4, CtlReturn DEF L!Apply
  <1> QED
    BY <1>3, <1>4

\* The record that a call begins with.
Opened(s, rec) ==
  rec = [txn |-> begun + 1, action |-> L!Action(s), status |-> "prepared",
         project |-> tree["source"].project, job |-> tree["source"].job,
         written |-> {}, registry |-> registry, projection |-> {}]

\* A call begins its transaction, or refuses.
LEMMA BeginTells ==
  ASSUME Ctl, NEW s \in Services, L!Begin(s)
  PROVE  \/ \E rec \in L!Record, pc \in {"copy", "out", "inspect"} :
              /\ Opened(s, rec) /\ rec.txn = begun + 1 /\ rec.action = service[s].plan.action
              /\ rec.status = "prepared" /\ rec.projection = {} /\ rec.registry = registry
              /\ pc = "copy" <=> rec.action = "clone"
              /\ pc = "out" <=> rec.action = "move"
              /\ L!Journal(s, rec, pc) /\ begun' = begun + 1 /\ UNCHANGED lock
         \/ L!Return(s, "refused") /\ UNCHANGED <<journal, begun>>
  <1>1. /\ service[s] \in L!Call /\ FilesTyped /\ service[s].plan # None
        /\ begun + 1 \in Lifecycles
    BY DEF Ctl, CallOk, L!TypeOK, FilesTyped, L!Begin, L!At, L!Forward
  <1>2. service[s].plan \in L!Plan
    BY <1>1 DEF L!Call
  <1>3. service[s].plan.action \in L!Actions
    BY <1>2 DEF L!Plan
  <1>4. PICK rec : Opened(s, rec)
    BY DEF Opened
  <1>5. /\ rec \in L!Record
        /\ rec.txn = begun + 1 /\ rec.action = service[s].plan.action
        /\ rec.status = "prepared" /\ rec.projection = {} /\ rec.registry = registry
    BY <1>1, <1>3, <1>4 DEF Opened, L!Action, FilesTyped, L!Record, L!Statuses, L!Tree, L!Places
  <1>6. PICK pc : pc = [clone |-> "copy", move |-> "out", adopt |-> "inspect"][service[s].plan.action]
    OBVIOUS
  <1>7. /\ pc \in {"copy", "out", "inspect"}
        /\ pc = "copy" <=> rec.action = "clone"
        /\ pc = "out" <=> rec.action = "move"
    BY <1>3, <1>5, <1>6 DEF L!Actions
  <1>8. \/ L!Journal(s, rec, pc) /\ begun' = begun + 1 /\ UNCHANGED lock
        \/ L!Return(s, "refused") /\ UNCHANGED <<journal, begun>>
    BY <1>4, <1>6 DEF L!Begin, Opened, L!Action
  <1>9. CASE L!Journal(s, rec, pc) /\ begun' = begun + 1 /\ UNCHANGED lock
    <2>1. \E r \in L!Record, p \in {"copy", "out", "inspect"} :
            /\ Opened(s, r) /\ r.txn = begun + 1 /\ r.action = service[s].plan.action
            /\ r.status = "prepared" /\ r.projection = {} /\ r.registry = registry
            /\ p = "copy" <=> r.action = "clone"
            /\ p = "out" <=> r.action = "move"
            /\ L!Journal(s, r, p) /\ begun' = begun + 1 /\ UNCHANGED lock
      BY <1>4, <1>5, <1>7, <1>9
    <2> QED
      BY <2>1
  <1> QED
    BY <1>8, <1>9

\* The first record is written, or the call is refused.
LEMMA CtlBegin ==
  ASSUME Ctl, NEW s \in Services, L!Begin(s)
  PROVE  Ctl'
  <1>1. /\ service[s].pc = "begin" /\ FilesTyped
        /\ UNCHANGED <<tree, registry, ledger, troubles, clerk, raced, touched>>
    BY DEF Ctl, L!TypeOK, FilesTyped, L!Begin, L!At, L!others
  <1>2. begun + 1 \in Nat
    BY <1>1 DEF FilesTyped
  <1>3. ASSUME NEW rec \in L!Record, NEW pc \in {"copy", "out", "inspect"},
               rec.action = service[s].plan.action, rec.status = "prepared", rec.projection = {},
               pc = "copy" <=> rec.action = "clone", pc = "out" <=> rec.action = "move",
               L!Journal(s, rec, pc), begun' = begun + 1, UNCHANGED lock
        PROVE  Ctl'
    <2>1. FilesTyped'
      BY <1>1, <1>2, <1>3 DEF FilesTyped, L!Journal
    <2>2. service[s].pc \in L!Forward /\ pc \in Steps \ {"idle", "begin"}
      BY <1>1, <1>3 DEF L!Forward, Steps
    <2> QED
      BY <1>3, <2>1, <2>2, CtlJournal
  <1>4. ASSUME L!Return(s, "refused"), UNCHANGED <<journal, begun>>
        PROVE  Ctl'
    <2>1. FilesTyped'
      BY <1>1, <1>4 DEF FilesTyped
    <2> QED
      BY <1>1, <1>4, <2>1, CtlReturn
  <1> QED
    BY <1>3, <1>4, BeginTells

\* A clone makes its stage.
LEMMA CtlCopy ==
  ASSUME Ctl, NEW s \in Services, L!Copy(s)
  PROVE  Ctl'
  <1>1. service[s].pc = "copy" /\ L!Goto(s, "fill")
    BY DEF L!Copy, L!At
  <1>2. /\ FilesTyped /\ StatusOk(service[s], "copy") /\ ActionOk(service[s], "copy")
    BY <1>1, CtlTells
  <1>3. tree' \in [L!Places -> L!Tree]
    BY <1>2, DataTyped DEF FilesTyped, L!Copy
  <1>4. FilesTyped'
    BY <1>2, <1>3, TreeOnly DEF L!Copy, L!others
  <1>5. StatusOk(service[s], "fill") /\ ActionOk(service[s], "fill") /\ "fill" \in Steps
    BY <1>2 DEF StatusOk, ActionOk, L!Forward, Steps
  <1>6. "copy" \in L!Forward /\ UNCHANGED <<lock, journal>>
    BY DEF L!Forward, L!Copy
  <1> QED
    BY <1>1, <1>4, <1>5, <1>6, CtlGoto

\* The stage is filled, or the clone fails half way.
LEMMA CtlFill ==
  ASSUME Ctl, NEW s \in Services, L!Fill(s)
  PROVE  Ctl'
  <1>1. service[s].pc = "fill" /\ UNCHANGED <<lock, journal>>
    BY DEF L!Fill, L!At
  <1>2. /\ FilesTyped /\ StatusOk(service[s], "fill") /\ ActionOk(service[s], "fill")
        /\ service[s].rec \in L!Record /\ service[s].rec # None /\ SameTransaction(service[s].rec)
        /\ service[s].plan \in L!Plan
    BY <1>1, CtlTells DEF L!Forward
  <1>3. CASE L!AsPlanned("source", service[s].plan)
    <2>1. PICK t : t = [kind |-> "whole", mark |-> L!Txn(s),
                        project |-> L!Rewritten(service[s].plan.project, L!Txn(s)),
                        job |-> L!Rewritten(service[s].plan.job, L!Txn(s))]
      OBVIOUS
    <2>2. t \in L!Tree
      BY <1>2, <2>1, DataTyped DEF L!Tree, L!Plan, L!Record, L!Txn
    <2>3. tree' = [tree EXCEPT !["stage"] = t] /\ L!Goto(s, "publish")
      BY <1>3, <2>1 DEF L!Fill
    <2>4. tree' \in [L!Places -> L!Tree]
      BY <1>2, <2>2, <2>3 DEF FilesTyped
    <2>5. FilesTyped'
      BY <1>2, <2>4, TreeOnly DEF L!Fill, L!others
    <2>6. StatusOk(service[s], "publish") /\ ActionOk(service[s], "publish") /\ "publish" \in Steps
      BY <1>2 DEF StatusOk, ActionOk, L!Forward, Steps
    <2> QED
      BY <1>1, <2>3, <2>5, <2>6, CtlGoto DEF L!Forward
  <1>4. CASE ~L!AsPlanned("source", service[s].plan)
    BY <1>1, <1>4, CtlException DEF L!Fill, L!others
  <1> QED
    BY <1>3, <1>4

\* A tree under another name.
LEMMA RenamedTyped ==
  ASSUME FilesTyped, NEW from \in L!Places, NEW to \in L!Places
  PROVE  L!Renamed(from, to) \in [L!Places -> L!Tree]
  BY DataTyped DEF FilesTyped, L!Renamed

\* A move renames the source to the stage.
LEMMA CtlMoveOut ==
  ASSUME Ctl, NEW s \in Services, L!MoveOut(s)
  PROVE  Ctl'
  <1>1. service[s].pc = "out" /\ L!Goto(s, "mark") /\ UNCHANGED <<lock, journal>>
    BY DEF L!MoveOut, L!At
  <1>2. /\ FilesTyped /\ StatusOk(service[s], "out") /\ ActionOk(service[s], "out")
    BY <1>1, CtlTells
  <1>3. tree' \in [L!Places -> L!Tree]
    BY <1>2, RenamedTyped DEF L!MoveOut, L!Places
  <1>4. FilesTyped'
    BY <1>2, <1>3, TreeOnly DEF L!MoveOut, L!others
  <1>5. StatusOk(service[s], "mark") /\ ActionOk(service[s], "mark") /\ "mark" \in Steps
    BY <1>2 DEF StatusOk, ActionOk, L!Forward, Steps
  <1> QED
    BY <1>1, <1>4, <1>5, CtlGoto DEF L!Forward

\* A directory is marked as the transaction's own.
LEMMA CtlMark ==
  ASSUME Ctl, NEW s \in Services, L!Mark(s)
  PROVE  Ctl'
  <1>1. service[s].pc = "mark" /\ L!Goto(s, "inspect") /\ UNCHANGED <<lock, journal>>
    BY DEF L!Mark, L!At
  <1>2. /\ FilesTyped /\ StatusOk(service[s], "mark") /\ ActionOk(service[s], "mark")
        /\ service[s].rec \in L!Record
    BY <1>1, CtlTells
  <1>3. L!Txn(s) \in Lifecycles \union {NoOwner}
    BY <1>2 DEF L!Txn, L!Record
  <1>4. tree' = [tree EXCEPT !["stage"] = [tree["stage"] EXCEPT !.mark = L!Txn(s)]]
    BY DEF L!Mark
  <1>5. tree["stage"] \in L!Tree /\ tree \in [L!Places -> L!Tree]
    BY <1>2 DEF FilesTyped, L!Places
  <1>6. [tree["stage"] EXCEPT !.mark = L!Txn(s)] \in L!Tree
    BY <1>3, <1>5, TreeEdit
  <1>7. FilesTyped'
    BY <1>2, <1>4, <1>5, <1>6, TreeOnly DEF L!Mark, L!others
  <1>8. StatusOk(service[s], "inspect") /\ ActionOk(service[s], "inspect") /\ "inspect" \in Steps
    BY <1>2 DEF StatusOk, ActionOk, L!Forward, Steps
  <1> QED
    BY <1>1, <1>7, <1>8, CtlGoto DEF L!Forward

\* The texts of the files are read into the record before they are rewritten.
LEMMA CtlInspect ==
  ASSUME Ctl, NEW s \in Services, L!Inspect(s)
  PROVE  Ctl'
  <1>1. service[s].pc = "inspect" /\ UNCHANGED lock
    BY DEF L!Inspect, L!At
  <1>2. /\ FilesTyped /\ StatusOk(service[s], "inspect") /\ ActionOk(service[s], "inspect")
    BY <1>1, CtlTells
  <1>3. CASE L!Journal(s, L!NextRecord(s), "rewrite")
    <2>1. service[s].pc \in L!Forward \ {"begin"} /\ "rewrite" \in Steps \ {"idle", "begin"}
      BY <1>1 DEF L!Forward, Steps
    <2>2. PICK rec : rec = L!NextRecord(s)
      OBVIOUS
    <2>3. /\ rec \in L!Record /\ rec.action = journal.action /\ rec.status # "committed"
          /\ rec.projection = journal.projection
      BY <1>1, <2>1, <2>2, NextTells
    <2>4. journal.projection = {} /\ journal.action # "clone"
          /\ service[s].plan.action = journal.action
      BY <1>2, <2>1 DEF StatusOk, ActionOk, L!Forward
    <2>5. journal' = rec /\ L!Journal(s, rec, "rewrite")
      BY <1>3, <2>2 DEF L!Journal
    <2>6. FilesTyped'
      BY <1>2, <2>3, <2>5 DEF L!Inspect, L!others, FilesTyped
    <2> QED
      BY <1>1, <2>1, <2>3, <2>4, <2>5, <2>6, CtlJournal
  <1>4. CASE L!Undo(s) /\ UNCHANGED journal
    BY <1>1, <1>4, CtlException DEF L!Inspect, L!others
  <1> QED
    BY <1>3, <1>4 DEF L!Inspect

\* The project file is rewritten.
LEMMA CtlRewrite ==
  ASSUME Ctl, NEW s \in Services, L!Rewrite(s)
  PROVE  Ctl'
  <1>1. service[s].pc = "rewrite" /\ UNCHANGED <<lock, journal>>
    BY DEF L!Rewrite, L!At
  <1>2. /\ FilesTyped /\ StatusOk(service[s], "rewrite") /\ ActionOk(service[s], "rewrite")
        /\ service[s].rec \in L!Record /\ service[s].plan \in L!Plan
    BY <1>1, CtlTells DEF L!Forward
  <1>3. PICK place \in {"stage", "source"} :
          tree' = [tree EXCEPT ![place] = [tree[place] EXCEPT !.project =
                     L!Rewritten(service[s].plan.project, L!Txn(s))]]
    BY DEF L!Rewrite
  <1>4. L!Rewritten(service[s].plan.project, L!Txn(s)) \in L!Content
    BY <1>2, DataTyped DEF L!Txn, L!Record, L!Plan
  <1>5. tree[place] \in L!Tree /\ tree \in [L!Places -> L!Tree]
    BY <1>2 DEF FilesTyped, L!Places
  <1>6. tree' \in [L!Places -> L!Tree]
    BY <1>3, <1>4, <1>5, TreeEdit
  <1>7. FilesTyped'
    BY <1>2, <1>6, TreeOnly DEF L!Rewrite, L!others
  <1>8. PICK pc : pc = IF L!Action(s) = "move" THEN "publish" ELSE "rewriteJob"
    OBVIOUS
  <1>9. StatusOk(service[s], pc) /\ ActionOk(service[s], pc) /\ pc \in Steps
        /\ pc \in {"publish", "rewriteJob"}
    <2>1. journal.action = service[s].plan.action /\ journal.action \in {"clone", "move", "adopt"}
      BY <1>2 DEF StatusOk, L!Forward, L!Plan, L!Actions
    <2> QED
      BY <1>2, <1>8, <2>1 DEF StatusOk, ActionOk, L!Forward, Steps, L!Action
  <1>10. L!Goto(s, pc)
    BY <1>8 DEF L!Rewrite
  <1> QED
    BY <1>1, <1>7, <1>9, <1>10, CtlGoto DEF L!Forward

\* The job file of an adopted project is rewritten.
LEMMA CtlRewriteJob ==
  ASSUME Ctl, NEW s \in Services, L!RewriteJob(s)
  PROVE  Ctl'
  <1>1. service[s].pc = "rewriteJob" /\ L!Goto(s, "projectRegistry") /\ UNCHANGED <<lock, journal>>
    BY DEF L!RewriteJob, L!At
  <1>2. /\ FilesTyped /\ StatusOk(service[s], "rewriteJob") /\ ActionOk(service[s], "rewriteJob")
        /\ service[s].rec \in L!Record /\ service[s].plan \in L!Plan
    BY <1>1, CtlTells DEF L!Forward
  <1>3. tree' = [tree EXCEPT !["source"] = [tree["source"] EXCEPT !.job =
                   L!Rewritten(service[s].plan.job, L!Txn(s))]]
    BY DEF L!RewriteJob
  <1>4. L!Rewritten(service[s].plan.job, L!Txn(s)) \in L!Content
    BY <1>2, DataTyped DEF L!Txn, L!Record, L!Plan
  <1>5. tree["source"] \in L!Tree /\ tree \in [L!Places -> L!Tree]
    BY <1>2 DEF FilesTyped, L!Places
  <1>6. tree' \in [L!Places -> L!Tree]
    BY <1>3, <1>4, <1>5, TreeEdit
  <1>7. FilesTyped'
    BY <1>2, <1>6, TreeOnly DEF L!RewriteJob, L!others
  <1>8. /\ StatusOk(service[s], "projectRegistry") /\ ActionOk(service[s], "projectRegistry")
        /\ "projectRegistry" \in Steps
    BY <1>2 DEF StatusOk, ActionOk, L!Forward, Steps
  <1> QED
    BY <1>1, <1>7, <1>8, CtlGoto DEF L!Forward

\* The stage is renamed to the destination.
LEMMA CtlPublish ==
  ASSUME Ctl, NEW s \in Services, L!Publish(s)
  PROVE  Ctl'
  <1>1. service[s].pc = "publish" /\ UNCHANGED <<lock, journal>>
    BY DEF L!Publish, L!At
  <1>2. /\ FilesTyped /\ StatusOk(service[s], "publish") /\ ActionOk(service[s], "publish")
    BY <1>1, CtlTells
  <1>3. CASE tree["destination"].kind = "none"
    <2>1. L!Goto(s, "projectRegistry") /\ tree' = L!Renamed("stage", "destination")
      BY <1>3 DEF L!Publish
    <2>2. tree' \in [L!Places -> L!Tree]
      BY <1>2, <2>1, RenamedTyped DEF L!Places
    <2>3. FilesTyped'
      BY <1>2, <2>2, TreeOnly DEF L!Publish, L!others
    <2>4. /\ StatusOk(service[s], "projectRegistry") /\ ActionOk(service[s], "projectRegistry")
          /\ "projectRegistry" \in Steps
      BY <1>2 DEF StatusOk, ActionOk, L!Forward, Steps
    <2> QED
      BY <1>1, <2>1, <2>3, <2>4, CtlGoto DEF L!Forward
  <1>4. CASE tree["destination"].kind # "none"
    BY <1>1, <1>4, CtlException DEF L!Publish, L!others
  <1> QED
    BY <1>3, <1>4

\* A write of the journal that takes the call from one part of apply() to the next.
LEMMA CtlNextRecord ==
  ASSUME Ctl, NEW s \in Services, NEW pc,
         \/ service[s].pc = "projectRegistry" /\ pc = "checkRegistry"
         \/ service[s].pc = "projectLedger" /\ pc = "merge"
         \/ service[s].pc = "commit" /\ pc = "release",
         L!Journal(s, L!NextRecord(s), pc),
         UNCHANGED <<tree, registry, ledger, lock, begun, troubles, clerk, raced, touched>>
  PROVE  Ctl'
  <1>1. service[s].pc \in L!Forward \ {"begin"} /\ service[s].pc \notin {"idle", "begin"}
        /\ pc \in Steps \ {"idle", "begin"}
    BY DEF L!Forward, L!Cleanup, Steps
  <1>2. FilesTyped /\ StatusOk(service[s], service[s].pc) /\ service[s].plan \in L!Plan
    BY <1>1, CtlTells
  <1>3. PICK rec : rec = L!NextRecord(s)
    OBVIOUS
  <1>4. /\ rec \in L!Record /\ rec.action = journal.action
        /\ rec.status = "committed" <=> service[s].pc = "commit"
        /\ service[s].pc = "projectRegistry" => rec.projection # {}
        /\ service[s].pc # "projectRegistry" => rec.projection = journal.projection
    BY <1>1, <1>3, NextTells
  <1>5. /\ service[s].plan.action = journal.action
        /\ service[s].pc # "projectRegistry" => journal.projection # {}
    BY <1>1, <1>2 DEF StatusOk
  <1>6. L!Journal(s, rec, pc) /\ journal' = rec
    BY <1>3 DEF L!Journal
  <1>7. FilesTyped'
    BY <1>2, <1>4, <1>6 DEF FilesTyped
  <1>8. rec.projection # {} /\ (rec.status = "committed" <=> pc = "release")
    BY <1>4, <1>5
  <1>9. pc \in {"checkRegistry", "merge", "release"} /\ lock' = lock
    OBVIOUS
  <1> QED
    BY <1>1, <1>4, <1>5, <1>6, <1>7, <1>8, <1>9, CtlJournal

\* The registry's projection goes to the journal.
LEMMA CtlProjectRegistry ==
  ASSUME Ctl, NEW s \in Services, L!ProjectRegistry(s)
  PROVE  Ctl'
  BY CtlNextRecord DEF L!ProjectRegistry, L!At, L!others

\* The ledger's projection goes to the journal.
LEMMA CtlProjectLedger ==
  ASSUME Ctl, NEW s \in Services, L!ProjectLedger(s)
  PROVE  Ctl'
  BY CtlNextRecord DEF L!ProjectLedger, L!At, L!others

\* The committed record goes to the journal.
LEMMA CtlCommit ==
  ASSUME Ctl, NEW s \in Services, L!Commit(s)
  PROVE  Ctl'
  BY CtlNextRecord DEF L!Commit, L!At, L!others

\* The registry is compared with the one that was planned.
LEMMA CtlCheckRegistry ==
  ASSUME Ctl, NEW s \in Services, L!CheckRegistry(s)
  PROVE  Ctl'
  <1>1. /\ service[s].pc = "checkRegistry"
        /\ UNCHANGED <<tree, registry, ledger, journal, lock, begun, troubles, clerk, raced, touched>>
    BY DEF L!CheckRegistry, L!At, L!files, L!others
  <1>2. /\ FilesTyped /\ StatusOk(service[s], "checkRegistry") /\ ActionOk(service[s], "checkRegistry")
    BY <1>1, CtlTells
  <1>3. CASE L!Goto(s, "writeRegistry")
    <2>1. FilesTyped'
      BY <1>1, <1>2 DEF FilesTyped
    <2>2. /\ StatusOk(service[s], "writeRegistry") /\ ActionOk(service[s], "writeRegistry")
          /\ "writeRegistry" \in Steps
      BY <1>2 DEF StatusOk, ActionOk, L!Forward, Steps
    <2> QED
      BY <1>1, <1>3, <2>1, <2>2, CtlGoto DEF L!Forward
  <1>4. CASE L!Undo(s)
    BY <1>1, <1>4, CtlException
  <1> QED
    BY <1>3, <1>4 DEF L!CheckRegistry

\* The registry is replaced.
LEMMA CtlWriteRegistry ==
  ASSUME Ctl, NEW s \in Services, L!WriteRegistry(s)
  PROVE  Ctl'
  <1>1. /\ service[s].pc = "writeRegistry" /\ L!Goto(s, "projectLedger")
        /\ UNCHANGED <<lock, journal>>
    BY DEF L!WriteRegistry, L!At
  <1>2. /\ FilesTyped /\ StatusOk(service[s], "writeRegistry") /\ ActionOk(service[s], "writeRegistry")
        /\ service[s].rec \in L!Record
    BY <1>1, CtlTells
  <1>3. registry' \in SUBSET Entries
    BY <1>2 DEF L!WriteRegistry, L!Rec, L!Record
  <1>4. raced' \in BOOLEAN
    BY DEF L!WriteRegistry
  <1>5. FilesTyped'
    BY <1>2, <1>3, <1>4 DEF L!WriteRegistry, FilesTyped
  <1>6. /\ StatusOk(service[s], "projectLedger") /\ ActionOk(service[s], "projectLedger")
        /\ "projectLedger" \in Steps
    BY <1>2 DEF StatusOk, ActionOk, L!Forward, Steps
  <1> QED
    BY <1>1, <1>5, <1>6, CtlGoto DEF L!Forward

\* What a merge is given.
LEMMA ProjectedTyped ==
  ASSUME NEW plan \in L!Plan
  PROVE  /\ L!ProjectedJobs(plan) \in SUBSET Entries /\ plan.ledger \in L!Ledger
         /\ plan.ledger.dirs \in SUBSET Entries
  BY LifecycleAssumptions DEF L!ConstantsAssumption, L!ProjectedJobs, L!Plan, L!Ledger

\* The ledger is merged.
LEMMA CtlMergeLedger ==
  ASSUME Ctl, NEW s \in Services, L!MergeLedger(s)
  PROVE  Ctl'
  <1>1. /\ service[s].pc = "merge" /\ UNCHANGED <<lock, journal>>
    BY DEF L!MergeLedger, L!At
  <1>2. /\ FilesTyped /\ StatusOk(service[s], "merge") /\ ActionOk(service[s], "merge")
        /\ service[s].rec \in L!Record /\ service[s].plan \in L!Plan
    BY <1>1, CtlTells DEF L!Forward
  <1>3. PICK base, projected :
          base = service[s].plan.ledger.dirs /\ projected = L!ProjectedJobs(service[s].plan)
    OBVIOUS
  <1>4. CASE L!Mergeable(ledger, base, projected)
    <2>1. ledger' = L!Merge(ledger, L!Txn(s), base, projected) /\ L!Goto(s, "commit")
      BY <1>3, <1>4 DEF L!MergeLedger
    <2>2. L!Txn(s) \in Lifecycles /\ ledger \in L!Ledger
      BY <1>2 DEF L!Txn, L!Record, FilesTyped
    <2>3. base \in SUBSET Entries /\ projected \in SUBSET Entries
      BY <1>2, <1>3, ProjectedTyped
    <2>4. Merged(ledger, L!Txn(s), base, projected, ledger')
      BY <2>1, <2>2, <2>3, MergeTyped
    <2>5. FilesTyped'
      BY <1>2, <2>4 DEF Merged, FilesTyped, L!MergeLedger, L!others
    <2>6. StatusOk(service[s], "commit") /\ ActionOk(service[s], "commit") /\ "commit" \in Steps
      BY <1>2 DEF StatusOk, ActionOk, L!Forward, Steps
    <2> QED
      BY <1>1, <2>1, <2>5, <2>6, CtlGoto DEF L!Forward
  <1>5. CASE ~L!Mergeable(ledger, base, projected)
    BY <1>1, <1>3, <1>5, CtlException DEF L!MergeLedger, L!others
  <1> QED
    BY <1>4, <1>5

\* A committed transaction releases its receipt.
LEMMA CtlReleaseReceipt ==
  ASSUME Ctl, NEW s \in Services, L!ReleaseReceipt(s)
  PROVE  Ctl'
  <1>1. /\ service[s].pc = "release" /\ L!Goto(s, "unmark") /\ UNCHANGED <<lock, journal>>
    BY DEF L!ReleaseReceipt, L!At
  <1>2. /\ FilesTyped /\ StatusOk(service[s], "release") /\ ActionOk(service[s], "release")
        /\ service[s].rec \in L!Record
    BY <1>1, CtlTells
  <1>3. L!Txn(s) \in Lifecycles /\ ledger \in L!Ledger
    BY <1>2 DEF L!Txn, L!Record, FilesTyped
  <1>4. ledger' \in L!Ledger
    BY <1>3, ReleaseTyped DEF L!ReleaseReceipt, Released
  <1>5. FilesTyped'
    BY <1>2, <1>4 DEF FilesTyped, L!ReleaseReceipt, L!others
  <1>6. /\ StatusOk(service[s], "unmark") /\ ActionOk(service[s], "unmark")
        /\ "unmark" \in Steps \ {"idle", "begin"} /\ "unmark" \notin L!Forward
    BY <1>2 DEF StatusOk, ActionOk, L!Forward, L!Cleanup, Steps
  <1> QED
    BY <1>1, <1>5, <1>6, CtlGoto

\* A tree without its mark is a tree.
LEMMA UnmarkedTyped ==
  ASSUME FilesTyped, NEW place \in L!Places, NEW t
  PROVE  L!Unmarked(place, t) \in [L!Places -> L!Tree]
  <1>1. tree[place] \in L!Tree /\ tree \in [L!Places -> L!Tree]
    BY DEF FilesTyped
  <1>2. [tree[place] EXCEPT !.mark = NoOwner] \in L!Tree
    BY <1>1, TreeEdit
  <1> QED
    BY <1>1, <1>2 DEF L!Unmarked

\* A committed transaction takes its mark away.
LEMMA CtlUnmark ==
  ASSUME Ctl, NEW s \in Services, L!Unmark(s)
  PROVE  Ctl'
  <1>1. /\ service[s].pc = "unmark" /\ L!Goto(s, "forget") /\ UNCHANGED <<lock, journal>>
    BY DEF L!Unmark, L!At
  <1>2. /\ FilesTyped /\ StatusOk(service[s], "unmark") /\ ActionOk(service[s], "unmark")
    BY <1>1, CtlTells
  <1>3. tree' \in [L!Places -> L!Tree]
    BY <1>2, UnmarkedTyped DEF L!Unmark, L!Places
  <1>4. FilesTyped'
    BY <1>2, <1>3, TreeOnly DEF L!Unmark, L!others
  <1>5. /\ StatusOk(service[s], "forget") /\ ActionOk(service[s], "forget")
        /\ "forget" \in Steps \ {"idle", "begin"} /\ "forget" \notin L!Forward
    BY <1>2 DEF StatusOk, ActionOk, L!Forward, L!Cleanup, Steps
  <1> QED
    BY <1>1, <1>4, <1>5, CtlGoto

\* A committed transaction's journal is removed.
LEMMA CtlForget ==
  ASSUME Ctl, NEW s \in Services, L!Forget(s)
  PROVE  Ctl'
  <1>1. service[s].pc = "forget" /\ journal' = None
    BY DEF L!Forget, L!At
  <1>2. FilesTyped
    BY <1>1, CtlTells
  <1>3. FilesTyped'
    BY <1>1, <1>2 DEF FilesTyped, L!Forget, L!others
  <1>4. \E said \in {"done", "failed", "finalized", "rolled back"} : L!Return(s, said)
    BY DEF L!Forget
  <1> QED
    BY <1>1, <1>3, <1>4, CtlReturn

\* A recovery starts from the journal it finds.
LEMMA CtlBeginRecovery ==
  ASSUME Ctl, NEW s \in Services, L!BeginRecovery(s)
  PROVE  Ctl'
  <1>1. /\ service \in [Services -> L!Call] /\ FilesTyped /\ lock = Nobody
        /\ service[s].pc = "idle" /\ journal # None /\ lock' = s /\ CallOk(service[s])
    BY DEF Ctl, L!TypeOK, FilesTyped, L!BeginRecovery, L!Idle, L!At
  <1>2. /\ UNCHANGED <<tree, registry, ledger, journal, begun, troubles, clerk, raced, touched>>
        /\ FilesTyped'
    BY <1>1 DEF L!BeginRecovery, L!files, L!others, FilesTyped
  <1>3. journal \in L!Record
    BY <1>1 DEF FilesTyped
  <1>4. PICK w : w = [service[s] EXCEPT !.pc = "undo", !.how = "recover", !.rec = journal]
    OBVIOUS
  <1>5. w \in L!Call /\ w.pc = "undo" /\ w.plan = service[s].plan /\ w.rec = journal
    <2>1. service[s] \in L!Call
      BY <1>1
    <2>2. w \in L!Call
      BY <1>3, <1>4, <2>1 DEF L!Call, L!UndoTree
    <2>3. DOMAIN service[s] = {"pc", "how", "plan", "rec", "owned", "current", "failed", "seen", "said"}
      BY <2>1 DEF L!Call
    <2> QED
      BY <1>4, <2>2, <2>3
  <1>6. service' = [service EXCEPT ![s] = w]
    BY <1>4 DEF L!BeginRecovery
  <1>7. SameTransaction(journal)
    BY DEF SameTransaction
  <1>8. CallOk(w)
    BY <1>1, <1>5, <1>7 DEF CallOk, StatusOk, ActionOk, L!Forward
  <1>9. CallOk(w)'
    BY <1>2, <1>8 DEF CallOk, StatusOk, ActionOk, SoundPlan, SameTransaction
  <1> QED
    BY <1>1, <1>2, <1>5, <1>6, <1>9, CtlStep

\* The recovery of a committed transaction goes on with its cleanup.
LEMMA CtlFinalize ==
  ASSUME Ctl, NEW s \in Services, L!Finalize(s)
  PROVE  Ctl'
  <1>1. /\ service[s].pc = "undo" /\ L!Goto(s, "release") /\ service[s].rec.status = "committed"
        /\ UNCHANGED <<tree, registry, ledger, journal, lock, begun, troubles, clerk, raced, touched>>
    BY DEF L!Finalize, L!At, L!Rec, L!files, L!others
  <1>2. /\ FilesTyped /\ SameTransaction(service[s].rec)
    BY <1>1, CtlTells
  <1>3. FilesTyped'
    BY <1>1, <1>2 DEF FilesTyped
  <1>4. /\ StatusOk(service[s], "release") /\ ActionOk(service[s], "release")
        /\ "release" \in Steps \ {"idle", "begin"} /\ "release" \notin L!Forward
    BY <1>1, <1>2 DEF StatusOk, ActionOk, SameTransaction, L!Forward, L!Cleanup, Steps
  <1> QED
    BY <1>1, <1>3, <1>4, CtlGoto

\* A step of the recovery that leaves the directory and the registry to others.
LEMMA CtlUndone ==
  ASSUME Ctl, NEW s \in Services, service[s].pc \in L!UndoTree \union L!UndoRest,
         journal.status # "committed",
         NEW pc \in (L!UndoTree \union L!UndoRest \union {"forget"})
                      \ {"removing", "restore", "back"},
         pc = "authority" => journal.action = "move",
         pc \in {"restoreProject", "undoJob", "restoreJob"} => journal.action = "adopt",
         L!Goto(s, pc), UNCHANGED <<lock, journal>>, FilesTyped'
  PROVE  Ctl'
  <1>1. StatusOk(service[s], pc) /\ ActionOk(service[s], pc)
    BY DEF StatusOk, ActionOk, L!Forward, L!UndoTree, L!UndoRest
  <1>2. /\ service[s].pc \notin {"idle", "begin"} /\ pc \in Steps \ {"idle", "begin"}
        /\ pc \notin L!Forward
    BY DEF L!UndoTree, L!UndoRest, L!Forward, L!Cleanup, Steps
  <1> QED
    BY <1>1, <1>2, CtlGoto

\* A recovery that has not committed.
LEMMA Uncommitted ==
  ASSUME Ctl, NEW s \in Services, service[s].pc \in L!UndoTree \union L!UndoRest,
         service[s].pc = "undo" => service[s].rec.status # "committed"
  PROVE  /\ journal.status # "committed" /\ journal # None /\ journal \in L!Record
         /\ service[s].pc \notin {"idle", "begin"} /\ FilesTyped /\ lock = s
         /\ service[s].rec \in L!Record /\ SameTransaction(service[s].rec)
         /\ ActionOk(service[s], service[s].pc)
         /\ service \in [Services -> L!Call] /\ service[s] \in L!Call
  <1>1. service[s].pc \notin {"idle", "begin"}
    BY DEF L!UndoTree, L!UndoRest
  <1>2. /\ StatusOk(service[s], service[s].pc) /\ SameTransaction(service[s].rec) /\ FilesTyped
        /\ journal # None /\ service[s].rec \in L!Record /\ ActionOk(service[s], service[s].pc)
        /\ journal \in L!Record /\ service \in [Services -> L!Call] /\ service[s] \in L!Call
        /\ lock = s
    BY <1>1, CtlTells
  <1> QED
    BY <1>1, <1>2 DEF StatusOk, SameTransaction, L!UndoTree, L!UndoRest

\* A clone is undone from whichever of its directories carries the mark.
LEMMA CtlUndoClone ==
  ASSUME Ctl, NEW s \in Services, L!UndoClone(s)
  PROVE  Ctl'
  <1>1. /\ service[s].pc = "undo" /\ service[s].rec.status # "committed"
        /\ service[s].rec.action = "clone"
        /\ UNCHANGED <<tree, registry, ledger, journal, lock, begun, troubles, clerk, raced, touched>>
    BY DEF L!UndoClone, L!Undoing, L!At, L!Rec, L!files, L!others
  <1>2. /\ FilesTyped /\ SameTransaction(service[s].rec) /\ journal.status # "committed"
        /\ journal # None /\ service \in [Services -> L!Call] /\ CallOk(service[s]) /\ lock = s
        /\ service[s].rec # None
    BY <1>1, Uncommitted, LifecycleAssumptions
      DEF L!UndoTree, Ctl, L!ConstantsAssumption
  <1>3. FilesTyped'
    BY <1>1, <1>2 DEF FilesTyped
  <1>4. PICK pc : pc = IF L!CopyOf(s) = "nowhere" THEN "undoLedger" ELSE "removing"
    OBVIOUS
  <1>5. PICK w : w = [service[s] EXCEPT !.owned = L!CopyOf(s), !.pc = pc]
    OBVIOUS
  <1>6. L!CopyOf(s) \in L!Places \union {"nowhere"}
        /\ (pc = "removing" => L!CopyOf(s) \in {"stage", "destination"})
        /\ pc \in {"removing", "undoLedger"}
    BY <1>4 DEF L!CopyOf, L!Places
  <1>7. /\ w \in L!Call /\ w.pc = pc /\ w.plan = service[s].plan /\ w.rec = service[s].rec
        /\ w.owned = L!CopyOf(s)
    <2>1. service[s] \in L!Call
      BY <1>2
    <2>2. w \in L!Call
      BY <1>5, <1>6, <2>1 DEF L!Call, L!UndoTree, L!UndoRest
    <2> QED
      BY <1>5, <2>1, <2>2 DEF L!Call
  <1>8. service' = [service EXCEPT ![s] = w]
    BY <1>4, <1>5 DEF L!UndoClone
  <1>9. journal.action = "clone"
    BY <1>1, <1>2 DEF SameTransaction
  <1>10. CallOk(w)
    BY <1>2, <1>6, <1>7, <1>9 DEF CallOk, StatusOk, ActionOk, L!Forward
  <1>11. CallOk(w)'
    BY <1>1, <1>6, <1>7, <1>10 DEF CallOk, StatusOk, ActionOk, SoundPlan, SameTransaction
  <1> QED
    BY <1>1, <1>2, <1>3, <1>6, <1>7, <1>8, <1>11, CtlStep

\* Calls and journal as they were.
LEMMA CtlFiles ==
  ASSUME Ctl, UNCHANGED <<service, lock, journal, begun>>, FilesTyped'
  PROVE  Ctl'
  <1>1. \A d \in Services : CallOk(service[d])'
    BY DEF Ctl, CallOk, StatusOk, ActionOk, SoundPlan, SameTransaction
  <1> QED
    BY <1>1 DEF Ctl, L!TypeOK, FilesTyped

\* The tree of a clone is removed, in part or to the end.
LEMMA CtlRemove ==
  ASSUME Ctl, NEW s \in Services, L!RemoveSome(s) \/ L!RemoveRest(s)
  PROVE  Ctl'
  <1>1. service[s].pc = "removing" /\ UNCHANGED <<lock, journal, begun>>
    BY DEF L!RemoveSome, L!RemoveRest, L!At
  <1>2. "removing" \in L!UndoTree /\ "removing" # "undo"
    BY DEF L!UndoTree
  <1>3. /\ FilesTyped /\ ActionOk(service[s], "removing") /\ journal.status # "committed"
    BY <1>1, <1>2, Uncommitted
  <1>4. PICK owned : owned = service[s].owned
    OBVIOUS
  <1>5. owned \in L!Places /\ tree \in [L!Places -> L!Tree] /\ tree[owned] \in L!Tree
    BY <1>3, <1>4 DEF ActionOk, L!Places, FilesTyped
  <1>6. \E x \in L!Tree : tree' = [tree EXCEPT ![owned] = x]
    <2>1. tree[owned].mark \in Lifecycles \union {NoOwner}
      BY <1>5 DEF L!Tree
    <2> QED
      BY <1>4, <2>1, DataTyped DEF L!RemoveSome, L!RemoveRest
  <1>7. FilesTyped'
    BY <1>3, <1>5, <1>6, TreeOnly DEF L!RemoveSome, L!RemoveRest, L!others
  <1>8. CASE L!RemoveSome(s)
    BY <1>1, <1>7, <1>8, CtlFiles DEF L!RemoveSome
  <1>9. CASE L!RemoveRest(s)
    <2>1. L!Goto(s, "undo") /\ "undo" \in L!UndoTree
      BY <1>9 DEF L!RemoveRest, L!UndoTree
    <2> QED
      BY <1>1, <1>2, <1>3, <1>7, <2>1, CtlUndone
  <1> QED
    BY <1>8, <1>9

\* A file that is put back as it was planned.
LEMMA RestoredTyped ==
  ASSUME FilesTyped, NEW place \in L!Places, NEW f \in {"project", "job"}, NEW rec \in L!Record
  PROVE  [tree EXCEPT ![place][f] = rec[f]] \in [L!Places -> L!Tree]
  <1>1. tree[place] \in L!Tree /\ tree \in [L!Places -> L!Tree]
    BY DEF FilesTyped
  <1>2. rec.project \in L!Content /\ rec.job \in L!Content
    BY DEF L!Record
  <1>3. CASE f = "project"
    <2>1. /\ [tree[place] EXCEPT !.project = rec.project] \in L!Tree
          /\ [tree[place] EXCEPT !["project"] = rec["project"]]
               = [tree[place] EXCEPT !.project = rec.project]
      BY <1>1, <1>2, TreeEdit
    <2> QED
      BY <1>1, <1>3, <2>1
  <1>4. CASE f = "job"
    <2>1. /\ [tree[place] EXCEPT !.job = rec.job] \in L!Tree
          /\ [tree[place] EXCEPT !["job"] = rec["job"]] = [tree[place] EXCEPT !.job = rec.job]
      BY <1>1, <1>2, TreeEdit
    <2> QED
      BY <1>1, <1>4, <2>1
  <1> QED
    BY <1>3, <1>4

\* The tree of a move is found, its project.yaml is compared, and it is restored or goes back.
Found(s, owned, c, pc) ==
  service' = [service EXCEPT ![s].owned = owned, ![s].current = c, ![s].pc = pc]
LEMMA FoundCall ==
  ASSUME service \in [Services -> L!Call], NEW s \in Services, NEW owned \in L!Places,
         NEW c \in L!Content, NEW pc \in {"restore", "back"}, Found(s, owned, c, pc)
  PROVE  \E w \in L!Call :
           /\ service' = [service EXCEPT ![s] = w] /\ service'[s] = w
           /\ w.pc = pc /\ w.plan = service[s].plan /\ w.rec = service[s].rec
           /\ w.owned = owned /\ w.current = c /\ w.failed = service[s].failed
  <1>1. PICK w : w = [service[s] EXCEPT !.owned = owned, !.current = c, !.pc = pc]
    OBVIOUS
  <1>2. service[s] \in L!Call
    OBVIOUS
  <1>3. w \in L!Call
    BY <1>1, <1>2 DEF L!Call, L!UndoTree
  <1>4. /\ w.pc = pc /\ w.plan = service[s].plan /\ w.rec = service[s].rec
        /\ w.owned = owned /\ w.current = c /\ w.failed = service[s].failed
    BY <1>1, <1>2 DEF L!Call
  <1>5. service' = [service EXCEPT ![s] = w] /\ service'[s] = w
    BY <1>1 DEF Found
  <1> QED
    BY <1>3, <1>4, <1>5

\* What the recovery of a move does when it looks for its tree.
LEMMA UndoMoveTells ==
  ASSUME Ctl, NEW s \in Services, L!UndoMove(s)
  PROVE  /\ service[s].pc = "undo" /\ service[s].rec.status # "committed"
         /\ service[s].rec.action = "move"
         /\ UNCHANGED <<tree, registry, ledger, journal, lock, begun, troubles, clerk, raced, touched>>
         /\ \/ L!MovedTo(s) = "nowhere" /\ L!Goto(s, "authority")
            \/ L!Skip(s, "undoLedger")
            \/ \E owned \in {"stage", "destination"}, w \in L!Call :
                 /\ owned = L!MovedTo(s) /\ L!Restorable(owned, "project", service[s].rec)
                 /\ service' = [service EXCEPT ![s] = w] /\ service'[s] = w
                 /\ w.pc \in {"restore", "back"} /\ w.owned = owned
                 /\ w.pc = "restore" => "project" \in service[s].rec.written
                 /\ w.current = tree[owned].project /\ w.failed = service[s].failed
                 /\ w.plan = service[s].plan /\ w.rec = service[s].rec
  <1>1. /\ service[s].pc = "undo" /\ service[s].rec.status # "committed"
        /\ service[s].rec.action = "move"
        /\ UNCHANGED <<tree, registry, ledger, journal, lock, begun, troubles, clerk, raced, touched>>
    BY DEF L!UndoMove, L!Undoing, L!At, L!Rec, L!files, L!others
  <1>2. service \in [Services -> L!Call] /\ tree \in [L!Places -> L!Tree]
    BY DEF Ctl, L!TypeOK
  <1>3. PICK owned : owned = L!MovedTo(s)
    OBVIOUS
  <1>4. CASE owned = "nowhere"
    BY <1>1, <1>3, <1>4 DEF L!UndoMove
  <1>5. CASE owned # "nowhere" /\ ~L!Restorable(owned, "project", service[s].rec)
    BY <1>1, <1>3, <1>5 DEF L!UndoMove, L!Rec
  <1>6. CASE owned # "nowhere" /\ L!Restorable(owned, "project", service[s].rec)
    <2>1. PICK pc : pc = IF L!ToRestore(owned, "project", service[s].rec) THEN "restore" ELSE "back"
      OBVIOUS
    <2> PICK c : c = tree[owned].project
      OBVIOUS
    <2>2. Found(s, owned, c, pc)
      BY <1>3, <1>6, <2>1 DEF L!UndoMove, L!Rec, Found
    <2>3. /\ pc \in {"restore", "back"}
          /\ pc = "restore" => "project" \in service[s].rec.written
      BY <2>1 DEF L!ToRestore
    <2>4. owned \in {"stage", "destination"} /\ owned \in L!Places
      BY <1>3, <1>6 DEF L!MovedTo, L!Places
    <2>5. c \in L!Content
      BY <1>2, <2>4 DEF L!Tree
    <2>6. PICK w \in L!Call :
            /\ service' = [service EXCEPT ![s] = w] /\ service'[s] = w
            /\ w.pc = pc /\ w.plan = service[s].plan /\ w.rec = service[s].rec
            /\ w.owned = owned /\ w.current = c /\ w.failed = service[s].failed
      BY <1>2, <2>2, <2>3, <2>4, <2>5, FoundCall
    <2> QED
      BY <1>1, <1>3, <1>6, <2>3, <2>4, <2>6
  <1> QED
    BY <1>4, <1>5, <1>6

\* The file that is there is the planned one or the rewrite of it: the text is the planned one.
LEMMA RestorableText ==
  ASSUME NEW place, NEW rec \in L!Record, L!Restorable(place, "project", rec),
         "project" \in rec.written
  PROVE  tree[place].project.text = rec.project.text
  <1>1. rec.project \in L!Content /\ rec.txn \in Lifecycles
    BY DEF L!Record
  <1>2. tree[place].project = rec.project \/ tree[place].project = L!Rewritten(rec.project, rec.txn)
    BY DEF L!Restorable
  <1> QED
    BY <1>1, <1>2, DataTyped

\* The tree of a move is looked for and its project.yaml compared.
LEMMA CtlUndoMove ==
  ASSUME Ctl, NEW s \in Services, L!UndoMove(s)
  PROVE  Ctl'
  <1>1. /\ service[s].pc = "undo" /\ service[s].rec.status # "committed"
        /\ service[s].rec.action = "move"
        /\ UNCHANGED <<tree, registry, ledger, journal, lock, begun, troubles, clerk, raced, touched>>
    BY UndoMoveTells
  <1>2. /\ FilesTyped /\ SameTransaction(service[s].rec) /\ journal.status # "committed"
        /\ journal # None /\ service \in [Services -> L!Call] /\ CallOk(service[s]) /\ lock = s
        /\ service[s].rec \in L!Record
    BY <1>1, Uncommitted DEF L!UndoTree, Ctl
  <1>3. journal.action = "move"
    BY <1>1, <1>2 DEF SameTransaction
  <1>4. FilesTyped'
    BY <1>1, <1>2 DEF FilesTyped
  <1>5. CASE L!Goto(s, "authority")
    BY <1>1, <1>2, <1>3, <1>4, <1>5, CtlUndone DEF L!UndoTree
  <1>6. CASE L!Skip(s, "undoLedger")
    BY <1>1, <1>2, <1>4, <1>6, CtlSkip
  <1>7. ASSUME NEW owned \in {"stage", "destination"}, NEW w \in L!Call,
               L!Restorable(owned, "project", service[s].rec),
               service' = [service EXCEPT ![s] = w], w.pc \in {"restore", "back"},
               w.owned = owned, w.current = tree[owned].project,
               w.pc = "restore" => "project" \in service[s].rec.written,
               w.plan = service[s].plan, w.rec = service[s].rec
        PROVE  Ctl'
    <2>1. service[s].rec # None
      BY <1>2, LifecycleAssumptions DEF L!ConstantsAssumption
    <2>2. w.pc = "restore" => w.current.text = w.rec.project.text
      BY <1>2, <1>7, RestorableText
    <2>3. CallOk(w)
      BY <1>2, <1>3, <1>7, <2>1, <2>2 DEF CallOk, StatusOk, ActionOk, L!Forward
    <2>4. CallOk(w)'
      BY <1>1, <1>7, <2>3 DEF CallOk, StatusOk, ActionOk, SoundPlan, SameTransaction
    <2> QED
      BY <1>1, <1>2, <1>4, <1>7, <2>4, CtlStep
  <1> QED
    BY <1>5, <1>6, <1>7, UndoMoveTells

\* project.yaml of a moved tree is put back.
LEMMA CtlRestoreMoved ==
  ASSUME Ctl, NEW s \in Services, L!RestoreMoved(s)
  PROVE  Ctl'
  <1>1. /\ service[s].pc = "restore" /\ L!Goto(s, "back")
        /\ UNCHANGED <<registry, ledger, journal, lock, begun, troubles, clerk, raced, touched>>
        /\ tree' = [tree EXCEPT ![service[s].owned]["project"] = service[s].rec["project"]]
    BY DEF L!RestoreMoved, L!Restore, L!At, L!Rec, L!others
  <1>2. "restore" \in L!UndoTree /\ "restore" # "undo" /\ "back" \in Steps \ {"idle", "begin"}
        /\ "back" \notin L!Forward
    BY DEF L!UndoTree, Steps, L!Forward
  <1>3. /\ FilesTyped /\ ActionOk(service[s], "restore") /\ journal.status # "committed"
        /\ journal # None /\ service[s].rec \in L!Record
    BY <1>1, <1>2, Uncommitted
  <1>4. service[s].owned \in L!Places
    BY <1>3 DEF ActionOk, L!Places
  <1>5. FilesTyped'
    BY <1>1, <1>3, <1>4, RestoredTyped DEF FilesTyped
  <1>6. StatusOk(service[s], "back") /\ ActionOk(service[s], "back")
    BY <1>3 DEF StatusOk, ActionOk, L!Forward
  <1> QED
    BY <1>1, <1>2, <1>5, <1>6, CtlGoto

\* The tree of a move is renamed to the source.
LEMMA CtlMoveBack ==
  ASSUME Ctl, NEW s \in Services, L!MoveBack(s)
  PROVE  Ctl'
  <1>1. service[s].pc = "back" /\ UNCHANGED <<lock, journal>>
    BY DEF L!MoveBack, L!At
  <1>2. "back" \in L!UndoTree /\ "back" # "undo" /\ "authority" \in L!UndoTree
    BY DEF L!UndoTree
  <1>3. /\ FilesTyped /\ ActionOk(service[s], "back") /\ journal.status # "committed"
        /\ journal # None
    BY <1>1, <1>2, Uncommitted
  <1>4. PICK owned : owned = service[s].owned
    OBVIOUS
  <1>5. owned \in L!Places /\ tree \in [L!Places -> L!Tree] /\ journal.action = "move"
    BY <1>3, <1>4 DEF ActionOk, L!Places, FilesTyped
  <1>6. \/ L!Goto(s, "authority") /\ tree' = L!Renamed(owned, "source")
        \/ L!Goto(s, "authority") /\ tree' = [tree EXCEPT ![owned] = L!Nothing]
        \/ L!Skip(s, "undoLedger") /\ UNCHANGED tree
    BY <1>4 DEF L!MoveBack
  <1>7. tree' \in [L!Places -> L!Tree]
    <2>1. L!Renamed(owned, "source") \in [L!Places -> L!Tree]
      BY <1>3, <1>5, RenamedTyped DEF L!Places
    <2>2. [tree EXCEPT ![owned] = L!Nothing] \in [L!Places -> L!Tree]
      BY <1>5, DataTyped
    <2> QED
      BY <1>5, <1>6, <2>1, <2>2
  <1>8. FilesTyped'
    BY <1>3, <1>7, TreeOnly DEF L!MoveBack, L!others
  <1>9. CASE L!Goto(s, "authority")
    BY <1>1, <1>2, <1>3, <1>5, <1>8, <1>9, CtlUndone
  <1>10. CASE L!Skip(s, "undoLedger")
    BY <1>1, <1>3, <1>8, <1>10, CtlSkip
  <1> QED
    BY <1>6, <1>9, <1>10

\* The recovery of a move asks whether the source is authoritative.
LEMMA CtlAuthority ==
  ASSUME Ctl, NEW s \in Services, L!Authority(s)
  PROVE  Ctl'
  <1>1. /\ service[s].pc = "authority"
        /\ UNCHANGED <<tree, registry, ledger, journal, lock, begun, troubles, clerk, raced, touched>>
    BY DEF L!Authority, L!At, L!files, L!others
  <1>2. "authority" \in L!UndoTree /\ "authority" # "undo" /\ "undoLedger" \in L!UndoRest
    BY DEF L!UndoTree, L!UndoRest
  <1>3. FilesTyped /\ journal.status # "committed"
    BY <1>1, <1>2, Uncommitted
  <1>4. FilesTyped'
    BY <1>1, <1>3 DEF FilesTyped
  <1>5. L!Goto(s, "undoLedger") \/ L!Skip(s, "undoLedger")
    BY DEF L!Authority
  <1> QED
    BY <1>1, <1>2, <1>3, <1>4, <1>5, CtlUndone, CtlSkip

\* A file of an adopted project is compared.
LEMMA CtlUndoFile ==
  ASSUME Ctl, NEW s \in Services, service[s].pc \in L!UndoTree,
         service[s].pc = "undo" => service[s].rec.status # "committed",
         NEW f \in {"project", "job"}, NEW restore \in {"restoreProject", "restoreJob"},
         NEW next \in {"undoJob", "undoLedger"},
         journal.action = "adopt", L!UndoFile(s, f, restore, next)
  PROVE  Ctl'
  <1>1. /\ FilesTyped /\ journal.status # "committed"
        /\ service[s].pc \notin {"idle", "begin"}
    BY Uncommitted
  <1>2. UNCHANGED <<tree, registry, ledger, journal, lock, begun, troubles, clerk, raced, touched>>
    BY DEF L!UndoFile, L!files, L!others
  <1>3. L!Goto(s, restore) \/ L!Goto(s, next) \/ L!Skip(s, "undoLedger")
    BY DEF L!UndoFile
  <1>4. FilesTyped'
    BY <1>1, <1>2 DEF FilesTyped
  <1>5. ASSUME NEW pc \in {restore, next}, L!Goto(s, pc)
        PROVE  Ctl'
    <2>1. pc \in {"restoreProject", "restoreJob", "undoJob", "undoLedger"}
      OBVIOUS
    <2> QED
      BY <1>1, <1>2, <1>4, <1>5, <2>1, CtlUndone DEF L!UndoTree, L!UndoRest
  <1>6. CASE L!Skip(s, "undoLedger")
    BY <1>1, <1>2, <1>4, <1>6, CtlSkip
  <1> QED
    BY <1>3, <1>5, <1>6

\* The files of an adopted project are compared, one after the other.
LEMMA CtlUndoAdopt ==
  ASSUME Ctl, NEW s \in Services, L!UndoAdopt(s) \/ L!UndoAdoptJob(s)
  PROVE  Ctl'
  <1>1. CASE L!UndoAdopt(s)
    <2>1. /\ service[s].pc = "undo" /\ service[s].rec.status # "committed"
          /\ service[s].rec.action = "adopt"
          /\ L!UndoFile(s, "project", "restoreProject", "undoJob")
      BY <1>1 DEF L!UndoAdopt, L!Undoing, L!At, L!Rec
    <2>2. "undo" \in L!UndoTree
      BY DEF L!UndoTree
    <2>3. journal.action = "adopt"
      BY <2>1, <2>2, Uncommitted DEF SameTransaction
    <2> QED
      BY <2>1, <2>2, <2>3, CtlUndoFile
  <1>2. CASE L!UndoAdoptJob(s)
    <2>1. service[s].pc = "undoJob" /\ L!UndoFile(s, "job", "restoreJob", "undoLedger")
      BY <1>2 DEF L!UndoAdoptJob, L!At
    <2>2. "undoJob" \in L!UndoTree
      BY DEF L!UndoTree
    <2>3. journal.action = "adopt"
      BY <2>1, CtlTells DEF ActionOk
    <2> QED
      BY <2>1, <2>2, <2>3, CtlUndoFile
  <1> QED
    BY <1>1, <1>2

\* What is written when a file of an adopted project is put back.
LEMMA RestoreAdoptedTells ==
  ASSUME NEW s \in Services, L!RestoreProject(s) \/ L!RestoreJob(s)
  PROVE  /\ service[s].pc \in {"restoreProject", "restoreJob"}
         /\ UNCHANGED <<registry, ledger, journal, lock, begun, troubles, clerk, raced, touched>>
         /\ \E f \in {"project", "job"}, pc \in {"undoJob", "undoLedger"} :
              /\ tree' = [tree EXCEPT !["source"][f] = service[s].rec[f]]
              /\ L!Goto(s, pc)
  BY DEF L!RestoreProject, L!RestoreJob, L!Restore, L!At, L!Rec, L!others

\* A file of an adopted project is put back.
LEMMA CtlRestoreAdopted ==
  ASSUME Ctl, NEW s \in Services, L!RestoreProject(s) \/ L!RestoreJob(s)
  PROVE  Ctl'
  <1>1. PICK f \in {"project", "job"}, pc \in {"undoJob", "undoLedger"} :
          /\ tree' = [tree EXCEPT !["source"][f] = service[s].rec[f]]
          /\ L!Goto(s, pc)
    BY RestoreAdoptedTells
  <1>2. /\ service[s].pc \in {"restoreProject", "restoreJob"}
        /\ UNCHANGED <<registry, ledger, journal, lock, begun, troubles, clerk, raced, touched>>
    BY RestoreAdoptedTells
  <1>3. service[s].pc \in L!UndoTree /\ service[s].pc # "undo"
    BY <1>2 DEF L!UndoTree
  <1>4. /\ FilesTyped /\ journal.status # "committed" /\ service[s].rec \in L!Record
        /\ ActionOk(service[s], service[s].pc)
    BY <1>3, Uncommitted
  <1>5. journal.action = "adopt"
    BY <1>2, <1>4 DEF ActionOk
  <1>6. FilesTyped'
    BY <1>1, <1>2, <1>4, RestoredTyped DEF FilesTyped, L!Places
  <1> QED
    BY <1>1, <1>2, <1>3, <1>4, <1>5, <1>6, CtlUndone DEF L!UndoTree, L!UndoRest

\* The ledger's merge is rolled back.
LEMMA CtlUndoLedger ==
  ASSUME Ctl, NEW s \in Services, L!UndoLedger(s)
  PROVE  Ctl'
  <1>1. /\ service[s].pc = "undoLedger" /\ L!Goto(s, "readRegistry") /\ UNCHANGED <<lock, journal>>
    BY DEF L!UndoLedger, L!At
  <1>2. "undoLedger" \in L!UndoRest /\ "undoLedger" # "undo" /\ "readRegistry" \in L!UndoRest
    BY DEF L!UndoRest
  <1>3. FilesTyped /\ service[s].rec \in L!Record /\ journal.status # "committed"
    BY <1>1, <1>2, Uncommitted
  <1>4. L!Txn(s) \in Lifecycles /\ ledger \in L!Ledger
    BY <1>3 DEF L!Txn, L!Record, FilesTyped
  <1>5. ledger' \in L!Ledger
    BY <1>4, RollbackTyped DEF L!UndoLedger, RolledBack
  <1>6. FilesTyped'
    BY <1>3, <1>5 DEF FilesTyped, L!UndoLedger, L!others
  <1> QED
    BY <1>1, <1>2, <1>3, <1>6, CtlUndone

\* The recovery reads the registry.
LEMMA CtlReadRegistry ==
  ASSUME Ctl, NEW s \in Services, L!ReadRegistry(s)
  PROVE  Ctl'
  <1>1. /\ service[s].pc = "readRegistry"
        /\ UNCHANGED <<tree, registry, ledger, journal, lock, begun, troubles, clerk, raced, touched>>
    BY DEF L!ReadRegistry, L!At, L!files, L!others
  <1>2. "readRegistry" \in L!UndoRest /\ "readRegistry" # "undo"
    BY DEF L!UndoRest
  <1>3. /\ FilesTyped /\ SameTransaction(service[s].rec) /\ journal.status # "committed"
        /\ journal # None /\ service \in [Services -> L!Call] /\ service[s] \in L!Call
        /\ CallOk(service[s]) /\ lock = s /\ service[s].rec \in L!Record
    BY <1>1, <1>2, Uncommitted DEF Ctl
  <1>4. service[s].rec # None
    BY <1>3, LifecycleAssumptions DEF L!ConstantsAssumption
  <1>5. FilesTyped'
    BY <1>1, <1>3 DEF FilesTyped
  <1>6. PICK w : w = [service[s] EXCEPT !.seen = registry, !.pc = "restoreRegistry"]
    OBVIOUS
  <1>7. w \in L!Call
    BY <1>3, <1>6 DEF L!Call, L!UndoRest, FilesTyped
  <1>8. w.pc = "restoreRegistry" /\ w.plan = service[s].plan /\ w.rec = service[s].rec
    BY <1>3, <1>6 DEF L!Call
  <1>9. service' = [service EXCEPT ![s] = w]
    BY <1>6 DEF L!ReadRegistry
  <1>10. CallOk(w)
    BY <1>3, <1>4, <1>8 DEF CallOk, StatusOk, ActionOk, L!Forward
  <1>11. CallOk(w)'
    BY <1>1, <1>8, <1>10 DEF CallOk, StatusOk, ActionOk, SoundPlan, SameTransaction
  <1> QED
    BY <1>1, <1>3, <1>5, <1>7, <1>8, <1>9, <1>11, CtlStep

\* The recovery writes the registry back.
LEMMA CtlRestoreRegistry ==
  ASSUME Ctl, NEW s \in Services, L!RestoreRegistry(s)
  PROVE  Ctl'
  <1>1. /\ service[s].pc = "restoreRegistry" /\ L!Goto(s, "finish") /\ UNCHANGED <<lock, journal>>
    BY DEF L!RestoreRegistry, L!At
  <1>2. "restoreRegistry" \in L!UndoRest /\ "restoreRegistry" # "undo" /\ "finish" \in L!UndoRest
    BY DEF L!UndoRest
  <1>3. /\ FilesTyped /\ service[s].rec \in L!Record /\ journal.status # "committed"
        /\ service[s] \in L!Call
    BY <1>1, <1>2, Uncommitted
  <1>4. L!UndoneRegistry(service[s].rec, service[s].seen) \in SUBSET Entries
    <2>1. service[s].seen \in SUBSET Entries
      BY <1>3 DEF L!Call
    <2>2. service[s].rec.registry \in SUBSET Entries
      BY <1>3 DEF L!Record
    <2> QED
      BY <2>1, <2>2 DEF L!UndoneRegistry
  <1>5. registry' \in SUBSET Entries
    BY <1>3, <1>4 DEF L!RestoreRegistry, L!Rec, FilesTyped
  <1>6. raced' \in BOOLEAN
    BY DEF L!RestoreRegistry
  <1>7. FilesTyped'
    BY <1>3, <1>5, <1>6 DEF FilesTyped, L!RestoreRegistry
  <1> QED
    BY <1>1, <1>2, <1>3, <1>7, CtlUndone

\* The recovery removes mark and journal, or keeps them for another attempt.
LEMMA CtlFinishUndo ==
  ASSUME Ctl, NEW s \in Services, L!FinishUndo(s)
  PROVE  Ctl'
  <1>1. service[s].pc = "finish" /\ UNCHANGED journal
    BY DEF L!FinishUndo, L!At
  <1>2. "finish" \in L!UndoRest /\ "finish" # "undo"
    BY DEF L!UndoRest
  <1>3. FilesTyped /\ journal.status # "committed"
    BY <1>1, <1>2, Uncommitted
  <1>4. tree' \in [L!Places -> L!Tree]
    BY <1>3, UnmarkedTyped DEF L!FinishUndo, L!Places, FilesTyped
  <1>5. FilesTyped'
    BY <1>3, <1>4, TreeOnly DEF L!FinishUndo, L!others
  <1>6. CASE service[s].failed
    <2>1. L!Return(s, "partial")
      BY <1>6 DEF L!FinishUndo
    <2> QED
      BY <1>1, <1>5, <2>1, CtlReturn
  <1>7. CASE ~service[s].failed
    BY <1>1, <1>2, <1>3, <1>5, <1>7, CtlUndone DEF L!FinishUndo
  <1> QED
    BY <1>6, <1>7

\* What a failing step leaves of the call, unless it is the write of the committed record,
\* after which the code keeps the result.
LEMMA FailTells ==
  ASSUME Ctl, "commit" \notin Failing, NEW s \in Services, L!Fail(s)
  PROVE  /\ UNCHANGED <<tree, registry, ledger, journal, begun, clerk, raced, touched>>
         /\ FilesTyped' /\ service[s].pc # "idle"
         /\ \/ \E said \in {"refused", "done", "partial"} : L!Return(s, said)
            \/ /\ service[s].pc \in L!Forward \ {"begin"} /\ UNCHANGED lock
               /\ journal.status # "committed"
               /\ \E rec \in L!Record :
                    /\ rec # None /\ SameTransaction(rec)
                    /\ service' = [service EXCEPT ![s].rec = rec, ![s].pc = "undo",
                                                  ![s].how = "failing"]
            \/ /\ service[s].pc \in L!UndoTree \union L!UndoRest
               /\ journal.status # "committed" /\ UNCHANGED lock
               /\ \E pc \in {"undoLedger", "readRegistry", "finish"} :
                    /\ L!Skip(s, pc)
                    /\ pc = "undoLedger" => service[s].pc \in L!UndoTree
  <1>1. /\ FilesTyped /\ service[s].pc \in Failing /\ troubles' = troubles + 1
        /\ service[s].pc = "undo" => service[s].rec.status # "committed"
        /\ UNCHANGED <<tree, registry, ledger, journal, begun, clerk, raced, touched>>
    BY DEF Ctl, L!TypeOK, FilesTyped, L!Fail, L!Trouble, L!files, L!others, L!At, L!Rec
  <1>2. FilesTyped'
    BY <1>1 DEF FilesTyped
  <1>3. CASE service[s].pc = "begin" /\ L!Return(s, "refused")
    BY <1>1, <1>2, <1>3
  <1>4. ASSUME service[s].pc \in L!Forward \ {"begin"},
               NEW rec \in {service[s].rec, L!NextRecord(s)},
               service' = [service EXCEPT ![s].rec = rec, ![s].pc = "undo", ![s].how = "failing"]
        PROVE  /\ service[s].pc # "idle" /\ journal.status # "committed"
               /\ rec \in L!Record /\ rec # None /\ SameTransaction(rec)
    <2>1. service[s].pc \notin {"idle", "begin", "commit"} /\ service[s].pc \in L!Forward
      BY <1>1, <1>4 DEF L!Forward
    <2>2. /\ SameTransaction(service[s].rec) /\ StatusOk(service[s], service[s].pc)
          /\ service[s].rec \in L!Record
      BY <2>1, CtlTells
    <2>3. journal.status # "committed"
      BY <2>1, <2>2 DEF StatusOk, L!Forward
    <2>4. service[s].pc = "projectRegistry" => journal.projection = {}
      BY <2>2 DEF StatusOk
    <2>5. PICK next : next = L!NextRecord(s)
      OBVIOUS
    <2>6. /\ next \in L!Record /\ next.txn = journal.txn /\ next.action = journal.action
          /\ next.registry = journal.registry /\ next.status # "committed"
          /\ service[s].pc # "projectRegistry" => next.projection = journal.projection
      BY <1>4, <2>1, <2>5, NextTells
    <2>7. SameTransaction(next)
      BY <2>3, <2>4, <2>6 DEF SameTransaction
    <2>8. rec \in L!Record /\ SameTransaction(rec)
      BY <1>4, <2>2, <2>5, <2>6, <2>7
    <2> QED
      BY <2>1, <2>3, <2>8, LifecycleAssumptions DEF L!ConstantsAssumption
  <1>5. CASE /\ service[s].pc \in L!Cleanup
             /\ \E said \in {"done", "partial"} : L!Return(s, said)
    BY <1>1, <1>2, <1>5 DEF L!Cleanup
  <1>6. ASSUME service[s].pc \in L!UndoTree \union L!UndoRest
        PROVE  service[s].pc # "idle" /\ journal.status # "committed"
    BY <1>1, <1>6, Uncommitted
  <1>7. CASE service[s].pc \in L!UndoTree /\ L!Skip(s, "undoLedger") /\ UNCHANGED lock
    BY <1>1, <1>2, <1>6, <1>7
  <1>8. CASE service[s].pc = "undoLedger" /\ L!Skip(s, "readRegistry") /\ UNCHANGED lock
    BY <1>1, <1>2, <1>6, <1>8 DEF L!UndoRest
  <1>9. CASE /\ service[s].pc \in {"readRegistry", "restoreRegistry"}
             /\ L!Skip(s, "finish") /\ UNCHANGED lock
    BY <1>1, <1>2, <1>6, <1>9 DEF L!UndoRest
  <1>10. CASE service[s].pc = "finish" /\ L!Return(s, "partial")
    BY <1>1, <1>2, <1>10
  <1>11. CASE /\ service[s].pc \in L!Forward \ {"begin"} /\ UNCHANGED lock
              /\ \E rec \in {service[s].rec, L!NextRecord(s)} :
                   service' = [service EXCEPT ![s].rec = rec, ![s].pc = "undo", ![s].how = "failing"]
    BY <1>1, <1>2, <1>4, <1>11
  <1>12. \/ service[s].pc = "begin" /\ L!Return(s, "refused")
         \/ /\ service[s].pc \in L!Forward \ {"begin"} /\ UNCHANGED lock
            /\ \E rec \in {service[s].rec, L!NextRecord(s)} :
                 service' = [service EXCEPT ![s].rec = rec, ![s].pc = "undo", ![s].how = "failing"]
         \/ /\ service[s].pc \in L!Cleanup
            /\ \E said \in {"done", "partial"} : L!Return(s, said)
         \/ service[s].pc \in L!UndoTree /\ L!Skip(s, "undoLedger") /\ UNCHANGED lock
         \/ service[s].pc = "undoLedger" /\ L!Skip(s, "readRegistry") /\ UNCHANGED lock
         \/ /\ service[s].pc \in {"readRegistry", "restoreRegistry"}
            /\ L!Skip(s, "finish") /\ UNCHANGED lock
         \/ service[s].pc = "finish" /\ L!Return(s, "partial")
    BY DEF L!Fail, L!At, L!Rec
  <1> QED
    BY <1>3, <1>5, <1>7, <1>8, <1>9, <1>10, <1>11, <1>12

\* Any step that reads or writes a file may fail, but the write of the committed record.
LEMMA CtlFail ==
  ASSUME Ctl, "commit" \notin Failing, NEW s \in Services, L!Fail(s)
  PROVE  Ctl'
  <1>1. /\ UNCHANGED <<tree, registry, ledger, journal, begun, clerk, raced, touched>>
        /\ FilesTyped' /\ service[s].pc # "idle"
    BY FailTells
  <1>2. ASSUME NEW said \in {"refused", "done", "partial"}, L!Return(s, said)
        PROVE  Ctl'
    BY <1>1, <1>2, CtlReturn
  <1>3. ASSUME service[s].pc \in L!Forward \ {"begin"}, UNCHANGED lock,
               NEW rec \in L!Record, rec # None, SameTransaction(rec),
               service' = [service EXCEPT ![s].rec = rec, ![s].pc = "undo", ![s].how = "failing"]
        PROVE  Ctl'
    BY <1>1, <1>3, CtlUndo
  <1>4. ASSUME service[s].pc \in L!UndoTree \union L!UndoRest,
               journal.status # "committed", UNCHANGED lock,
               NEW pc \in {"undoLedger", "readRegistry", "finish"}, L!Skip(s, pc)
        PROVE  Ctl'
    BY <1>1, <1>4, CtlSkip DEF L!UndoTree, L!UndoRest
  <1> QED
    BY <1>2, <1>3, <1>4, FailTells

\* A process that ends leaves nothing in memory.
LEMMA CrashTells ==
  ASSUME Ctl, NEW s \in Services, L!Crash(s)
  PROVE  /\ UNCHANGED <<tree, registry, ledger, journal, begun, clerk, raced, touched>>
         /\ FilesTyped' /\ service[s].pc # "idle" /\ lock' = Nobody
         /\ \E w \in L!Call : /\ service' = [service EXCEPT ![s] = w]
                              /\ w.pc = "idle" /\ w.plan = None /\ w.rec = None
  <1>1. /\ FilesTyped /\ troubles' = troubles + 1
        /\ UNCHANGED <<tree, registry, ledger, journal, begun, clerk, raced, touched>>
    BY DEF Ctl, L!TypeOK, FilesTyped, L!Crash, L!Trouble, L!files, L!others
  <1>2. FilesTyped'
    BY <1>1 DEF FilesTyped
  <1>3. L!NoCall \in L!Call /\ L!NoCall.pc = "idle" /\ L!NoCall.plan = None /\ L!NoCall.rec = None
    BY DEF L!NoCall, L!Call, L!Original, L!Content
  <1> QED
    BY <1>1, <1>2, <1>3 DEF L!Crash, L!At

\* The process may end at any step.
LEMMA CtlCrash ==
  ASSUME Ctl, NEW s \in Services, L!Crash(s)
  PROVE  Ctl'
  <1>1. /\ FilesTyped' /\ service[s].pc # "idle" /\ lock' = Nobody
    BY CrashTells
  <1>2. PICK w \in L!Call : /\ service' = [service EXCEPT ![s] = w]
                            /\ w.pc = "idle" /\ w.plan = None /\ w.rec = None
    BY CrashTells
  <1>3. CallOk(w)'
    BY <1>2 DEF CallOk, L!Forward
  <1> QED
    BY <1>1, <1>2, <1>3, CtlStep

\* What the user does to a tree: another edition of a file, a folder, none.
LEMMA UserTells ==
  ASSUME FilesTyped, L!User
  PROVE  /\ FilesTyped' /\ troubles' = troubles + 1
         /\ UNCHANGED <<registry, ledger, journal, lock, service, begun, clerk, raced, touched>>
         /\ \E place \in {"source", "destination"}, x \in L!Tree :
              /\ tree' = [tree EXCEPT ![place] = x]
              /\ \/ /\ tree[place].kind = "whole" /\ x.kind = "whole" /\ x.mark = tree[place].mark
                 \/ /\ tree[place].kind = "none" /\ x = L!Foreign
                 \/ /\ tree[place].kind = "foreign" /\ x = L!Nothing
  <1>1. /\ troubles' = troubles + 1 /\ troubles' \in Nat /\ tree \in [L!Places -> L!Tree]
        /\ UNCHANGED <<registry, ledger, journal, lock, service, begun, clerk, raced, touched>>
    BY DEF FilesTyped, L!User, L!Trouble, L!others
  <1>2. PICK place \in {"source", "destination"} :
          \/ /\ tree[place].kind = "whole"
             /\ \E f \in {"project", "job"} :
                  tree' = [tree EXCEPT ![place][f].text = troubles']
          \/ tree[place].kind = "none" /\ tree' = [tree EXCEPT ![place] = L!Foreign]
          \/ tree[place].kind = "foreign" /\ tree' = [tree EXCEPT ![place] = L!Nothing]
    BY DEF L!User
  <1>3. tree[place] \in L!Tree
    BY <1>1, <1>2 DEF L!Places
  <1>4. PICK n \in Nat : n = troubles'
    BY <1>1
  <1>5. \E x \in L!Tree :
          /\ tree' = [tree EXCEPT ![place] = x]
          /\ \/ /\ tree[place].kind = "whole" /\ x.kind = "whole" /\ x.mark = tree[place].mark
             \/ /\ tree[place].kind = "none" /\ x = L!Foreign
             \/ /\ tree[place].kind = "foreign" /\ x = L!Nothing
    <2>1. ASSUME tree[place].kind = "whole", NEW f \in {"project", "job"},
                 tree' = [tree EXCEPT ![place][f].text = troubles']
          PROVE  \E x \in L!Tree : /\ tree' = [tree EXCEPT ![place] = x]
                                   /\ x.kind = "whole" /\ x.mark = tree[place].mark
      <3>1. PICK c : c = [tree[place][f] EXCEPT !.text = n]
        OBVIOUS
      <3>2. tree[place].project \in L!Content /\ tree[place].job \in L!Content
        BY <1>3 DEF L!Tree
      <3>3. c \in L!Content
        <4>1. tree[place][f] \in L!Content
          BY <3>2
        <4> QED
          BY <3>1, <4>1 DEF L!Content
      <3>4. PICK x : x = [tree[place] EXCEPT ![f] = c]
        OBVIOUS
      <3>5. x \in L!Tree /\ x.kind = "whole" /\ x.mark = tree[place].mark
        BY <1>3, <2>1, <3>3, <3>4 DEF L!Tree
      <3>6. tree' = [tree EXCEPT ![place] = x]
        BY <1>4, <2>1, <3>1, <3>4
      <3> QED
        BY <3>5, <3>6
    <2> QED
      BY <1>2, <2>1, DataTyped
  <1>6. tree' \in [L!Places -> L!Tree]
    BY <1>1, <1>5
  <1>7. FilesTyped'
    BY <1>1, <1>6 DEF FilesTyped
  <1> QED
    BY <1>1, <1>2, <1>5, <1>7

\* Everybody else leaves calls and journal alone.
LEMMA CtlOthers ==
  ASSUME Ctl, L!User \/ L!ReadToRegister \/ L!WriteRegistered \/ L!OtherJobs
  PROVE  Ctl'
  <1>1. FilesTyped
    BY DEF Ctl, L!TypeOK, FilesTyped
  <1>2. CASE L!User
    BY <1>1, <1>2, UserTells, CtlFiles
  <1>3. CASE L!ReadToRegister
    <2>1. UNCHANGED <<service, lock, tree, registry, ledger, journal, begun, raced, touched>>
      BY <1>3 DEF L!ReadToRegister, L!files
    <2>2. clerk' \in L!Clerk /\ troubles' \in Nat
      BY <1>1, <1>3 DEF FilesTyped, L!ReadToRegister, L!Trouble, L!Clerk
    <2>3. FilesTyped'
      BY <1>1, <2>1, <2>2 DEF FilesTyped
    <2> QED
      BY <2>1, <2>3, CtlFiles
  <1>4. CASE L!WriteRegistered
    <2>1. UNCHANGED <<service, lock, tree, ledger, journal, begun, troubles, touched>>
      BY <1>4 DEF L!WriteRegistered
    <2>2. clerk' \in L!Clerk /\ raced' \in BOOLEAN
      BY <1>4 DEF L!WriteRegistered, L!Clerk, L!NoClerk
    <2>3. registry' \in SUBSET Entries
      <3>1. clerk.seen \in SUBSET Entries /\ "elsewhere" \in Entries
        BY <1>1, LifecycleAssumptions DEF L!ConstantsAssumption, FilesTyped, L!Clerk
      <3> QED
        BY <1>4, <3>1 DEF L!WriteRegistered
    <2>4. FilesTyped'
      BY <1>1, <2>1, <2>2, <2>3 DEF FilesTyped
    <2> QED
      BY <2>1, <2>4, CtlFiles
  <1>5. CASE L!OtherJobs
    <2>1. /\ UNCHANGED <<tree, registry, journal, lock, service, begun, clerk, raced>>
          /\ troubles' \in Nat
      BY <1>1, <1>5 DEF FilesTyped, L!OtherJobs, L!Trouble
    <2>2. PICK e \in Entries : OthersDo(ledger, ledger', e) /\ touched' = touched \union {e}
      BY <1>5 DEF L!OtherJobs, OthersDo
    <2>3. ledger' \in L!Ledger
      BY <1>1, <2>2, OthersTyped DEF FilesTyped
    <2>4. FilesTyped'
      BY <1>1, <2>1, <2>2, <2>3 DEF FilesTyped
    <2> QED
      BY <2>1, <2>4, CtlFiles
  <1> QED
    BY <1>2, <1>3, <1>4, <1>5

\* Every step of a behaviour is one of these, or leaves the lifecycle as it was.
Serves(s) ==
  \/ \E action \in L!Actions : L!Preflight(s, action)
  \/ L!Apply(s) \/ L!Advance(s) \/ L!Recover(s) \/ L!Fail(s) \/ L!Crash(s)

\* Ctl is inductive.
LEMMA CtlPreserved ==
  ASSUME Ctl, "commit" \notin Failing, [MCNext]_everything
  PROVE  Ctl'
  <1>1. CASE UNCHANGED lifecycle
    <2>1. UNCHANGED <<tree, registry, ledger, journal, lock, service, clerk, begun, troubles,
                      raced, touched>>
      BY <1>1 DEF lifecycle
    <2>2. FilesTyped'
      BY <2>1 DEF Ctl, L!TypeOK, FilesTyped
    <2> QED
      BY <2>1, <2>2, CtlFiles
  <1>2. ASSUME NEW s \in Services, Serves(s)
        PROVE  Ctl'
    <2>1. CASE L!Advance(s)
      BY <2>1, CtlBegin, CtlCopy, CtlFill, CtlMoveOut, CtlMark, CtlInspect, CtlRewrite,
         CtlRewriteJob, CtlPublish, CtlProjectRegistry, CtlCheckRegistry, CtlWriteRegistry,
         CtlProjectLedger, CtlMergeLedger, CtlCommit, CtlReleaseReceipt, CtlUnmark, CtlForget
        DEF L!Advance
    <2>2. CASE L!Recover(s)
      BY <2>2, CtlBeginRecovery, CtlFinalize, CtlUndoClone, CtlRemove, CtlUndoMove,
         CtlRestoreMoved, CtlMoveBack, CtlAuthority, CtlUndoAdopt, CtlRestoreAdopted, CtlUndoLedger, CtlReadRegistry, CtlRestoreRegistry,
         CtlFinishUndo
        DEF L!Recover
    <2> QED
      BY <1>2, <2>1, <2>2, CtlPreflight, CtlApply, CtlFail, CtlCrash DEF Serves
  <1>3. CASE L!User \/ L!ReadToRegister \/ L!WriteRegistered \/ L!OtherJobs
    BY <1>3, CtlOthers
  <1> QED
    BY <1>1, <1>2, <1>3 DEF MCNext, everything, L!Next, Serves

\* The ledger that a behaviour starts with.
LEMMA LedgerOfOk ==
  ASSUME NEW entries \in SUBSET Entries
  PROVE  /\ L!LedgerOf(entries) \in L!Ledger /\ LedgerOk(L!LedgerOf(entries))
         /\ \A t \in Lifecycles : L!LedgerOf(entries).receipt[t] = NoReceipt
         /\ L!LedgerOf(entries).dirs = entries
  <1>1. L!LedgerOf(entries) \in L!Ledger
    BY DEF L!LedgerOf, L!Ledger, L!Owners
  <1>2. NoOwner \notin Lifecycles
    BY LifecycleAssumptions DEF L!ConstantsAssumption, L!OwnersAreDistinct
  <1>3. /\ \A e \in Entries : L!LedgerOf(entries).owner[e] = NoOwner
        /\ \A t \in Lifecycles : L!LedgerOf(entries).receipt[t] = NoReceipt
        /\ L!LedgerOf(entries).dirs = entries
    BY DEF L!LedgerOf
  <1> QED
    BY <1>1, <1>2, <1>3 DEF LedgerOk

\* At first nobody calls and there is no journal.
LEMMA CtlInit == MCInit => Ctl
  <1> SUFFICES ASSUME MCInit
               PROVE  Ctl
    OBVIOUS
  <1>1. /\ tree = [p \in L!Places |-> IF p = "source" THEN L!Project ELSE L!Nothing]
        /\ registry \in SUBSET {"source"} /\ journal = None /\ lock = Nobody
        /\ service = [s \in Services |-> L!NoCall] /\ clerk = L!NoClerk /\ begun = 0
        /\ troubles = 0 /\ raced = FALSE /\ touched = {}
    BY DEF MCInit, L!Init
  <1>2. PICK jobs \in SUBSET {"source"} : ledger = L!LedgerOf(jobs)
    BY DEF MCInit, L!Init
  <1>3. {"source"} \subseteq Entries
    BY LifecycleAssumptions DEF L!ConstantsAssumption
  <1>4. ledger \in L!Ledger
    BY <1>2, <1>3, LedgerOfOk
  <1>5. tree \in [L!Places -> L!Tree]
    BY <1>1, DataTyped
  <1>6. L!NoCall \in L!Call /\ L!NoCall.pc = "idle" /\ L!NoCall.plan = None
    BY DEF L!NoCall, L!Call, L!Original, L!Content
  <1>7. clerk \in L!Clerk
    BY <1>1 DEF L!NoClerk, L!Clerk
  <1>8. L!TypeOK
    BY <1>1, <1>3, <1>4, <1>5, <1>6, <1>7 DEF L!TypeOK
  <1>9. \A s \in Services : CallOk(service[s]) /\ service[s].pc = "idle"
    BY <1>1, <1>6 DEF CallOk, L!Forward
  <1> QED
    BY <1>8, <1>9 DEF Ctl

\* Whatever fails but the write of the committed record, every call is where its journal says.
THEOREM LifecycleCalls ==
  ASSUME "commit" \notin Failing
  PROVE  MCSpec => []Ctl
  <1>1. Ctl /\ [MCNext]_everything => Ctl'
    BY CtlPreserved
  <1> QED
    BY <1>1, CtlInit, PTL DEF MCSpec
-----------------------------------------------------------------------------
(* The ledger.                                                                  *)

\* What a step makes of its own call.
LEMMA AfterGoto ==
  ASSUME service \in [Services -> L!Call], NEW s \in Services, NEW pc, L!Goto(s, pc)
  PROVE  /\ service'[s].pc = pc /\ service'[s].failed = service[s].failed
         /\ service'[s].rec = service[s].rec /\ service'[s].plan = service[s].plan
         /\ service'[s].owned = service[s].owned /\ service'[s].seen = service[s].seen
  <1>1. service[s] \in L!Call /\ service'[s] = [service[s] EXCEPT !.pc = pc]
    BY DEF L!Goto
  <1> QED
    BY <1>1 DEF L!Call

\* The same of a step that remembers an error.
LEMMA AfterSkip ==
  ASSUME service \in [Services -> L!Call], NEW s \in Services, NEW pc, L!Skip(s, pc)
  PROVE  service'[s].pc = pc /\ service'[s].failed /\ service'[s].rec = service[s].rec
  <1>1. service[s] \in L!Call /\ service'[s] = [service[s] EXCEPT !.failed = TRUE, !.pc = pc]
    BY DEF L!Skip
  <1> QED
    BY <1>1 DEF L!Call

\* The same of an exception in apply().
LEMMA AfterUndo ==
  ASSUME service \in [Services -> L!Call], NEW s \in Services, L!Undo(s)
  PROVE  service'[s].pc = "undo" /\ service'[s].rec = service[s].rec
  <1>1. /\ service[s] \in L!Call
        /\ service'[s] = [service[s] EXCEPT !.pc = "undo", !.how = "failing"]
    BY DEF L!Undo
  <1> QED
    BY <1>1 DEF L!Call

\* The same of a write of the journal.
LEMMA AfterJournal ==
  ASSUME service \in [Services -> L!Call], NEW s \in Services, NEW rec, NEW pc,
         L!Journal(s, rec, pc)
  PROVE  /\ service'[s].pc = pc /\ service'[s].rec = rec /\ service'[s].plan = service[s].plan
         /\ service'[s].failed = service[s].failed /\ journal' = rec
  <1>1. service[s] \in L!Call /\ service'[s] = [service[s] EXCEPT !.rec = rec, !.pc = pc]
    BY DEF L!Journal
  <1> QED
    BY <1>1 DEF L!Call, L!Journal

\* The same of a return.
LEMMA AfterReturn ==
  ASSUME service \in [Services -> L!Call], NEW s \in Services, NEW said, L!Return(s, said)
  PROVE  service'[s].pc = "idle" /\ service'[s].plan = None
  <1>1. service'[s] = [L!NoCall EXCEPT !.said = said]
    BY DEF L!Return
  <1> QED
    BY <1>1 DEF L!NoCall

\* Everybody but the caller is idle and stays so.
LEMMA OnlyCaller ==
  ASSUME Ctl, NEW s \in Services, Serves(s)
  PROVE  \A d \in Services : d # s => service[d].pc = "idle" /\ service'[d] = service[d]
  <1>1. service \in [Services -> L!Call]
    BY DEF Ctl, L!TypeOK
  <1>2. \A d \in Services : d # s => service'[d] = service[d]
    <2>1. CASE L!Advance(s)
      BY <1>1, <2>1 DEF L!Advance, L!Begin, L!Copy, L!Fill, L!MoveOut, L!Mark, L!Inspect,
        L!Rewrite, L!RewriteJob, L!Publish, L!ProjectRegistry, L!CheckRegistry,
        L!WriteRegistry, L!ProjectLedger, L!MergeLedger, L!Commit, L!ReleaseReceipt, L!Unmark,
        L!Forget, L!Goto, L!Undo, L!Journal, L!Return
    <2>2. CASE L!Recover(s)
      BY <1>1, <2>2 DEF L!Recover, L!BeginRecovery, L!Finalize, L!UndoClone, L!RemoveSome,
        L!RemoveRest, L!UndoMove, L!RestoreMoved, L!MoveBack, L!Authority, L!UndoAdopt,
        L!RestoreProject, L!UndoAdoptJob, L!RestoreJob, L!Restore, L!UndoFile, L!UndoLedger, L!ReadRegistry, L!RestoreRegistry, L!FinishUndo,
        L!Goto, L!Skip, L!Return
    <2>3. CASE L!Fail(s) \/ L!Crash(s)
      BY <1>1, <2>3 DEF L!Fail, L!Crash, L!Skip, L!Return
    <2>4. CASE L!Apply(s) \/ \E action \in L!Actions : L!Preflight(s, action)
      BY <1>1, <2>4 DEF L!Apply, L!Preflight, L!Goto, L!Return
    <2> QED
      BY <2>1, <2>2, <2>3, <2>4 DEF Serves
  <1>3. lock = s \/ lock = Nobody
    <2>1. service[s].pc # "idle" => lock = s
      BY DEF Ctl
    <2>2. CASE service[s].pc = "idle"
      <3>1. CASE L!Advance(s)
        BY <2>2, <3>1 DEF L!At, L!Advance, L!Begin, L!Copy, L!Fill, L!MoveOut, L!Mark, L!Inspect,
          L!Rewrite, L!RewriteJob, L!Publish, L!ProjectRegistry, L!CheckRegistry,
          L!WriteRegistry, L!ProjectLedger, L!MergeLedger, L!Commit, L!ReleaseReceipt,
          L!Unmark, L!Forget
      <3>2. CASE L!Recover(s)
        BY <2>2, <3>2 DEF L!At, L!Idle, L!Undoing, L!Recover, L!BeginRecovery, L!Finalize,
          L!UndoClone, L!RemoveSome, L!RemoveRest, L!UndoMove, L!RestoreMoved, L!MoveBack,
          L!Authority, L!UndoAdopt, L!RestoreProject, L!UndoAdoptJob, L!RestoreJob, L!UndoLedger, L!ReadRegistry, L!RestoreRegistry,
          L!FinishUndo
      <3>3. CASE L!Fail(s) \/ L!Crash(s)
        BY <2>2, <3>3 DEF L!At, L!Fail, L!Crash, L!Forward, L!Cleanup, L!UndoTree
      <3>4. CASE L!Apply(s) \/ \E action \in L!Actions : L!Preflight(s, action)
        BY <3>4 DEF L!Apply, L!Preflight, L!Idle
      <3> QED
        BY <3>1, <3>2, <3>3, <3>4 DEF Serves
    <2> QED
      BY <2>1, <2>2
  <1>4. Nobody \notin Services
    BY LifecycleAssumptions DEF L!ConstantsAssumption
  <1>5. \A d \in Services : d # s => service[d].pc = "idle"
    BY <1>3, <1>4 DEF Ctl
  <1> QED
    BY <1>2, <1>5

\* What the ledger holds of the transaction, as far as its call has come.
ReceiptOk(c) ==
  /\ c.pc = "commit" => ledger.receipt[journal.txn] # NoReceipt
  /\ c.pc \in {"unmark", "forget"} => ledger.receipt[journal.txn] = NoReceipt
  /\ c.pc \in {"readRegistry", "restoreRegistry", "finish"} /\ ~c.failed =>
       ledger.receipt[journal.txn] = NoReceipt

\* Receipts are the transaction's that the journal names.
Receipts ==
  /\ LedgerOk(ledger)
  /\ \A t \in Lifecycles : ledger.receipt[t] # NoReceipt => journal # None /\ journal.txn = t
  /\ \A s \in Services : ReceiptOk(service[s])

\* A step of a transaction that does not touch the ledger.
LEMMA ReceiptsKept ==
  ASSUME Ctl, Receipts, NEW s \in Services, Serves(s), ledger' = ledger,
         \/ journal' = journal
         \/ journal # None /\ journal' # None /\ journal'.txn = journal.txn,
         ReceiptOk(service[s])'
  PROVE  Receipts'
  <1>1. \A d \in Services : d # s => service[d].pc = "idle" /\ service'[d] = service[d]
    BY OnlyCaller
  <1>2. \A d \in Services : ReceiptOk(service[d])'
    BY <1>1 DEF ReceiptOk
  <1> QED
    BY <1>2 DEF Receipts

\* The steps at which a receipt is due, or is not there any more.
LedgerSteps == {"commit", "unmark", "forget", "readRegistry", "restoreRegistry", "finish"}

\* A step that leaves the ledger alone and ends where the ledger says nothing.
LEMMA ReceiptsElsewhere ==
  ASSUME Ctl, Receipts, NEW s \in Services, Serves(s), ledger' = ledger,
         \/ journal' = journal
         \/ journal # None /\ journal' # None /\ journal'.txn = journal.txn,
         service'[s].pc \notin LedgerSteps
  PROVE  Receipts'
  <1>1. ReceiptOk(service[s])'
    BY DEF ReceiptOk, LedgerSteps
  <1> QED
    BY <1>1, ReceiptsKept

\* What a call is about once its transaction is under way.
LEMMA Underway ==
  ASSUME Ctl, NEW s \in Services, service[s].pc \notin {"idle", "begin"}
  PROVE  /\ service \in [Services -> L!Call] /\ journal # None /\ journal \in L!Record
         /\ L!Txn(s) = journal.txn /\ L!Txn(s) \in Lifecycles /\ ledger \in L!Ledger
         /\ service[s].rec.action = journal.action /\ service[s].rec.txn = journal.txn
         /\ service[s].rec.status = "committed" <=> journal.status = "committed"
  <1>1. /\ service \in [Services -> L!Call] /\ journal # None /\ journal \in L!Record
        /\ SameTransaction(service[s].rec) /\ ledger \in L!Ledger
    BY CtlTells DEF FilesTyped
  <1>2. journal.txn \in Lifecycles
    BY <1>1 DEF L!Record
  <1> QED
    BY <1>1, <1>2 DEF SameTransaction, L!Txn

\* The directory is brought about and the registry written before the ledger is.
LEMMA ReceiptsOfForward ==
  ASSUME Ctl, Receipts, NEW s \in Services,
         \/ L!Copy(s) \/ L!Fill(s) \/ L!MoveOut(s) \/ L!Mark(s) \/ L!Rewrite(s) \/ L!RewriteJob(s)
         \/ L!Publish(s) \/ L!CheckRegistry(s) \/ L!WriteRegistry(s)
  PROVE  Receipts'
  <1>1. /\ service \in [Services -> L!Call] /\ UNCHANGED <<ledger, journal>> /\ Serves(s)
    BY DEF Ctl, L!TypeOK, Serves, L!Advance, L!files, L!Copy, L!Fill, L!MoveOut, L!Mark,
      L!Rewrite, L!RewriteJob, L!Publish, L!CheckRegistry, L!WriteRegistry
  <1>2. \/ L!Undo(s)
        \/ \E pc \in {"fill", "publish", "mark", "inspect", "rewriteJob", "projectRegistry",
                      "writeRegistry", "projectLedger"} : L!Goto(s, pc)
    BY DEF L!Copy, L!Fill, L!MoveOut, L!Mark, L!Rewrite, L!RewriteJob, L!Publish,
      L!CheckRegistry, L!WriteRegistry
  <1>3. service'[s].pc \notin LedgerSteps
    BY <1>1, <1>2, AfterGoto, AfterUndo DEF LedgerSteps
  <1> QED
    BY <1>1, <1>3, ReceiptsElsewhere

\* The writes of the journal on the way to the commit.
LEMMA ReceiptsOfJournal ==
  ASSUME Ctl, Receipts, NEW s \in Services,
         L!Inspect(s) \/ L!ProjectRegistry(s) \/ L!ProjectLedger(s) \/ L!Commit(s)
  PROVE  Receipts'
  <1>1. service[s].pc \in L!Forward \ {"begin"} /\ service[s].pc \notin {"idle", "begin"}
    BY DEF L!Inspect, L!ProjectRegistry, L!ProjectLedger, L!Commit, L!At, L!Forward
  <1>2. /\ service \in [Services -> L!Call] /\ ledger' = ledger /\ Serves(s) /\ journal # None
    BY <1>1, Underway DEF Serves, L!Advance, L!Inspect, L!ProjectRegistry, L!ProjectLedger, L!Commit
  <1>3. PICK rec : rec = L!NextRecord(s)
    OBVIOUS
  <1>4. rec \in L!Record /\ rec.txn = journal.txn /\ rec # None
    BY <1>1, <1>3, NextTells, LifecycleAssumptions DEF L!ConstantsAssumption
  <1>5. \/ L!Undo(s) /\ UNCHANGED journal
        \/ \E pc \in {"rewrite", "checkRegistry", "merge", "release"} : L!Journal(s, rec, pc)
    BY <1>3 DEF L!Inspect, L!ProjectRegistry, L!ProjectLedger, L!Commit
  <1>6. service'[s].pc \notin LedgerSteps /\ (journal' = journal \/ journal' = rec)
    BY <1>2, <1>5, AfterUndo, AfterJournal DEF LedgerSteps
  <1> QED
    BY <1>2, <1>4, <1>6, ReceiptsElsewhere

\* Calls begin and end.
LEMMA ReceiptsOfCalls ==
  ASSUME Ctl, Receipts, NEW s \in Services,
         \/ \E action \in L!Actions : L!Preflight(s, action)
         \/ L!Apply(s) \/ L!BeginRecovery(s) \/ L!Finalize(s) \/ L!Crash(s)
  PROVE  Receipts'
  <1>1. /\ service \in [Services -> L!Call] /\ UNCHANGED <<ledger, journal>> /\ Serves(s)
    BY DEF Ctl, L!TypeOK, Serves, L!Recover, L!files, L!Preflight, L!Apply, L!BeginRecovery,
      L!Finalize, L!Crash
  <1>2. service'[s].pc \notin LedgerSteps
    <2>1. ASSUME NEW action \in L!Actions, L!Preflight(s, action)
          PROVE  service'[s].pc \notin LedgerSteps
      <3>1. PICK plan : service' = [service EXCEPT ![s].plan = plan]
        BY <2>1 DEF L!Preflight
      <3>2. service'[s].pc = "idle"
        <4>1. service[s] \in L!Call /\ service'[s] = [service[s] EXCEPT !.plan = plan]
          BY <1>1, <3>1
        <4>2. service[s].pc = "idle"
          BY <2>1 DEF L!Preflight, L!Idle, L!At
        <4> QED
          BY <4>1, <4>2 DEF L!Call
      <3> QED
        BY <3>2 DEF LedgerSteps
    <2>2. CASE L!Apply(s)
      <3>1. L!Goto(s, "begin") \/ L!Return(s, "refused")
        BY <2>2 DEF L!Apply
      <3> QED
        BY <1>1, <3>1, AfterGoto, AfterReturn DEF LedgerSteps
    <2>3. CASE L!BeginRecovery(s)
      <3>1. /\ service[s] \in L!Call
            /\ service'[s] = [service[s] EXCEPT !.pc = "undo", !.how = "recover", !.rec = journal]
        BY <1>1, <2>3 DEF L!BeginRecovery
      <3> QED
        BY <3>1 DEF L!Call, LedgerSteps
    <2>4. CASE L!Finalize(s)
      BY <1>1, <2>4, AfterGoto DEF L!Finalize, LedgerSteps
    <2>5. CASE L!Crash(s)
      BY <1>1, <2>5 DEF L!Crash, L!NoCall, LedgerSteps
    <2> QED
      BY <2>1, <2>2, <2>3, <2>4, <2>5
  <1> QED
    BY <1>1, <1>2, ReceiptsElsewhere

\* The directory is undone before the ledger is.
LEMMA ReceiptsOfUndo ==
  ASSUME Ctl, Receipts, NEW s \in Services,
         \/ L!UndoClone(s) \/ L!RemoveSome(s) \/ L!RemoveRest(s) \/ L!UndoMove(s)
         \/ L!RestoreMoved(s) \/ L!MoveBack(s) \/ L!Authority(s) \/ L!UndoAdopt(s)
         \/ L!RestoreProject(s) \/ L!UndoAdoptJob(s) \/ L!RestoreJob(s)
  PROVE  Receipts'
  <1>1. /\ service \in [Services -> L!Call] /\ UNCHANGED <<ledger, journal>> /\ Serves(s)
    BY DEF Ctl, L!TypeOK, Serves, L!Recover, L!files, L!UndoClone, L!RemoveSome, L!RemoveRest,
      L!UndoMove, L!RestoreMoved, L!MoveBack, L!Authority, L!UndoAdopt, L!RestoreProject,
      L!UndoAdoptJob, L!RestoreJob, L!UndoFile, L!Restore
  <1>2. service'[s].pc \notin LedgerSteps
    <2>1. CASE L!UndoClone(s)
      <3> DEFINE owned == L!CopyOf(s)
                 pc == IF L!CopyOf(s) = "nowhere" THEN "undoLedger" ELSE "removing"
      <3>1. pc \in {"undoLedger", "removing"}
        OBVIOUS
      <3>2. service[s] \in L!Call /\ service'[s] = [service[s] EXCEPT !.owned = owned, !.pc = pc]
        BY <1>1, <2>1 DEF L!UndoClone
      <3> HIDE DEF owned, pc
      <3> QED
        BY <3>1, <3>2 DEF L!Call, LedgerSteps
    <2>2. CASE L!RemoveSome(s)
      BY <2>2 DEF L!RemoveSome, L!At, LedgerSteps
    <2>3. CASE L!UndoMove(s)
      <3>1. \/ L!Goto(s, "authority") \/ L!Skip(s, "undoLedger")
            \/ service'[s].pc \in {"restore", "back"}
        BY <2>3, UndoMoveTells
      <3>2. CASE L!Skip(s, "undoLedger")
        BY <1>1, <3>2, AfterSkip DEF LedgerSteps
      <3>3. CASE L!Goto(s, "authority")
        BY <1>1, <3>3, AfterGoto DEF LedgerSteps
      <3> QED
        BY <3>1, <3>2, <3>3 DEF LedgerSteps
    <2>4. CASE \/ L!RemoveRest(s) \/ L!RestoreMoved(s) \/ L!MoveBack(s) \/ L!Authority(s)
               \/ L!UndoAdopt(s) \/ L!RestoreProject(s) \/ L!UndoAdoptJob(s) \/ L!RestoreJob(s)
      <3>1. \/ \E pc \in {"undo", "back", "authority", "undoLedger", "restoreProject", "undoJob",
                         "restoreJob"} : L!Goto(s, pc)
            \/ L!Skip(s, "undoLedger")
        BY <2>4 DEF L!RemoveRest, L!RestoreMoved, L!MoveBack, L!Authority, L!UndoAdopt,
          L!RestoreProject, L!UndoAdoptJob, L!RestoreJob, L!UndoFile, L!Restore
      <3>2. CASE L!Skip(s, "undoLedger")
        BY <1>1, <3>2, AfterSkip DEF LedgerSteps
      <3>3. ASSUME NEW pc \in {"undo", "back", "authority", "undoLedger", "restoreProject",
                              "undoJob", "restoreJob"},
                   L!Goto(s, pc)
            PROVE  service'[s].pc \notin LedgerSteps
        BY <1>1, <3>3, AfterGoto DEF LedgerSteps
      <3> QED
        BY <3>1, <3>2, <3>3
    <2> QED
      BY <2>1, <2>2, <2>3, <2>4
  <1> QED
    BY <1>1, <1>2, ReceiptsElsewhere

\* The steps after the ledger is undone keep what that step left.
LEMMA ReceiptsOfRest ==
  ASSUME Ctl, Receipts, NEW s \in Services,
         L!ReadRegistry(s) \/ L!RestoreRegistry(s) \/ L!FinishUndo(s) \/ L!Unmark(s)
  PROVE  Receipts'
  <1>1. /\ service \in [Services -> L!Call] /\ UNCHANGED <<ledger, journal>> /\ Serves(s)
        /\ ReceiptOk(service[s])
    BY DEF Ctl, L!TypeOK, Serves, L!Recover, L!Advance, L!files, L!ReadRegistry,
      L!RestoreRegistry, L!FinishUndo, L!Unmark, Receipts
  <1>2. ReceiptOk(service'[s])
    <2>1. CASE L!ReadRegistry(s)
      <3>1. /\ service[s] \in L!Call /\ service[s].pc = "readRegistry"
            /\ service'[s] = [service[s] EXCEPT !.seen = registry, !.pc = "restoreRegistry"]
        BY <1>1, <2>1 DEF L!ReadRegistry, L!At
      <3>2. service'[s].pc = "restoreRegistry" /\ service'[s].failed = service[s].failed
        BY <3>1 DEF L!Call
      <3> QED
        BY <1>1, <3>1, <3>2 DEF ReceiptOk
    <2>2. CASE L!RestoreRegistry(s) \/ L!Unmark(s)
      <3>1. \/ service[s].pc = "restoreRegistry" /\ L!Goto(s, "finish")
            \/ service[s].pc = "unmark" /\ L!Goto(s, "forget")
        BY <2>2 DEF L!RestoreRegistry, L!Unmark, L!At
      <3> QED
        BY <1>1, <3>1, AfterGoto DEF ReceiptOk
    <2>3. CASE L!FinishUndo(s)
      <3>1. /\ service[s].pc = "finish"
            /\ IF service[s].failed THEN L!Return(s, "partial") ELSE L!Goto(s, "forget")
        BY <2>3 DEF L!FinishUndo, L!At
      <3> QED
        BY <1>1, <3>1, AfterGoto, AfterReturn DEF ReceiptOk
    <2> QED
      BY <2>1, <2>2, <2>3
  <1>3. ReceiptOk(service[s])'
    BY <1>1, <1>2 DEF ReceiptOk
  <1> QED
    BY <1>1, <1>3, ReceiptsKept

\* Nobody has a receipt while there is no journal, and one transaction's while there is.
LEMMA OneReceipt ==
  ASSUME Receipts
  PROVE  /\ journal = None => \A t \in Lifecycles : ledger.receipt[t] = NoReceipt
         /\ journal # None => OnlyReceipt(ledger, journal.txn)
  BY DEF Receipts, OnlyReceipt

\* A transaction begins with no receipt.
LEMMA ReceiptsOfBegin ==
  ASSUME Ctl, Receipts, NEW s \in Services, L!Begin(s)
  PROVE  Receipts'
  <1>1. /\ service \in [Services -> L!Call] /\ ledger' = ledger /\ Serves(s) /\ journal = None
    BY DEF Ctl, CallOk, L!TypeOK, Serves, L!Advance, L!Begin, L!At
  <1>2. \A t \in Lifecycles : ledger.receipt[t] = NoReceipt
    BY <1>1, OneReceipt
  <1>3. service'[s].pc \in {"copy", "out", "inspect", "idle"}
    BY <1>1, BeginTells, AfterJournal, AfterReturn
  <1>4. \A d \in Services : d # s => service'[d].pc = "idle"
    BY <1>1, OnlyCaller
  <1>5. \A d \in Services : ReceiptOk(service[d])'
    BY <1>3, <1>4 DEF ReceiptOk
  <1> QED
    BY <1>1, <1>2, <1>5 DEF Receipts

\* A merge leaves the receipt of its own transaction.
LEMMA ReceiptsOfMerge ==
  ASSUME Ctl, Receipts, NEW s \in Services, L!MergeLedger(s)
  PROVE  Receipts'
  <1>1. service[s].pc = "merge" /\ Serves(s) /\ UNCHANGED journal
    BY DEF L!MergeLedger, L!At, Serves, L!Advance
  <1>2. /\ service \in [Services -> L!Call] /\ journal # None /\ L!Txn(s) = journal.txn
        /\ L!Txn(s) \in Lifecycles /\ ledger \in L!Ledger
    BY <1>1, Underway
  <1>3. service[s].plan \in L!Plan
    BY <1>1, CtlTells DEF L!Forward
  <1>4. PICK base, projected :
          base = service[s].plan.ledger.dirs /\ projected = L!ProjectedJobs(service[s].plan)
    OBVIOUS
  <1>5. CASE L!Mergeable(ledger, base, projected)
    <2>1. ledger' = L!Merge(ledger, L!Txn(s), base, projected) /\ L!Goto(s, "commit")
      BY <1>4, <1>5 DEF L!MergeLedger
    <2>2. base \in SUBSET Entries /\ projected \in SUBSET Entries
      BY <1>3, <1>4, ProjectedTyped
    <2>3. Merged(ledger, L!Txn(s), base, projected, ledger')
      BY <1>2, <2>1, <2>2, MergeTyped
    <2>4. OnlyReceipt(ledger, L!Txn(s)) /\ LedgerOk(ledger)
      BY <1>2, OneReceipt DEF Receipts
    <2>5. LedgerOk(ledger')
      BY <1>2, <2>1, <2>2, <2>4, MergeOk
    <2>6. \A t \in Lifecycles : ledger'.receipt[t] # NoReceipt => t = journal.txn
      BY <1>2, <2>3, <2>4 DEF Merged, OnlyReceipt
    <2>7. service'[s].pc = "commit" /\ ledger'.receipt[journal.txn] # NoReceipt
      BY <1>2, <2>1, <2>3, AfterGoto DEF Merged
    <2>8. \A d \in Services : d # s => service'[d].pc = "idle"
      BY <1>1, OnlyCaller
    <2>9. \A d \in Services : ReceiptOk(service[d])'
      BY <1>1, <2>7, <2>8 DEF ReceiptOk
    <2>10. LedgerOk(ledger)'
      BY <2>5 DEF LedgerOk
    <2> QED
      BY <1>1, <1>2, <2>6, <2>9, <2>10 DEF Receipts
  <1>6. CASE ~L!Mergeable(ledger, base, projected)
    <2>1. L!Undo(s) /\ UNCHANGED ledger
      BY <1>4, <1>6 DEF L!MergeLedger
    <2>2. service'[s].pc \notin LedgerSteps
      BY <1>2, <2>1, AfterUndo DEF LedgerSteps
    <2> QED
      BY <1>1, <2>1, <2>2, ReceiptsElsewhere
  <1> QED
    BY <1>5, <1>6

\* A step after which the transaction has no receipt.
LEMMA ReceiptsGone ==
  ASSUME Ctl, Receipts, NEW s \in Services, Serves(s),
         service[s].pc \notin {"idle", "begin"}, LedgerOk(ledger'),
         ledger'.receipt[L!Txn(s)] = NoReceipt,
         \A u \in Lifecycles : u # L!Txn(s) => ledger'.receipt[u] = ledger.receipt[u],
         service'[s].pc # "commit",
         journal' = journal \/ service'[s].pc = "idle"
  PROVE  Receipts'
  <1>1. journal # None /\ L!Txn(s) = journal.txn /\ L!Txn(s) \in Lifecycles
    BY Underway
  <1>2. OnlyReceipt(ledger, journal.txn)
    BY <1>1, OneReceipt
  <1>3. \A t \in Lifecycles : ledger'.receipt[t] = NoReceipt
    BY <1>1, <1>2 DEF OnlyReceipt
  <1>4. \A d \in Services : d # s => service'[d].pc = "idle"
    BY OnlyCaller
  <1>5. ReceiptOk(service[s])'
    BY <1>1, <1>3 DEF ReceiptOk
  <1>6. \A d \in Services : ReceiptOk(service[d])'
    BY <1>4, <1>5 DEF ReceiptOk
  <1>7. LedgerOk(ledger)'
    BY DEF LedgerOk
  <1> QED
    BY <1>3, <1>6, <1>7 DEF Receipts

\* Release and rollback leave no receipt, and the journal goes after them only.
LEMMA ReceiptsOfEnd ==
  ASSUME Ctl, Receipts, NEW s \in Services,
         L!ReleaseReceipt(s) \/ L!UndoLedger(s) \/ L!Forget(s)
  PROVE  Receipts'
  <1>1. /\ service[s].pc \in {"release", "undoLedger", "forget"} /\ Serves(s)
        /\ service[s].pc \notin {"idle", "begin"}
    BY DEF L!ReleaseReceipt, L!UndoLedger, L!Forget, L!At, Serves, L!Advance, L!Recover
  <1>2. /\ service \in [Services -> L!Call] /\ journal # None /\ L!Txn(s) = journal.txn
        /\ L!Txn(s) \in Lifecycles /\ ledger \in L!Ledger
    BY <1>1, Underway
  <1>3. OnlyReceipt(ledger, L!Txn(s)) /\ LedgerOk(ledger)
    BY <1>2, OneReceipt DEF Receipts
  <1>4. CASE L!ReleaseReceipt(s)
    <2>1. /\ ledger' = L!Release(ledger, L!Txn(s)) /\ UNCHANGED journal /\ L!Goto(s, "unmark")
      BY <1>4 DEF L!ReleaseReceipt
    <2>2. /\ LedgerOk(ledger') /\ ledger'.receipt[L!Txn(s)] = NoReceipt
          /\ \A u \in Lifecycles : u # L!Txn(s) => ledger'.receipt[u] = ledger.receipt[u]
      BY <1>2, <1>3, <2>1, ReleaseTyped DEF Released
    <2> QED
      BY <1>1, <1>2, <2>1, <2>2, AfterGoto, ReceiptsGone
  <1>5. CASE L!UndoLedger(s)
    <2>1. /\ ledger' = L!Rollback(ledger, L!Txn(s)) /\ UNCHANGED journal /\ L!Goto(s, "readRegistry")
      BY <1>5 DEF L!UndoLedger
    <2>2. RolledBack(ledger, L!Txn(s), ledger') /\ LedgerOk(ledger')
      BY <1>2, <1>3, <2>1, RollbackTyped, RollbackOk
    <2>3. /\ ledger'.receipt[L!Txn(s)] = NoReceipt
          /\ \A u \in Lifecycles : u # L!Txn(s) => ledger'.receipt[u] = ledger.receipt[u]
      BY <2>2 DEF RolledBack
    <2> QED
      BY <1>1, <1>2, <2>1, <2>2, <2>3, AfterGoto, ReceiptsGone
  <1>6. CASE L!Forget(s)
    <2>1. ledger' = ledger /\ service[s].pc = "forget" /\ \E said : L!Return(s, said)
      BY <1>6 DEF L!Forget, L!At
    <2>2. ledger'.receipt[L!Txn(s)] = NoReceipt
      BY <1>2, <2>1 DEF Receipts, ReceiptOk
    <2>3. service'[s].pc = "idle"
      BY <1>2, <2>1, AfterReturn
    <2>4. LedgerOk(ledger')
      BY <1>3, <2>1
    <2> QED
      BY <1>1, <2>1, <2>2, <2>3, <2>4, ReceiptsGone
  <1> QED
    BY <1>4, <1>5, <1>6

\* A step that fails leaves ledger and receipts.
LEMMA ReceiptsOfFail ==
  ASSUME Ctl, Receipts, "commit" \notin Failing, NEW s \in Services, L!Fail(s)
  PROVE  Receipts'
  <1>1. /\ service \in [Services -> L!Call] /\ UNCHANGED <<ledger, journal>> /\ Serves(s)
    BY FailTells DEF Ctl, L!TypeOK, Serves
  <1>2. ASSUME NEW said, L!Return(s, said)
        PROVE  ReceiptOk(service'[s])
    BY <1>1, <1>2, AfterReturn DEF ReceiptOk
  <1>3. ASSUME NEW rec,
               service' = [service EXCEPT ![s].rec = rec, ![s].pc = "undo", ![s].how = "failing"]
        PROVE  ReceiptOk(service'[s])
    <2>1. /\ service[s] \in L!Call
          /\ service'[s] = [service[s] EXCEPT !.rec = rec, !.pc = "undo", !.how = "failing"]
      BY <1>1, <1>3
    <2> QED
      BY <2>1 DEF L!Call, ReceiptOk
  <1>4. ASSUME NEW pc \in {"undoLedger", "readRegistry", "finish"}, L!Skip(s, pc)
        PROVE  ReceiptOk(service'[s])
    BY <1>1, <1>4, AfterSkip DEF ReceiptOk
  <1>5. ReceiptOk(service[s])'
    <2>1. ReceiptOk(service'[s])
      BY <1>2, <1>3, <1>4, FailTells
    <2> QED
      BY <1>1, <2>1 DEF ReceiptOk
  <1> QED
    BY <1>1, <1>5, ReceiptsKept

\* What others do to the ledger.
LEMMA ReceiptsOfOthers ==
  ASSUME Ctl, Receipts, L!OtherJobs
  PROVE  Receipts'
  <1>1. UNCHANGED <<service, journal>> /\ ledger \in L!Ledger /\ LedgerOk(ledger)
    BY DEF L!OtherJobs, Ctl, L!TypeOK, Receipts
  <1>2. PICK e \in Entries : OthersDo(ledger, ledger', e)
    BY DEF L!OtherJobs, OthersDo
  <1>3. PICK m : m = ledger'
    OBVIOUS
  <1>4. LedgerOk(m) /\ \A t \in Lifecycles : m.receipt[t] = NoReceipt <=> ledger.receipt[t] = NoReceipt
    BY <1>1, <1>2, <1>3, OthersTyped, OthersOk
  <1>5. LedgerOk(ledger)'
    BY <1>3, <1>4 DEF LedgerOk
  <1>6. \A d \in Services : ReceiptOk(service[d])'
    <2>1. ASSUME NEW d \in Services
          PROVE  ReceiptOk(service[d])'
      <3>1. ReceiptOk(service[d])
        BY DEF Receipts
      <3>2. service[d].pc \notin {"idle", "begin"} => journal.txn \in Lifecycles
        BY Underway
      <3> QED
        BY <1>1, <1>3, <1>4, <3>1, <3>2 DEF ReceiptOk
    <2> QED
      BY <2>1
  <1> QED
    BY <1>1, <1>3, <1>4, <1>5, <1>6 DEF Receipts

\* Receipts is inductive.
LEMMA ReceiptsPreserved ==
  ASSUME Ctl, Receipts, "commit" \notin Failing, [MCNext]_everything
  PROVE  Receipts'
  <1>1. CASE UNCHANGED <<service, ledger, journal>>
    <2>1. \A d \in Services : ReceiptOk(service[d])'
      BY <1>1 DEF Receipts, ReceiptOk
    <2>2. LedgerOk(ledger)'
      BY <1>1 DEF Receipts, LedgerOk
    <2> QED
      BY <1>1, <2>1, <2>2 DEF Receipts
  <1>2. ASSUME NEW s \in Services, Serves(s)
        PROVE  Receipts'
    <2>1. CASE L!Advance(s)
      BY <2>1, ReceiptsOfBegin, ReceiptsOfForward, ReceiptsOfJournal, ReceiptsOfMerge,
         ReceiptsOfEnd, ReceiptsOfRest DEF L!Advance
    <2>2. CASE L!Recover(s)
      BY <2>2, ReceiptsOfCalls, ReceiptsOfUndo, ReceiptsOfRest, ReceiptsOfEnd DEF L!Recover
    <2> QED
      BY <1>2, <2>1, <2>2, ReceiptsOfCalls, ReceiptsOfFail DEF Serves
  <1>3. CASE L!User \/ L!ReadToRegister \/ L!WriteRegistered
    BY <1>1, <1>3 DEF L!User, L!ReadToRegister, L!WriteRegistered, L!files
  <1> QED
    BY <1>1, <1>2, <1>3, ReceiptsOfOthers DEF MCNext, everything, lifecycle, L!Next, Serves

\* At first there are no receipts.
LEMMA ReceiptsInit == MCInit => Receipts
  <1> SUFFICES ASSUME MCInit
               PROVE  Receipts
    OBVIOUS
  <1>1. service = [s \in Services |-> L!NoCall] /\ journal = None
    BY DEF MCInit, L!Init
  <1>2. PICK jobs \in SUBSET {"source"} : ledger = L!LedgerOf(jobs)
    BY DEF MCInit, L!Init
  <1>3. jobs \in SUBSET Entries
    BY LifecycleAssumptions DEF L!ConstantsAssumption
  <1>4. LedgerOk(ledger) /\ \A t \in Lifecycles : ledger.receipt[t] = NoReceipt
    BY <1>2, <1>3, LedgerOfOk
  <1>5. \A s \in Services : ReceiptOk(service[s])
    BY <1>1 DEF ReceiptOk, L!NoCall
  <1> QED
    BY <1>4, <1>5 DEF Receipts

\* LedgerAuthority, whatever fails but the write of the committed record: the receipt and the
\* ownership of what it added come and go in one write of the ledger, and the journal goes only
\* after them (merge_projection, rollback_projection, release_projection_receipt,
\* _cleanup_committed_journal).
THEOREM AuthorityEndsWithItsTransaction ==
  ASSUME "commit" \notin Failing
  PROVE  MCSpec => []LedgerAuthority
  <1>1. Ctl /\ Receipts /\ [MCNext]_everything => Ctl' /\ Receipts'
    BY CtlPreserved, ReceiptsPreserved
  <1>2. Receipts => LedgerAuthority
    BY DEF Receipts, LedgerOk, LedgerAuthority, L!LedgerAuthority, L!WellFormed
  <1> QED
    BY <1>1, <1>2, CtlInit, ReceiptsInit, PTL DEF MCSpec
-----------------------------------------------------------------------------
(* The directory.                                                               *)

\* Where the tree of a move is.
AtSource ==
  /\ tree["source"].kind = "whole" /\ tree["stage"].kind = "none"
  /\ tree["destination"].kind # "whole" /\ tree["destination"].mark = NoOwner
AtStage ==
  /\ tree["source"].kind # "whole" /\ tree["source"].mark = NoOwner
  /\ tree["stage"].kind = "whole"
  /\ tree["destination"].kind # "whole" /\ tree["destination"].mark = NoOwner
AtDestination ==
  /\ tree["source"].kind # "whole" /\ tree["source"].mark = NoOwner
  /\ tree["stage"].kind = "none" /\ tree["destination"].kind = "whole"

\* A tree with the mark of its transaction, where it was to be brought.
Arrived ==
  /\ tree["stage"].kind = "none" /\ tree["destination"].kind = "whole"
  /\ tree["destination"].mark = journal.txn

\* What the journal says of the directory.
Marks == \A p \in L!Places :
  /\ tree[p].mark # NoOwner => journal # None /\ tree[p].mark = journal.txn
  /\ tree[p].kind = "none" => tree[p].mark = NoOwner
InPlace == journal = None \/ journal.action = "adopt" =>
  tree["stage"].kind = "none" /\ \A p \in L!Places : tree[p].mark = NoOwner
Present ==
  /\ journal = None => tree["source"].kind = "whole" \/ tree["destination"].kind = "whole"
  /\ journal # None /\ journal.action = "adopt" => tree["source"].kind = "whole"
Cloned == journal # None /\ journal.action = "clone" =>
  /\ tree["source"].kind = "whole" /\ tree["source"].mark = NoOwner
  /\ journal.status = "committed" =>
       tree["stage"].kind = "none" /\ tree["destination"].kind = "whole"
  /\ journal.status # "committed" /\ tree["destination"].kind = "whole" =>
       tree["destination"].mark = journal.txn
Moved == journal # None /\ journal.action = "move" =>
  \/ journal.status = "committed" /\ AtDestination
  \/ /\ journal.status # "committed"
     /\ \/ AtSource
        \/ AtStage
        \/ AtDestination /\ tree["destination"].mark = journal.txn
TreeInv == Marks /\ InPlace /\ Present /\ Cloned /\ Moved

\* What a call knows of the directory.
Delivered == {"projectRegistry", "checkRegistry", "writeRegistry", "projectLedger", "merge", "commit"}
ForwardTree(c, pc) ==
  /\ pc = "begin" => tree["source"].kind = "whole"
  /\ pc = "out" => AtSource
  /\ pc = "mark" => AtStage
  /\ pc \in {"inspect", "rewrite"} /\ journal.action = "move" =>
       AtStage /\ tree["stage"].mark = journal.txn
  /\ pc = "rewrite" /\ journal.action = "move" => tree["stage"].project = c.plan.project
  /\ pc = "publish" =>
       /\ tree["stage"].kind = "whole" /\ tree["stage"].mark = journal.txn
       /\ journal.action = "move" => AtStage
  /\ pc \in Delivered /\ journal.action # "adopt" => Arrived
UndoneTree ==
  /\ journal.action = "move" => AtSource
  /\ journal.action = "clone" => tree["stage"].kind = "none" /\ tree["destination"].mark = NoOwner
BackwardTree(c, pc) ==
  /\ pc \in {"restore", "back"} =>
       \/ c.owned = "stage" /\ AtStage
       \/ c.owned = "destination" /\ AtDestination
  /\ pc = "authority" => AtSource
  /\ pc \in L!UndoRest /\ ~c.failed => UndoneTree
  /\ pc = "forget" =>
       /\ \A p \in L!Places : tree[p].mark = NoOwner
       /\ journal.action = "clone" => tree["stage"].kind = "none"
       /\ journal.action = "move" /\ journal.status # "committed" => AtSource
TreeStep(c) == ForwardTree(c, c.pc) /\ BackwardTree(c, c.pc)

Trees == TreeInv /\ \A s \in Services : TreeStep(service[s])

\* Everybody but the caller is idle, and knows nothing.
LEMMA TreesOfCall ==
  ASSUME Ctl, Trees, NEW s \in Services, Serves(s), TreeInv',
         ForwardTree(service[s], service[s].pc)', BackwardTree(service[s], service[s].pc)'
  PROVE  Trees'
  <1>1. \A d \in Services : d # s => service'[d].pc = "idle"
    BY OnlyCaller
  <1>2. \A d \in Services : d # s => TreeStep(service[d])'
    BY <1>1 DEF TreeStep, ForwardTree, BackwardTree, Delivered, L!UndoRest
  <1> QED
    BY <1>2 DEF Trees, TreeStep

\* What holds of the directory while a transaction is under way.
LEMMA TreeTells ==
  ASSUME Ctl, Trees, NEW s \in Services, service[s].pc \notin {"idle", "begin"}
  PROVE  /\ journal # None /\ journal \in L!Record /\ journal.txn # NoOwner
         /\ journal.action \in {"clone", "move", "adopt"}
         /\ journal.txn \in Lifecycles /\ L!Txn(s) = journal.txn /\ service[s].rec.action = journal.action
         /\ service \in [Services -> L!Call] /\ service[s].rec \in L!Record
         /\ tree \in [L!Places -> L!Tree]
         /\ tree["source"] \in L!Tree /\ tree["stage"] \in L!Tree /\ tree["destination"] \in L!Tree
         /\ TreeInv /\ StatusOk(service[s], service[s].pc) /\ ActionOk(service[s], service[s].pc)
         /\ ForwardTree(service[s], service[s].pc) /\ BackwardTree(service[s], service[s].pc)
         /\ service[s].pc \in L!Forward =>
              service[s].plan \in L!Plan /\ service[s].plan.action = journal.action
  <1>1. /\ journal # None /\ journal \in L!Record /\ L!Txn(s) = journal.txn
        /\ service[s].rec.action = journal.action /\ service \in [Services -> L!Call]
        /\ journal.txn \in Lifecycles
    BY Underway
  <1>2. journal.action \in {"clone", "move", "adopt"} /\ journal.txn # NoOwner
    BY <1>1, LifecycleAssumptions
      DEF L!Record, L!Actions, L!ConstantsAssumption, L!OwnersAreDistinct
  <1>3. /\ StatusOk(service[s], service[s].pc) /\ ActionOk(service[s], service[s].pc)
        /\ service[s].rec \in L!Record /\ FilesTyped
        /\ service[s].pc \in L!Forward => service[s].plan \in L!Plan
    BY CtlTells
  <1>4. /\ tree \in [L!Places -> L!Tree] /\ tree["source"] \in L!Tree /\ tree["stage"] \in L!Tree
        /\ tree["destination"] \in L!Tree
    BY <1>3 DEF FilesTyped, L!Places
  <1>5. service[s].pc \in L!Forward => service[s].plan.action = journal.action
    BY <1>3 DEF StatusOk
  <1>6. /\ TreeInv /\ ForwardTree(service[s], service[s].pc) /\ BackwardTree(service[s], service[s].pc)
    BY DEF Trees, TreeStep
  <1> QED
    BY <1>1, <1>2, <1>3, <1>4, <1>5, <1>6

\* A step to a place in the code where nothing is known of the directory.
Blind == {"idle", "copy", "fill", "rewriteJob", "undo", "removing", "restoreProject", "undoJob",
          "restoreJob", "release", "unmark"}

\* At these steps a call knows nothing of the directory.
LEMMA BlindTree ==
  ASSUME NEW s \in Services, service'[s].pc \in Blind
  PROVE  ForwardTree(service[s], service[s].pc)' /\ BackwardTree(service[s], service[s].pc)'
  BY DEF Blind, ForwardTree, BackwardTree, Delivered, L!UndoRest

\* A tree that another takes the place of.
LEMMA TreeAt ==
  ASSUME tree \in [L!Places -> L!Tree], NEW place \in L!Places, NEW x,
         tree' = [tree EXCEPT ![place] = x]
  PROVE  tree'[place] = x /\ \A p \in L!Places : p # place => tree'[p] = tree[p]
  OBVIOUS

\* What a rename makes of the three places.
LEMMA TreeRenamed ==
  ASSUME tree \in [L!Places -> L!Tree], NEW from \in L!Places, NEW to \in L!Places, from # to,
         tree' = L!Renamed(from, to)
  PROVE  /\ tree'[to] = tree[from] /\ tree'[from] = L!Nothing
         /\ \A p \in L!Places : p \notin {from, to} => tree'[p] = tree[p]
  BY DEF L!Renamed

\* A step that leaves directory and journal as they were.
LEMMA TreesQuiet ==
  ASSUME Ctl, Trees, NEW s \in Services, Serves(s), UNCHANGED <<tree, journal>>,
         ForwardTree(service[s], service[s].pc)', BackwardTree(service[s], service[s].pc)'
  PROVE  Trees'
  <1>1. TreeInv'
    BY DEF Trees, TreeInv, Marks, InPlace, Present, Cloned, Moved, AtSource, AtStage, AtDestination
  <1> QED
    BY <1>1, TreesOfCall

\* A clone makes its stage where nothing was.
LEMMA TreesOfCopy ==
  ASSUME Ctl, Trees, NEW s \in Services, L!Copy(s)
  PROVE  Trees'
  <1>1. /\ service[s].pc = "copy" /\ L!Goto(s, "fill") /\ journal' = journal /\ Serves(s)
        /\ tree' = [tree EXCEPT !["stage"] = L!Partial(NoOwner)]
    BY DEF L!Copy, L!At, Serves, L!Advance
  <1>2. /\ journal # None /\ tree \in [L!Places -> L!Tree] /\ TreeInv
        /\ journal.action = "clone" /\ journal.status # "committed"
        /\ service \in [Services -> L!Call]
    BY <1>1, TreeTells DEF ActionOk, StatusOk
  <1>3. /\ tree'["stage"].kind = "partial" /\ tree'["stage"].mark = NoOwner
        /\ tree'["source"] = tree["source"] /\ tree'["destination"] = tree["destination"]
    BY <1>1, <1>2, DataTyped, TreeAt DEF L!Places
  <1>4. TreeInv'
    BY <1>1, <1>2, <1>3 DEF TreeInv, Marks, InPlace, Present, Cloned, Moved, L!Places
  <1>5. service'[s].pc \in Blind
    BY <1>1, <1>2, AfterGoto DEF Blind
  <1> QED
    BY <1>1, <1>4, <1>5, BlindTree, TreesOfCall

\* The stage is whole and marked, or is undone.
LEMMA TreesOfFill ==
  ASSUME Ctl, Trees, NEW s \in Services, L!Fill(s)
  PROVE  Trees'
  <1>1. service[s].pc = "fill" /\ journal' = journal /\ Serves(s)
    BY DEF L!Fill, L!At, Serves, L!Advance
  <1>2. /\ journal # None /\ tree \in [L!Places -> L!Tree] /\ TreeInv
        /\ journal.action = "clone" /\ journal.status # "committed"
        /\ service \in [Services -> L!Call] /\ L!Txn(s) = journal.txn
    BY <1>1, TreeTells DEF ActionOk, StatusOk
  <1>3. CASE L!AsPlanned("source", service[s].plan)
    <2>1. PICK t : t = [kind |-> "whole", mark |-> L!Txn(s),
                        project |-> L!Rewritten(service[s].plan.project, L!Txn(s)),
                        job |-> L!Rewritten(service[s].plan.job, L!Txn(s))]
      OBVIOUS
    <2>2. tree' = [tree EXCEPT !["stage"] = t] /\ L!Goto(s, "publish")
      BY <1>3, <2>1 DEF L!Fill
    <2>3. /\ tree'["stage"].kind = "whole" /\ tree'["stage"].mark = journal.txn
          /\ tree'["source"] = tree["source"] /\ tree'["destination"] = tree["destination"]
      BY <1>2, <2>1, <2>2, TreeAt DEF L!Places
    <2>4. TreeInv'
      BY <1>1, <1>2, <2>3 DEF TreeInv, Marks, InPlace, Present, Cloned, Moved, L!Places
    <2>5. service'[s].pc = "publish"
      BY <1>2, <2>2, AfterGoto
    <2>6. ForwardTree(service[s], service[s].pc)' /\ BackwardTree(service[s], service[s].pc)'
      BY <1>1, <1>2, <2>3, <2>5 DEF ForwardTree, BackwardTree, Delivered, L!UndoRest
    <2> QED
      BY <1>1, <2>4, <2>6, TreesOfCall
  <1>4. CASE ~L!AsPlanned("source", service[s].plan)
    <2>1. L!Undo(s) /\ UNCHANGED tree
      BY <1>4 DEF L!Fill
    <2>2. service'[s].pc \in Blind
      BY <1>2, <2>1, AfterUndo DEF Blind
    <2> QED
      BY <1>1, <2>1, <2>2, BlindTree, TreesQuiet
  <1> QED
    BY <1>3, <1>4

\* The project leaves the source for the stage.
LEMMA TreesOfMoveOut ==
  ASSUME Ctl, Trees, NEW s \in Services, L!MoveOut(s)
  PROVE  Trees'
  <1>1. /\ service[s].pc = "out" /\ L!Goto(s, "mark") /\ journal' = journal /\ Serves(s)
        /\ tree' = L!Renamed("source", "stage")
    BY DEF L!MoveOut, L!At, Serves, L!Advance
  <1>2. /\ journal # None /\ tree \in [L!Places -> L!Tree] /\ TreeInv
        /\ journal.action = "move" /\ journal.status # "committed" /\ AtSource
        /\ service \in [Services -> L!Call]
    BY <1>1, TreeTells DEF ActionOk, StatusOk, ForwardTree
  <1>3. /\ tree'["stage"] = tree["source"]
        /\ tree'["source"].kind = "none" /\ tree'["source"].mark = NoOwner
        /\ tree'["destination"] = tree["destination"]
    BY <1>1, <1>2, DataTyped, TreeRenamed DEF L!Places
  <1>4. AtStage'
    BY <1>2, <1>3 DEF AtSource, AtStage
  <1>5. TreeInv'
    BY <1>1, <1>2, <1>3, <1>4 DEF TreeInv, Marks, InPlace, Present, Cloned, Moved, L!Places
  <1>6. service'[s].pc = "mark"
    BY <1>1, <1>2, AfterGoto
  <1>7. ForwardTree(service[s], service[s].pc)' /\ BackwardTree(service[s], service[s].pc)'
    BY <1>4, <1>6 DEF ForwardTree, BackwardTree, Delivered, L!UndoRest
  <1> QED
    BY <1>1, <1>5, <1>7, TreesOfCall

\* The mark tells the transaction's directory.
LEMMA TreesOfMark ==
  ASSUME Ctl, Trees, NEW s \in Services, L!Mark(s)
  PROVE  Trees'
  <1>1. /\ service[s].pc = "mark" /\ L!Goto(s, "inspect") /\ journal' = journal /\ Serves(s)
        /\ tree' = [tree EXCEPT !["stage"] = [tree["stage"] EXCEPT !.mark = L!Txn(s)]]
    BY DEF L!Mark, L!At, Serves, L!Advance
  <1>2. /\ journal # None /\ tree \in [L!Places -> L!Tree] /\ TreeInv
        /\ journal.action = "move" /\ journal.status # "committed" /\ AtStage
        /\ service \in [Services -> L!Call] /\ L!Txn(s) = journal.txn /\ journal.txn \in Lifecycles
        /\ tree["stage"] \in L!Tree
    BY <1>1, TreeTells DEF ActionOk, StatusOk, ForwardTree
  <1>3. /\ tree'["stage"].kind = tree["stage"].kind /\ tree'["stage"].mark = journal.txn
        /\ tree'["source"] = tree["source"] /\ tree'["destination"] = tree["destination"]
    BY <1>1, <1>2, TreeEdit, TreeAt DEF L!Places
  <1>4. AtStage'
    BY <1>2, <1>3 DEF AtStage
  <1>5. TreeInv'
    BY <1>1, <1>2, <1>3, <1>4
      DEF TreeInv, Marks, InPlace, Present, Cloned, Moved, L!Places, AtStage
  <1>6. service'[s].pc = "inspect"
    BY <1>1, <1>2, AfterGoto
  <1>7. ForwardTree(service[s], service[s].pc)' /\ BackwardTree(service[s], service[s].pc)'
    BY <1>1, <1>3, <1>4, <1>6 DEF ForwardTree, BackwardTree, Delivered, L!UndoRest
  <1> QED
    BY <1>1, <1>5, <1>7, TreesOfCall

\* A write of the journal keeps what is said of the directory.
LEMMA TreesOfJournal ==
  ASSUME Ctl, Trees, NEW s \in Services, service[s].pc \in L!Forward \ {"begin"},
         UNCHANGED tree, NEW rec, journal' = rec, rec # None, rec.action = journal.action,
         rec.txn = journal.txn,
         rec.status = "committed" <=> service[s].pc = "commit"
  PROVE  TreeInv' /\ (Arrived => Arrived') /\ (AtStage => AtStage')
  <1>1. service[s].pc \notin {"idle", "begin"} /\ service[s].pc \in L!Forward
    BY DEF L!Forward
  <1>2. /\ journal # None /\ TreeInv /\ journal.status # "committed"
        /\ journal.action \in {"clone", "move", "adopt"}
        /\ journal.txn # NoOwner /\ ForwardTree(service[s], service[s].pc)
    BY <1>1, TreeTells DEF StatusOk, L!Forward
  <1>3. service[s].pc = "commit" /\ journal.action # "adopt" => Arrived
    BY <1>2 DEF ForwardTree, Delivered
  <1>4. /\ AtSource' <=> AtSource
        /\ AtStage' <=> AtStage
        /\ AtDestination' <=> AtDestination
        /\ Arrived' <=> Arrived
    BY DEF AtSource, AtStage, AtDestination, Arrived
  <1>5. Marks' /\ InPlace' /\ Present'
    BY <1>2 DEF TreeInv, Marks, InPlace, Present
  <1>6. Cloned'
    BY <1>2, <1>3 DEF TreeInv, Cloned, Arrived
  <1>7. Moved'
    <2>1. journal.action = "move" /\ Arrived => AtDestination
      BY <1>2 DEF TreeInv, Moved, Arrived, AtSource, AtStage
    <2> QED
      BY <1>2, <1>3, <1>4, <2>1 DEF TreeInv, Moved
  <1> QED
    BY <1>4, <1>5, <1>6, <1>7 DEF TreeInv

\* The record announces the rewrite before it happens.
LEMMA TreesOfInspect ==
  ASSUME Ctl, Trees, NEW s \in Services, L!Inspect(s)
  PROVE  Trees'
  <1>1. service[s].pc = "inspect" /\ UNCHANGED tree /\ Serves(s)
    BY DEF L!Inspect, L!At, Serves, L!Advance
  <1>2. service[s].pc \in L!Forward \ {"begin"} /\ service[s].pc \notin {"idle", "begin"}
    BY <1>1 DEF L!Forward
  <1>3. /\ service \in [Services -> L!Call] /\ service[s].plan.action = journal.action
        /\ ForwardTree(service[s], "inspect") /\ journal.action \in {"clone", "move", "adopt"}
    BY <1>1, <1>2, TreeTells
  <1>4. CASE L!Undo(s) /\ UNCHANGED journal
    <2>1. service'[s].pc \in Blind
      BY <1>3, <1>4, AfterUndo DEF Blind
    <2> QED
      BY <1>1, <1>4, <2>1, BlindTree, TreesQuiet
  <1>5. CASE /\ L!Journal(s, L!NextRecord(s), "rewrite")
             /\ journal.action = "move" => tree["stage"].project = service[s].plan.project
    <2>1. PICK rec : rec = L!NextRecord(s)
      OBVIOUS
    <2>2. /\ rec.txn = journal.txn /\ rec.action = journal.action /\ rec # None
          /\ rec.status = "committed" <=> service[s].pc = "commit"
      BY <1>2, <2>1, NextTells, LifecycleAssumptions DEF L!ConstantsAssumption
    <2>3. /\ journal' = rec /\ service'[s].pc = "rewrite" /\ service'[s].plan = service[s].plan
      BY <1>3, <1>5, <2>1, AfterJournal
    <2>4. TreeInv' /\ (AtStage => AtStage')
      BY <1>1, <1>2, <2>2, <2>3, TreesOfJournal
    <2>5. ForwardTree(service[s], service[s].pc)' /\ BackwardTree(service[s], service[s].pc)'
      BY <1>1, <1>3, <1>5, <2>2, <2>3, <2>4 DEF ForwardTree, BackwardTree, Delivered, L!UndoRest
    <2> QED
      BY <1>1, <2>4, <2>5, TreesOfCall
  <1>6. \/ L!Undo(s) /\ UNCHANGED journal
        \/ /\ L!Journal(s, L!NextRecord(s), "rewrite")
           /\ journal.action = "move" => tree["stage"].project = service[s].plan.project
    BY <1>3 DEF L!Inspect, L!Action, L!AsPlanned
  <1> QED
    BY <1>4, <1>5, <1>6

\* The rewrite leaves the project where it is.
LEMMA TreesOfRewrite ==
  ASSUME Ctl, Trees, NEW s \in Services, L!Rewrite(s)
  PROVE  Trees'
  <1>1. service[s].pc = "rewrite" /\ journal' = journal /\ Serves(s)
    BY DEF L!Rewrite, L!At, Serves, L!Advance
  <1>2. /\ journal # None /\ tree \in [L!Places -> L!Tree] /\ TreeInv
        /\ journal.action \in {"move", "adopt"} /\ journal.status # "committed"
        /\ service \in [Services -> L!Call] /\ L!Txn(s) = journal.txn /\ journal.txn \in Lifecycles
        /\ tree["stage"] \in L!Tree /\ tree["source"] \in L!Tree
        /\ service[s].plan \in L!Plan /\ L!Action(s) = journal.action
        /\ journal.action = "move" => AtStage /\ tree["stage"].mark = journal.txn
    BY <1>1, TreeTells DEF ActionOk, StatusOk, ForwardTree, L!Forward, L!Action
  <1>3. PICK c : c = L!Rewritten(service[s].plan.project, L!Txn(s))
    OBVIOUS
  <1>4. c \in L!Content
    BY <1>2, <1>3, DataTyped DEF L!Plan
  <1>5. CASE journal.action = "move"
    <2>1. /\ tree' = [tree EXCEPT !["stage"] = [tree["stage"] EXCEPT !.project = c]]
          /\ L!Goto(s, "publish")
      BY <1>2, <1>3, <1>5 DEF L!Rewrite
    <2>2. /\ tree'["stage"].kind = tree["stage"].kind /\ tree'["stage"].mark = tree["stage"].mark
          /\ tree'["source"] = tree["source"] /\ tree'["destination"] = tree["destination"]
      BY <1>2, <1>4, <2>1, TreeEdit, TreeAt DEF L!Places
    <2>3. AtStage'
      BY <1>2, <1>5, <2>2 DEF AtStage
    <2>4. TreeInv'
      BY <1>1, <1>2, <1>5, <2>2, <2>3
        DEF TreeInv, Marks, InPlace, Present, Cloned, Moved, L!Places
    <2>5. service'[s].pc = "publish"
      BY <1>2, <2>1, AfterGoto
    <2>6. ForwardTree(service[s], service[s].pc)' /\ BackwardTree(service[s], service[s].pc)'
      BY <1>1, <1>2, <1>5, <2>2, <2>3, <2>5
        DEF ForwardTree, BackwardTree, Delivered, L!UndoRest, AtStage
    <2> QED
      BY <1>1, <2>4, <2>6, TreesOfCall
  <1>6. CASE journal.action = "adopt"
    <2>1. /\ tree' = [tree EXCEPT !["source"] = [tree["source"] EXCEPT !.project = c]]
          /\ L!Goto(s, "rewriteJob")
      BY <1>2, <1>3, <1>6 DEF L!Rewrite
    <2>2. /\ tree'["source"].kind = tree["source"].kind /\ tree'["source"].mark = tree["source"].mark
          /\ tree'["stage"] = tree["stage"] /\ tree'["destination"] = tree["destination"]
      BY <1>2, <1>4, <2>1, TreeEdit, TreeAt DEF L!Places
    <2>3. TreeInv'
      BY <1>1, <1>2, <1>6, <2>2
        DEF TreeInv, Marks, InPlace, Present, Cloned, Moved, L!Places
    <2>4. service'[s].pc \in Blind
      BY <1>2, <2>1, AfterGoto DEF Blind
    <2> QED
      BY <1>1, <2>3, <2>4, BlindTree, TreesOfCall
  <1> QED
    BY <1>2, <1>5, <1>6

\* Of an adopted project only files change.
LEMMA TreesOfRewriteJob ==
  ASSUME Ctl, Trees, NEW s \in Services, L!RewriteJob(s)
  PROVE  Trees'
  <1>1. /\ service[s].pc = "rewriteJob" /\ journal' = journal /\ Serves(s)
        /\ L!Goto(s, "projectRegistry")
    BY DEF L!RewriteJob, L!At, Serves, L!Advance
  <1>2. /\ journal # None /\ tree \in [L!Places -> L!Tree] /\ TreeInv
        /\ journal.action = "adopt" /\ service \in [Services -> L!Call]
        /\ L!Txn(s) = journal.txn /\ journal.txn \in Lifecycles
        /\ tree["source"] \in L!Tree /\ service[s].plan \in L!Plan
    BY <1>1, TreeTells DEF ActionOk, L!Forward
  <1>3. PICK c : c = L!Rewritten(service[s].plan.job, L!Txn(s))
    OBVIOUS
  <1>4. c \in L!Content
    BY <1>2, <1>3, DataTyped DEF L!Plan
  <1>5. tree' = [tree EXCEPT !["source"] = [tree["source"] EXCEPT !.job = c]]
    BY <1>3 DEF L!RewriteJob
  <1>6. /\ tree'["source"].kind = tree["source"].kind /\ tree'["source"].mark = tree["source"].mark
        /\ tree'["stage"] = tree["stage"] /\ tree'["destination"] = tree["destination"]
    BY <1>2, <1>4, <1>5, TreeEdit, TreeAt DEF L!Places
  <1>7. TreeInv'
    BY <1>1, <1>2, <1>6 DEF TreeInv, Marks, InPlace, Present, Cloned, Moved, L!Places
  <1>8. service'[s].pc = "projectRegistry"
    BY <1>1, <1>2, AfterGoto
  <1>9. ForwardTree(service[s], service[s].pc)' /\ BackwardTree(service[s], service[s].pc)'
    BY <1>1, <1>2, <1>8 DEF ForwardTree, BackwardTree, L!UndoRest
  <1> QED
    BY <1>1, <1>7, <1>9, TreesOfCall

\* The stage becomes the destination, where nothing is.
LEMMA TreesOfPublish ==
  ASSUME Ctl, Trees, NEW s \in Services, L!Publish(s)
  PROVE  Trees'
  <1>1. service[s].pc = "publish" /\ journal' = journal /\ Serves(s)
    BY DEF L!Publish, L!At, Serves, L!Advance
  <1>2. /\ journal # None /\ tree \in [L!Places -> L!Tree] /\ TreeInv
        /\ journal.action \in {"clone", "move"} /\ journal.status # "committed"
        /\ service \in [Services -> L!Call]
        /\ tree["stage"].kind = "whole" /\ tree["stage"].mark = journal.txn
        /\ journal.action = "move" => AtStage
    BY <1>1, TreeTells DEF ActionOk, StatusOk, ForwardTree
  <1>3. CASE tree["destination"].kind = "none"
    <2>1. L!Goto(s, "projectRegistry") /\ tree' = L!Renamed("stage", "destination")
      BY <1>3 DEF L!Publish
    <2>2. /\ tree'["destination"] = tree["stage"]
          /\ tree'["stage"].kind = "none" /\ tree'["stage"].mark = NoOwner
          /\ tree'["source"] = tree["source"]
      BY <1>2, <2>1, DataTyped, TreeRenamed DEF L!Places
    <2>3. Arrived' /\ (journal.action = "move" => AtDestination')
      BY <1>1, <1>2, <2>2 DEF Arrived, AtDestination, AtStage
    <2>4. TreeInv'
      BY <1>1, <1>2, <2>2, <2>3
        DEF TreeInv, Marks, InPlace, Present, Cloned, Moved, Arrived, L!Places
    <2>5. service'[s].pc = "projectRegistry"
      BY <1>2, <2>1, AfterGoto
    <2>6. ForwardTree(service[s], service[s].pc)' /\ BackwardTree(service[s], service[s].pc)'
      BY <1>1, <2>3, <2>5 DEF ForwardTree, BackwardTree, L!UndoRest
    <2> QED
      BY <1>1, <2>4, <2>6, TreesOfCall
  <1>4. CASE tree["destination"].kind # "none"
    <2>1. L!Undo(s) /\ UNCHANGED tree
      BY <1>4 DEF L!Publish
    <2>2. service'[s].pc \in Blind
      BY <1>2, <2>1, AfterUndo DEF Blind
    <2> QED
      BY <1>1, <2>1, <2>2, BlindTree, TreesQuiet
  <1> QED
    BY <1>3, <1>4

\* Between the directory and the commit nothing happens to the directory.
LEMMA TreesOfDelivered ==
  ASSUME Ctl, Trees, NEW s \in Services,
         L!CheckRegistry(s) \/ L!WriteRegistry(s) \/ L!MergeLedger(s)
  PROVE  Trees'
  <1>1. /\ service[s].pc \in Delivered /\ UNCHANGED <<tree, journal>> /\ Serves(s)
        /\ service[s].pc \notin {"idle", "begin"}
    BY DEF L!CheckRegistry, L!WriteRegistry, L!MergeLedger, L!At, Serves, L!Advance, Delivered,
      L!files
  <1>2. /\ service \in [Services -> L!Call] /\ (journal.action # "adopt" => Arrived)
    BY <1>1, TreeTells DEF ForwardTree
  <1>3. CASE L!Undo(s)
    <2>1. service'[s].pc \in Blind
      BY <1>2, <1>3, AfterUndo DEF Blind
    <2> QED
      BY <1>1, <2>1, BlindTree, TreesQuiet
  <1>4. ASSUME NEW pc \in {"writeRegistry", "projectLedger", "commit"}, L!Goto(s, pc)
        PROVE  Trees'
    <2>1. service'[s].pc = pc
      BY <1>2, <1>4, AfterGoto
    <2>2. Arrived' <=> Arrived
      BY <1>1 DEF Arrived
    <2>3. ForwardTree(service[s], service[s].pc)' /\ BackwardTree(service[s], service[s].pc)'
      BY <1>1, <1>2, <2>1, <2>2 DEF ForwardTree, BackwardTree, L!UndoRest
    <2> QED
      BY <1>1, <2>3, TreesQuiet
  <1> QED
    BY <1>3, <1>4 DEF L!CheckRegistry, L!WriteRegistry, L!MergeLedger

\* The records of the projections and of the commit, once the directory is delivered.
LEMMA TreesOfRecord ==
  ASSUME Ctl, Trees, NEW s \in Services, L!ProjectRegistry(s) \/ L!ProjectLedger(s) \/ L!Commit(s)
  PROVE  Trees'
  <1>1. /\ service[s].pc \in {"projectRegistry", "projectLedger", "commit"} /\ UNCHANGED tree
        /\ Serves(s)
    BY DEF L!ProjectRegistry, L!ProjectLedger, L!Commit, L!At, Serves, L!Advance
  <1>2. service[s].pc \in L!Forward \ {"begin"} /\ service[s].pc \notin {"idle", "begin"}
    BY <1>1 DEF L!Forward
  <1>3. service \in [Services -> L!Call] /\ (journal.action # "adopt" => Arrived)
    BY <1>1, <1>2, TreeTells DEF ForwardTree, Delivered
  <1>4. PICK rec : rec = L!NextRecord(s)
    OBVIOUS
  <1>5. /\ rec.txn = journal.txn /\ rec.action = journal.action /\ rec # None
        /\ rec.status = "committed" <=> service[s].pc = "commit"
    BY <1>2, <1>4, NextTells, LifecycleAssumptions DEF L!ConstantsAssumption
  <1>6. PICK pc \in {"checkRegistry", "merge", "release"} : L!Journal(s, rec, pc)
    BY <1>4 DEF L!ProjectRegistry, L!ProjectLedger, L!Commit
  <1>7. journal' = rec /\ service'[s].pc = pc
    BY <1>3, <1>6, AfterJournal
  <1>8. TreeInv' /\ (Arrived => Arrived')
    BY <1>1, <1>2, <1>5, <1>7, TreesOfJournal
  <1>9. ForwardTree(service[s], service[s].pc)' /\ BackwardTree(service[s], service[s].pc)'
    BY <1>3, <1>5, <1>7, <1>8 DEF ForwardTree, BackwardTree, L!UndoRest
  <1> QED
    BY <1>1, <1>8, <1>9, TreesOfCall

\* The mark goes once the record is committed.
LEMMA TreesOfUnmark ==
  ASSUME Ctl, Trees, NEW s \in Services, L!Unmark(s)
  PROVE  Trees'
  <1>1. /\ service[s].pc = "unmark" /\ journal' = journal /\ Serves(s) /\ L!Goto(s, "forget")
        /\ tree' = L!Unmarked("destination", L!Txn(s))
    BY DEF L!Unmark, L!At, Serves, L!Advance
  <1>2. /\ journal # None /\ tree \in [L!Places -> L!Tree] /\ TreeInv
        /\ journal.action \in {"clone", "move", "adopt"} /\ journal.status = "committed"
        /\ service \in [Services -> L!Call] /\ L!Txn(s) = journal.txn
        /\ tree["destination"] \in L!Tree
    BY <1>1, TreeTells DEF StatusOk
  <1>3. /\ tree'["destination"].kind = tree["destination"].kind
        /\ tree'["destination"].mark = NoOwner
        /\ tree'["source"] = tree["source"] /\ tree'["stage"] = tree["stage"]
    <2>1. CASE tree["destination"].mark = L!Txn(s)
      <3>1. tree' = [tree EXCEPT !["destination"] = [tree["destination"] EXCEPT !.mark = NoOwner]]
        BY <1>1, <2>1 DEF L!Unmarked
      <3> QED
        BY <1>2, <3>1, TreeEdit, TreeAt DEF L!Places
    <2>2. CASE tree["destination"].mark # L!Txn(s)
      BY <1>1, <1>2, <2>2 DEF L!Unmarked, TreeInv, Marks, L!Places
    <2> QED
      BY <2>1, <2>2
  <1>4. journal.action = "move" => AtDestination /\ AtDestination'
    BY <1>2, <1>3 DEF TreeInv, Moved, AtDestination
  <1>5. journal.action # "adopt" =>
          tree["source"].mark = NoOwner /\ tree["stage"].kind = "none"
    BY <1>2, <1>4 DEF TreeInv, Cloned, AtDestination
  <1>6. TreeInv'
    BY <1>1, <1>2, <1>3, <1>4
      DEF TreeInv, Marks, InPlace, Present, Cloned, Moved, L!Places
  <1>7. \A p \in L!Places : tree'[p].mark = NoOwner
    BY <1>2, <1>3, <1>5 DEF TreeInv, Marks, InPlace, L!Places
  <1>8. service'[s].pc = "forget"
    BY <1>1, <1>2, AfterGoto
  <1>9. ForwardTree(service[s], service[s].pc)' /\ BackwardTree(service[s], service[s].pc)'
    BY <1>1, <1>2, <1>3, <1>5, <1>7, <1>8
      DEF ForwardTree, BackwardTree, L!UndoRest, Delivered
  <1> QED
    BY <1>1, <1>6, <1>9, TreesOfCall

\* A transaction begins with the directory that was planned.
LEMMA TreesOfBegin ==
  ASSUME Ctl, Trees, NEW s \in Services, L!Begin(s)
  PROVE  Trees'
  <1>1. /\ service[s].pc = "begin" /\ UNCHANGED tree /\ Serves(s) /\ journal = None
        /\ service \in [Services -> L!Call] /\ tree["source"].kind = "whole" /\ TreeInv
        /\ service[s].plan.action # "adopt" /\ service'[s].pc # "idle" =>
             tree["destination"].kind = "none"
    <2>1. /\ service[s].pc = "begin" /\ UNCHANGED tree /\ Serves(s) /\ journal = None
          /\ service \in [Services -> L!Call] /\ tree["source"].kind = "whole" /\ TreeInv
      BY DEF L!Begin, L!At, Serves, L!Advance, Ctl, CallOk, L!TypeOK, Trees, TreeStep, ForwardTree
    <2>2. \/ L!Return(s, "refused")
          \/ service[s].plan.action # "adopt" => tree["destination"].kind = "none"
      BY DEF L!Begin, L!Action
    <2> QED
      BY <2>1, <2>2, AfterReturn
  <1>2. ASSUME L!Return(s, "refused"), UNCHANGED journal
        PROVE  Trees'
    <2>1. service'[s].pc \in Blind
      BY <1>1, <1>2, AfterReturn DEF Blind
    <2> QED
      BY <1>1, <1>2, <2>1, BlindTree, TreesQuiet
  <1>3. ASSUME NEW rec \in L!Record, NEW pc \in {"copy", "out", "inspect"},
               rec.action = service[s].plan.action, rec.status = "prepared",
               pc = "copy" <=> rec.action = "clone", pc = "out" <=> rec.action = "move",
               L!Journal(s, rec, pc)
        PROVE  Trees'
    <2>1. /\ journal' = rec /\ service'[s].pc = pc /\ rec # None
          /\ rec.action \in {"clone", "move", "adopt"}
      BY <1>1, <1>3, AfterJournal, LifecycleAssumptions
        DEF L!ConstantsAssumption, L!Record, L!Actions
    <2>2. /\ tree["stage"].kind = "none" /\ \A p \in L!Places : tree[p].mark = NoOwner
          /\ rec.action # "adopt" => tree["destination"].kind = "none"
      BY <1>1, <1>3, <2>1 DEF TreeInv, InPlace
    <2>3. rec.action = "move" => AtSource'
      BY <1>1, <2>2 DEF AtSource, L!Places
    <2>4. TreeInv'
      BY <1>1, <1>3, <2>1, <2>2, <2>3
        DEF TreeInv, Marks, InPlace, Present, Cloned, Moved, L!Places
    <2>5. ForwardTree(service[s], service[s].pc)' /\ BackwardTree(service[s], service[s].pc)'
      BY <1>3, <2>1, <2>3 DEF ForwardTree, BackwardTree, L!UndoRest, Delivered
    <2> QED
      BY <1>1, <2>4, <2>5, TreesOfCall
  <1> QED
    BY <1>2, <1>3, BeginTells

\* The journal goes when the directory is where it said.
LEMMA TreesOfForget ==
  ASSUME Ctl, Trees, NEW s \in Services, L!Forget(s)
  PROVE  Trees'
  <1>1. /\ service[s].pc = "forget" /\ UNCHANGED tree /\ Serves(s) /\ journal' = None
        /\ \E said : L!Return(s, said)
    BY DEF L!Forget, L!At, Serves, L!Advance
  <1>2. /\ journal # None /\ TreeInv /\ service \in [Services -> L!Call]
        /\ journal.action \in {"clone", "move", "adopt"}
        /\ BackwardTree(service[s], "forget")
    BY <1>1, TreeTells
  <1>3. service'[s].pc \in Blind
    BY <1>1, <1>2, AfterReturn DEF Blind
  <1>4. \A p \in L!Places : tree[p].mark = NoOwner
    BY <1>2 DEF BackwardTree
  <1>5. /\ tree["stage"].kind = "none"
        /\ tree["source"].kind = "whole" \/ tree["destination"].kind = "whole"
    BY <1>2 DEF BackwardTree, TreeInv, InPlace, Present, Cloned, Moved, AtSource, AtDestination
  <1>6. TreeInv'
    BY <1>1, <1>2, <1>4, <1>5 DEF TreeInv, Marks, InPlace, Present, Cloned, Moved
  <1> QED
    BY <1>1, <1>3, <1>6, BlindTree, TreesOfCall

\* Calls begin and end, and a committed transaction lets go of the ledger.
LEMMA TreesOfCalls ==
  ASSUME Ctl, Trees, NEW s \in Services,
         \/ \E action \in L!Actions : L!Preflight(s, action)
         \/ L!Apply(s) \/ L!BeginRecovery(s) \/ L!Finalize(s) \/ L!ReleaseReceipt(s) \/ L!Crash(s)
  PROVE  Trees'
  <1>1. /\ service \in [Services -> L!Call] /\ UNCHANGED <<tree, journal>> /\ Serves(s)
    BY DEF Ctl, L!TypeOK, Serves, L!Recover, L!Advance, L!files, L!Preflight, L!Apply,
      L!BeginRecovery, L!Finalize, L!ReleaseReceipt, L!Crash
  <1>2. \/ service'[s].pc \in Blind
        \/ service'[s].pc = "begin" /\ tree["source"].kind = "whole"
    <2>1. ASSUME NEW action \in L!Actions, L!Preflight(s, action)
          PROVE  service'[s].pc \in Blind
      <3>1. PICK plan : service' = [service EXCEPT ![s].plan = plan]
        BY <2>1 DEF L!Preflight
      <3>2. service'[s].pc = "idle"
        <4>1. service[s] \in L!Call /\ service'[s] = [service[s] EXCEPT !.plan = plan]
          BY <1>1, <3>1
        <4>2. service[s].pc = "idle"
          BY <2>1 DEF L!Preflight, L!Idle, L!At
        <4> QED
          BY <4>1, <4>2 DEF L!Call
      <3> QED
        BY <3>2 DEF Blind
    <2>2. CASE L!Apply(s)
      <3>1. \/ L!Goto(s, "begin") /\ tree["source"].kind = "whole"
            \/ L!Return(s, "refused")
        BY <2>2 DEF L!Apply, L!Fresh, L!AsPlanned
      <3> QED
        BY <1>1, <3>1, AfterGoto, AfterReturn DEF Blind
    <2>3. CASE L!BeginRecovery(s)
      <3>1. /\ service[s] \in L!Call
            /\ service'[s] = [service[s] EXCEPT !.pc = "undo", !.how = "recover", !.rec = journal]
        BY <1>1, <2>3 DEF L!BeginRecovery
      <3> QED
        BY <3>1 DEF L!Call, Blind
    <2>4. CASE L!Finalize(s) \/ L!ReleaseReceipt(s)
      BY <1>1, <2>4, AfterGoto DEF L!Finalize, L!ReleaseReceipt, Blind
    <2>5. CASE L!Crash(s)
      BY <1>1, <2>5 DEF L!Crash, L!NoCall, Blind
    <2> QED
      BY <2>1, <2>2, <2>3, <2>4, <2>5
  <1>3. ForwardTree(service[s], service[s].pc)' /\ BackwardTree(service[s], service[s].pc)'
    BY <1>1, <1>2 DEF Blind, ForwardTree, BackwardTree, Delivered, L!UndoRest
  <1> QED
    BY <1>1, <1>3, TreesQuiet

\* Only a directory with the clone's own mark is taken for its copy.
LEMMA TreesOfUndoClone ==
  ASSUME Ctl, Trees, NEW s \in Services, L!UndoClone(s)
  PROVE  Trees'
  <1>1. /\ service[s].pc = "undo" /\ service[s].rec.action = "clone" /\ Serves(s)
        /\ UNCHANGED <<tree, journal>>
    BY DEF L!UndoClone, L!Undoing, L!At, L!Rec, L!files, Serves, L!Recover
  <1>2. /\ journal # None /\ TreeInv /\ service \in [Services -> L!Call]
        /\ journal.action = "clone" /\ L!Txn(s) = journal.txn
    BY <1>1, TreeTells
  <1> DEFINE owned == L!CopyOf(s)
             pc == IF L!CopyOf(s) = "nowhere" THEN "undoLedger" ELSE "removing"
  <1>3. service[s] \in L!Call /\ service'[s] = [service[s] EXCEPT !.owned = owned, !.pc = pc]
    BY <1>2 DEF L!UndoClone
  <1>4. pc = "undoLedger" =>
          tree["stage"].kind = "none" /\ tree["destination"].mark = NoOwner
    BY <1>2 DEF L!CopyOf, TreeInv, Marks, L!Places
  <1>5. pc \in {"undoLedger", "removing"}
    OBVIOUS
  <1> HIDE DEF owned, pc
  <1>6. service'[s].pc = pc
    BY <1>3 DEF L!Call
  <1>7. ForwardTree(service[s], service[s].pc)' /\ BackwardTree(service[s], service[s].pc)'
    BY <1>1, <1>2, <1>4, <1>5, <1>6
      DEF ForwardTree, BackwardTree, L!UndoRest, Delivered, UndoneTree
  <1> QED
    BY <1>1, <1>7, TreesQuiet

\* Only the clone's copy is removed.
LEMMA TreesOfRemove ==
  ASSUME Ctl, Trees, NEW s \in Services, L!RemoveSome(s) \/ L!RemoveRest(s)
  PROVE  Trees'
  <1>1. service[s].pc = "removing" /\ journal' = journal /\ Serves(s)
    BY DEF L!RemoveSome, L!RemoveRest, L!At, Serves, L!Recover
  <1>2. /\ journal # None /\ tree \in [L!Places -> L!Tree] /\ TreeInv
        /\ journal.action = "clone" /\ journal.status # "committed"
        /\ service \in [Services -> L!Call]
        /\ tree["stage"] \in L!Tree /\ tree["destination"] \in L!Tree
        /\ service[s].owned \in {"stage", "destination"}
    BY <1>1, TreeTells DEF ActionOk, StatusOk
  <1>3. PICK owned \in {"stage", "destination"} : owned = service[s].owned
    BY <1>2
  <1>4. PICK x : /\ tree' = [tree EXCEPT ![owned] = x]
                 /\ x.kind \in {"partial", "none"} /\ x.mark \in {NoOwner, tree[owned].mark}
                 /\ x.kind = "none" => x.mark = NoOwner
    <2>1. CASE L!RemoveSome(s)
      <3>1. PICK mark \in {NoOwner, tree[owned].mark} :
              tree' = [tree EXCEPT ![owned] = L!Partial(mark)]
        BY <1>3, <2>1 DEF L!RemoveSome
      <3>2. mark \in Lifecycles \union {NoOwner}
        BY <1>2, <1>3, <3>1 DEF L!Tree
      <3> QED
        BY <3>1, <3>2, DataTyped
    <2>2. CASE L!RemoveRest(s)
      BY <1>3, <2>2, DataTyped DEF L!RemoveRest
    <2> QED
      BY <2>1, <2>2
  <1>5. tree'[owned] = x /\ \A p \in L!Places : p # owned => tree'[p] = tree[p]
    BY <1>2, <1>3, <1>4, TreeAt DEF L!Places
  <1>6. TreeInv'
    BY <1>1, <1>2, <1>3, <1>4, <1>5
      DEF TreeInv, Marks, InPlace, Present, Cloned, Moved, L!Places
  <1>7. service'[s].pc \in Blind
    BY <1>1, <1>2, AfterGoto DEF L!RemoveSome, L!RemoveRest, Blind
  <1> QED
    BY <1>1, <1>6, <1>7, BlindTree, TreesOfCall

\* A file that is put back leaves the tree where it is.
LEMMA RestoredTree ==
  ASSUME tree \in [L!Places -> L!Tree], NEW place \in L!Places, NEW f \in {"project", "job"},
         NEW rec \in L!Record, tree' = [tree EXCEPT ![place][f] = rec[f]]
  PROVE  \A p \in L!Places : tree'[p].kind = tree[p].kind /\ tree'[p].mark = tree[p].mark
  <1>1. tree[place] \in L!Tree /\ rec.project \in L!Content /\ rec.job \in L!Content
    BY DEF L!Record
  <1>2. \/ tree' = [tree EXCEPT ![place] = [tree[place] EXCEPT !.project = rec.project]]
        \/ tree' = [tree EXCEPT ![place] = [tree[place] EXCEPT !.job = rec.job]]
    OBVIOUS
  <1>3. PICK x : /\ tree' = [tree EXCEPT ![place] = x]
                 /\ x.kind = tree[place].kind /\ x.mark = tree[place].mark
    <2>1. CASE tree' = [tree EXCEPT ![place] = [tree[place] EXCEPT !.project = rec.project]]
      <3>1. PICK x : x = [tree[place] EXCEPT !.project = rec.project]
        OBVIOUS
      <3>2. x.kind = tree[place].kind /\ x.mark = tree[place].mark
        BY <1>1, <3>1, TreeEdit
      <3> QED
        BY <2>1, <3>1, <3>2
    <2>2. CASE tree' = [tree EXCEPT ![place] = [tree[place] EXCEPT !.job = rec.job]]
      <3>1. PICK x : x = [tree[place] EXCEPT !.job = rec.job]
        OBVIOUS
      <3>2. x.kind = tree[place].kind /\ x.mark = tree[place].mark
        BY <1>1, <3>1, TreeEdit
      <3> QED
        BY <2>2, <3>1, <3>2
    <2> QED
      BY <1>2, <2>1, <2>2
  <1>4. tree'[place] = x /\ \A p \in L!Places : p # place => tree'[p] = tree[p]
    BY <1>3, TreeAt
  <1> QED
    BY <1>3, <1>4

\* Only kinds and marks count, but where a rewrite is announced.
LEMMA SameKinds ==
  ASSUME \A p \in L!Places : tree'[p].kind = tree[p].kind /\ tree'[p].mark = tree[p].mark,
         journal' = journal, TreeInv
  PROVE  /\ TreeInv' /\ (AtSource' <=> AtSource) /\ (AtStage' <=> AtStage)
         /\ AtDestination' <=> AtDestination
         /\ Arrived' <=> Arrived
  BY DEF TreeInv, Marks, InPlace, Present, Cloned, Moved, AtSource, AtStage, AtDestination,
    Arrived, L!Places

\* The tree of a move is found by its mark or at the source.
LEMMA TreesOfUndoMove ==
  ASSUME Ctl, Trees, NEW s \in Services, L!UndoMove(s)
  PROVE  Trees'
  <1>1. /\ service[s].pc = "undo" /\ service[s].rec.action = "move" /\ UNCHANGED <<tree, journal>>
        /\ service[s].rec.status # "committed" /\ Serves(s)
    BY UndoMoveTells DEF Serves, L!Recover
  <1>2. /\ journal # None /\ TreeInv /\ service \in [Services -> L!Call]
        /\ journal.action = "move" /\ L!Txn(s) = journal.txn /\ journal.txn # NoOwner
        /\ tree \in [L!Places -> L!Tree] /\ service[s].rec \in L!Record
        /\ journal.status # "committed"
    BY <1>1, TreeTells, Underway
  <1>3. PICK owned : owned = L!MovedTo(s)
    OBVIOUS
  <1>4. /\ owned = "nowhere" => AtSource
        /\ owned = "stage" => AtStage
        /\ owned = "destination" => AtDestination
        /\ owned \in {"nowhere", "stage", "destination"}
    BY <1>2, <1>3 DEF L!MovedTo, TreeInv, Moved, AtSource, AtStage, AtDestination
  <1>5. (AtSource' <=> AtSource) /\ (AtStage' <=> AtStage) /\ (AtDestination' <=> AtDestination)
    BY <1>1 DEF AtSource, AtStage, AtDestination
  <1>6. CASE owned = "nowhere" /\ L!Goto(s, "authority")
    <2>1. service'[s].pc = "authority"
      BY <1>2, <1>6, AfterGoto
    <2>2. ForwardTree(service[s], service[s].pc)' /\ BackwardTree(service[s], service[s].pc)'
      BY <1>4, <1>5, <1>6, <2>1 DEF ForwardTree, BackwardTree, L!UndoRest, Delivered
    <2> QED
      BY <1>1, <2>2, TreesQuiet
  <1>7. CASE L!Skip(s, "undoLedger")
    <2>1. service'[s].pc = "undoLedger" /\ service'[s].failed
      BY <1>2, <1>7, AfterSkip
    <2>2. ForwardTree(service[s], service[s].pc)' /\ BackwardTree(service[s], service[s].pc)'
      BY <2>1 DEF ForwardTree, BackwardTree, L!UndoRest, Delivered
    <2> QED
      BY <1>1, <2>2, TreesQuiet
  <1>8. CASE /\ owned \in {"stage", "destination"}
             /\ service'[s].pc \in {"restore", "back"} /\ service'[s].owned = owned
    <2>1. ForwardTree(service[s], service[s].pc)' /\ BackwardTree(service[s], service[s].pc)'
      BY <1>4, <1>5, <1>8 DEF ForwardTree, BackwardTree, L!UndoRest, Delivered
    <2> QED
      BY <1>1, <2>1, TreesQuiet
  <1> QED
    BY <1>3, <1>6, <1>7, <1>8, UndoMoveTells

\* Its project.yaml is put back where the tree is.
LEMMA TreesOfRestoreMoved ==
  ASSUME Ctl, Trees, NEW s \in Services, L!RestoreMoved(s)
  PROVE  Trees'
  <1>1. /\ service[s].pc = "restore" /\ L!Goto(s, "back") /\ journal' = journal /\ Serves(s)
        /\ tree' = [tree EXCEPT ![service[s].owned]["project"] = service[s].rec["project"]]
    BY DEF L!RestoreMoved, L!Restore, L!At, L!Rec, Serves, L!Recover
  <1>2. /\ TreeInv /\ service \in [Services -> L!Call] /\ service[s].rec \in L!Record
        /\ tree \in [L!Places -> L!Tree] /\ BackwardTree(service[s], "restore")
        /\ service[s].owned \in {"stage", "destination"}
    BY <1>1, TreeTells DEF ActionOk
  <1>3. \A p \in L!Places : tree'[p].kind = tree[p].kind /\ tree'[p].mark = tree[p].mark
    BY <1>1, <1>2, RestoredTree DEF L!Places
  <1>4. TreeInv' /\ (AtStage' <=> AtStage) /\ (AtDestination' <=> AtDestination)
    BY <1>1, <1>2, <1>3, SameKinds
  <1>5. service'[s].pc = "back" /\ service'[s].owned = service[s].owned
    <2>1. service[s] \in L!Call /\ service'[s] = [service[s] EXCEPT !.pc = "back"]
      BY <1>1, <1>2 DEF L!Goto
    <2> QED
      BY <2>1 DEF L!Call
  <1>6. ForwardTree(service[s], service[s].pc)' /\ BackwardTree(service[s], service[s].pc)'
    BY <1>2, <1>4, <1>5 DEF ForwardTree, BackwardTree, L!UndoRest, Delivered
  <1> QED
    BY <1>1, <1>4, <1>6, TreesOfCall

\* The tree of a move goes back to where it was.
LEMMA BackTells ==
  ASSUME Ctl, Trees, NEW s \in Services, L!MoveBack(s)
  PROVE  \/ /\ L!Goto(s, "authority") /\ service[s].owned \in {"stage", "destination"}
            /\ tree["source"].kind = "none" /\ tree' = L!Renamed(service[s].owned, "source")
         \/ L!Skip(s, "undoLedger") /\ UNCHANGED tree
  <1>1. service[s].pc = "back"
    BY DEF L!MoveBack, L!At
  <1>2. /\ BackwardTree(service[s], "back") /\ service[s].owned \in {"stage", "destination"}
    BY <1>1, TreeTells DEF ActionOk
  <1>3. tree["source"].kind # "whole"
    BY <1>2 DEF BackwardTree, AtStage, AtDestination
  <1> QED
    BY <1>2, <1>3 DEF L!MoveBack, L!SourceIsAuthoritative

\* The project is back at the source.
LEMMA TreesOfMoveBack ==
  ASSUME Ctl, Trees, NEW s \in Services, L!MoveBack(s)
  PROVE  Trees'
  <1>1. service[s].pc = "back" /\ journal' = journal /\ Serves(s)
    BY DEF L!MoveBack, L!At, Serves, L!Recover
  <1>2. /\ journal # None /\ TreeInv /\ service \in [Services -> L!Call]
        /\ journal.action = "move" /\ journal.status # "committed"
        /\ tree \in [L!Places -> L!Tree] /\ BackwardTree(service[s], "back")
    BY <1>1, TreeTells DEF ActionOk, StatusOk
  <1>3. PICK owned : owned = service[s].owned
    OBVIOUS
  <1>4. CASE /\ L!Goto(s, "authority") /\ owned \in {"stage", "destination"}
             /\ tree["source"].kind = "none" /\ tree' = L!Renamed(owned, "source")
    <2>1. /\ tree'["source"] = tree[owned]
          /\ tree'[owned].kind = "none" /\ tree'[owned].mark = NoOwner
          /\ \A p \in L!Places : p \notin {owned, "source"} => tree'[p] = tree[p]
      BY <1>2, <1>4, DataTyped, TreeRenamed DEF L!Places
    <2>2. \/ owned = "stage" /\ AtStage
          \/ owned = "destination" /\ AtDestination
      BY <1>2, <1>3 DEF BackwardTree
    <2>3. AtSource'
      BY <1>4, <2>1, <2>2 DEF AtSource, AtStage, AtDestination, L!Places
    <2>4. TreeInv'
      BY <1>1, <1>2, <1>4, <2>1, <2>2, <2>3
        DEF TreeInv, Marks, InPlace, Present, Cloned, Moved, L!Places
    <2>5. service'[s].pc = "authority"
      BY <1>2, <1>4, AfterGoto
    <2>6. ForwardTree(service[s], service[s].pc)' /\ BackwardTree(service[s], service[s].pc)'
      BY <2>3, <2>5 DEF ForwardTree, BackwardTree, L!UndoRest, Delivered
    <2> QED
      BY <1>1, <2>4, <2>6, TreesOfCall
  <1>5. CASE L!Skip(s, "undoLedger") /\ UNCHANGED tree
    <2>1. service'[s].pc = "undoLedger" /\ service'[s].failed
      BY <1>2, <1>5, AfterSkip
    <2>2. ForwardTree(service[s], service[s].pc)' /\ BackwardTree(service[s], service[s].pc)'
      BY <2>1 DEF ForwardTree, BackwardTree, L!UndoRest, Delivered
    <2> QED
      BY <1>1, <1>5, <2>2, TreesQuiet
  <1> QED
    BY <1>3, <1>4, <1>5, BackTells

\* Files are compared where the project is.
LEMMA TreesOfUndoAdopt ==
  ASSUME Ctl, Trees, NEW s \in Services, L!UndoAdopt(s) \/ L!UndoAdoptJob(s)
  PROVE  Trees'
  <1>1. /\ service[s].pc \in {"undo", "undoJob"} /\ UNCHANGED <<tree, journal>> /\ Serves(s)
        /\ service[s].pc = "undo" => service[s].rec.action = "adopt"
    BY DEF L!UndoAdopt, L!UndoAdoptJob, L!Undoing, L!UndoFile, L!files, L!Rec, L!At, Serves,
      L!Recover
  <1>2. service \in [Services -> L!Call] /\ journal.action = "adopt"
    BY <1>1, TreeTells DEF ActionOk
  <1>3. \/ \E pc \in {"restoreProject", "undoJob", "restoreJob", "undoLedger"} : L!Goto(s, pc)
        \/ L!Skip(s, "undoLedger")
    BY DEF L!UndoAdopt, L!UndoAdoptJob, L!UndoFile
  <1>4. service'[s].pc \in {"restoreProject", "undoJob", "restoreJob", "undoLedger"}
    <2>1. CASE L!Skip(s, "undoLedger")
      BY <1>2, <2>1, AfterSkip
    <2>2. ASSUME NEW pc \in {"restoreProject", "undoJob", "restoreJob", "undoLedger"}, L!Goto(s, pc)
          PROVE  service'[s].pc \in {"restoreProject", "undoJob", "restoreJob", "undoLedger"}
      BY <1>2, <2>2, AfterGoto
    <2> QED
      BY <1>3, <2>1, <2>2
  <1>5. ForwardTree(service[s], service[s].pc)' /\ BackwardTree(service[s], service[s].pc)'
    BY <1>1, <1>2, <1>4 DEF ForwardTree, BackwardTree, L!UndoRest, Delivered, UndoneTree
  <1> QED
    BY <1>1, <1>5, TreesQuiet

\* Files are put back where the project is.
LEMMA TreesOfRestoreAdopted ==
  ASSUME Ctl, Trees, NEW s \in Services, L!RestoreProject(s) \/ L!RestoreJob(s)
  PROVE  Trees'
  <1>1. PICK f \in {"project", "job"}, pc \in {"undoJob", "undoLedger"} :
          tree' = [tree EXCEPT !["source"][f] = service[s].rec[f]] /\ L!Goto(s, pc)
    BY RestoreAdoptedTells
  <1>2. service[s].pc \in {"restoreProject", "restoreJob"} /\ journal' = journal /\ Serves(s)
    BY RestoreAdoptedTells DEF Serves, L!Recover
  <1>3. /\ TreeInv /\ service \in [Services -> L!Call] /\ journal.action = "adopt"
        /\ service[s].rec \in L!Record /\ tree \in [L!Places -> L!Tree]
    BY <1>2, TreeTells DEF ActionOk
  <1>4. \A p \in L!Places : tree'[p].kind = tree[p].kind /\ tree'[p].mark = tree[p].mark
    BY <1>1, <1>3, RestoredTree DEF L!Places
  <1>5. TreeInv'
    BY <1>2, <1>3, <1>4, SameKinds
  <1>6. service'[s].pc \in {"undoJob", "undoLedger"}
    BY <1>1, <1>3, AfterGoto
  <1>7. ForwardTree(service[s], service[s].pc)' /\ BackwardTree(service[s], service[s].pc)'
    BY <1>2, <1>3, <1>6 DEF ForwardTree, BackwardTree, L!UndoRest, Delivered, UndoneTree
  <1> QED
    BY <1>2, <1>5, <1>7, TreesOfCall

\* Without its tree at the source a move is not rolled back.
LEMMA TreesOfAuthority ==
  ASSUME Ctl, Trees, NEW s \in Services, L!Authority(s)
  PROVE  Trees'
  <1>1. service[s].pc = "authority" /\ UNCHANGED <<tree, journal>> /\ Serves(s)
    BY DEF L!Authority, L!At, L!files, Serves, L!Recover
  <1>2. /\ service \in [Services -> L!Call] /\ journal.action = "move" /\ AtSource
    BY <1>1, TreeTells DEF ActionOk, BackwardTree
  <1>3. AtSource'
    BY <1>1, <1>2 DEF AtSource
  <1>4. service'[s].pc = "undoLedger"
    BY <1>2, AfterGoto, AfterSkip DEF L!Authority
  <1>5. ForwardTree(service[s], service[s].pc)' /\ BackwardTree(service[s], service[s].pc)'
    BY <1>1, <1>2, <1>3, <1>4 DEF ForwardTree, BackwardTree, L!UndoRest, Delivered, UndoneTree
  <1> QED
    BY <1>1, <1>5, TreesQuiet

\* Ledger and registry are undone, the directory stays.
LEMMA TreesOfRest ==
  ASSUME Ctl, Trees, NEW s \in Services,
         L!UndoLedger(s) \/ L!ReadRegistry(s) \/ L!RestoreRegistry(s)
  PROVE  Trees'
  <1>1. /\ service[s].pc \in {"undoLedger", "readRegistry", "restoreRegistry"}
        /\ UNCHANGED <<tree, journal>> /\ Serves(s)
    BY DEF L!UndoLedger, L!ReadRegistry, L!RestoreRegistry, L!At, L!files, Serves, L!Recover
  <1>2. /\ service \in [Services -> L!Call]
        /\ service[s].pc \in L!UndoRest /\ (~service[s].failed => UndoneTree)
    BY <1>1, TreeTells DEF BackwardTree, L!UndoRest
  <1>3. UndoneTree' <=> UndoneTree
    BY <1>1 DEF UndoneTree, AtSource
  <1>4. /\ service'[s].pc \in {"readRegistry", "restoreRegistry", "finish"}
        /\ service'[s].failed = service[s].failed
    <2>1. CASE L!UndoLedger(s) \/ L!RestoreRegistry(s)
      BY <1>2, <2>1, AfterGoto DEF L!UndoLedger, L!RestoreRegistry
    <2>2. CASE L!ReadRegistry(s)
      <3>1. /\ service[s] \in L!Call
            /\ service'[s] = [service[s] EXCEPT !.seen = registry, !.pc = "restoreRegistry"]
        BY <1>2, <2>2 DEF L!ReadRegistry
      <3> QED
        BY <3>1 DEF L!Call
    <2> QED
      BY <2>1, <2>2
  <1>5. ForwardTree(service[s], service[s].pc)' /\ BackwardTree(service[s], service[s].pc)'
    BY <1>2, <1>3, <1>4 DEF ForwardTree, BackwardTree, L!UndoRest, Delivered
  <1> QED
    BY <1>1, <1>5, TreesQuiet

\* The mark goes, and the journal only when nothing failed.
LEMMA TreesOfFinishUndo ==
  ASSUME Ctl, Trees, NEW s \in Services, L!FinishUndo(s)
  PROVE  Trees'
  <1>1. service[s].pc = "finish" /\ journal' = journal /\ Serves(s)
    BY DEF L!FinishUndo, L!At, Serves, L!Recover
  <1>2. /\ journal # None /\ TreeInv /\ service \in [Services -> L!Call]
        /\ journal.action \in {"clone", "move", "adopt"} /\ journal.status # "committed"
        /\ tree \in [L!Places -> L!Tree] /\ tree["source"] \in L!Tree
        /\ L!Txn(s) = journal.txn /\ L!Rec(s).action = journal.action
        /\ ~service[s].failed => UndoneTree
    BY <1>1, TreeTells DEF StatusOk, BackwardTree, L!UndoRest, L!Rec
  <1>3. CASE service[s].failed
    <2>1. L!Return(s, "partial") /\ UNCHANGED tree
      BY <1>3 DEF L!FinishUndo
    <2>2. service'[s].pc \in Blind
      BY <1>2, <2>1, AfterReturn DEF Blind
    <2> QED
      BY <1>1, <2>1, <2>2, BlindTree, TreesQuiet
  <1>4. CASE ~service[s].failed
    <2>1. /\ tree' = IF journal.action = "move" THEN L!Unmarked("source", journal.txn) ELSE tree
          /\ L!Goto(s, "forget")
      BY <1>2, <1>4 DEF L!FinishUndo
    <2>2. /\ tree'["source"].kind = tree["source"].kind /\ tree'["source"].mark = NoOwner
          /\ tree'["stage"] = tree["stage"] /\ tree'["destination"] = tree["destination"]
      <3>1. CASE journal.action = "move" /\ tree["source"].mark = journal.txn
        <4>1. tree' = [tree EXCEPT !["source"] = [tree["source"] EXCEPT !.mark = NoOwner]]
          BY <2>1, <3>1 DEF L!Unmarked
        <4> QED
          BY <1>2, <4>1, TreeEdit, TreeAt DEF L!Places
      <3>2. CASE ~(journal.action = "move" /\ tree["source"].mark = journal.txn)
        <4>1. tree' = tree
          BY <2>1, <3>2 DEF L!Unmarked
        <4>2. tree["source"].mark = NoOwner
          BY <1>2, <3>2 DEF TreeInv, Marks, InPlace, Cloned, L!Places
        <4> QED
          BY <4>1, <4>2
      <3> QED
        BY <3>1, <3>2
    <2>3. journal.action = "move" => AtSource /\ AtSource'
      BY <1>2, <1>4, <2>2 DEF UndoneTree, AtSource
    <2>4. TreeInv'
      BY <1>1, <1>2, <2>2, <2>3
        DEF TreeInv, Marks, InPlace, Present, Cloned, Moved, L!Places
    <2>5. /\ \A p \in L!Places : tree'[p].mark = NoOwner
          /\ journal.action = "clone" => tree'["stage"].kind = "none"
      BY <1>2, <1>4, <2>2, <2>3
        DEF TreeInv, Marks, InPlace, UndoneTree, AtSource, L!Places
    <2>6. service'[s].pc = "forget"
      BY <1>2, <2>1, AfterGoto
    <2>7. ForwardTree(service[s], service[s].pc)' /\ BackwardTree(service[s], service[s].pc)'
      BY <1>1, <2>3, <2>5, <2>6 DEF ForwardTree, BackwardTree, L!UndoRest, Delivered
    <2> QED
      BY <1>1, <2>4, <2>7, TreesOfCall
  <1> QED
    BY <1>3, <1>4

\* A step that fails leaves the directory, or the part of it that it reached.
LEMMA TreesOfFail ==
  ASSUME Ctl, Trees, "commit" \notin Failing, NEW s \in Services, L!Fail(s)
  PROVE  Trees'
  <1>1. /\ service \in [Services -> L!Call] /\ UNCHANGED <<tree, journal>> /\ Serves(s)
    BY FailTells DEF Ctl, L!TypeOK, Serves
  <1>2. \/ service'[s].pc \in Blind
        \/ service'[s].pc \in L!UndoRest /\ service'[s].failed
    <2>1. ASSUME NEW said, L!Return(s, said)
          PROVE  service'[s].pc \in Blind
      BY <1>1, <2>1, AfterReturn DEF Blind
    <2>2. ASSUME NEW rec,
                 service' = [service EXCEPT ![s].rec = rec, ![s].pc = "undo", ![s].how = "failing"]
          PROVE  service'[s].pc \in Blind
      <3>1. /\ service[s] \in L!Call
            /\ service'[s] = [service[s] EXCEPT !.rec = rec, !.pc = "undo", !.how = "failing"]
        BY <1>1, <2>2
      <3> QED
        BY <3>1 DEF L!Call, Blind
    <2>3. ASSUME NEW pc \in {"undoLedger", "readRegistry", "finish"}, L!Skip(s, pc)
          PROVE  service'[s].pc \in L!UndoRest /\ service'[s].failed
      BY <1>1, <2>3, AfterSkip DEF L!UndoRest
    <2> QED
      BY <2>1, <2>2, <2>3, FailTells
  <1>3. ForwardTree(service[s], service[s].pc)' /\ BackwardTree(service[s], service[s].pc)'
    BY <1>2 DEF Blind, ForwardTree, BackwardTree, Delivered, L!UndoRest
  <1> QED
    BY <1>1, <1>3, TreesQuiet

\* What the user can do to the two places.
LEMMA UserTree ==
  ASSUME Ctl, L!User
  PROVE  /\ UNCHANGED <<service, journal, registry, ledger, raced, touched, lock>>
         /\ tree'["stage"] = tree["stage"]
         /\ \A p \in {"source", "destination"} :
              /\ tree[p].kind = "whole" <=> tree'[p].kind = "whole"
              /\ tree[p].kind = "whole" => tree'[p].mark = tree[p].mark
              /\ tree'[p].mark \in {NoOwner, tree[p].mark}
              /\ tree'[p].kind = "none" => tree'[p].mark = NoOwner \/ tree'[p] = tree[p]
  <1>1. FilesTyped /\ tree \in [L!Places -> L!Tree]
    BY DEF Ctl, L!TypeOK, FilesTyped
  <1>2. UNCHANGED <<service, journal, registry, ledger, raced, touched, lock>>
    BY <1>1, UserTells
  <1>3. PICK place \in {"source", "destination"}, x \in L!Tree :
          /\ tree' = [tree EXCEPT ![place] = x]
          /\ \/ /\ tree[place].kind = "whole" /\ x.kind = "whole" /\ x.mark = tree[place].mark
             \/ /\ tree[place].kind = "none" /\ x = L!Foreign
             \/ /\ tree[place].kind = "foreign" /\ x = L!Nothing
    BY <1>1, UserTells
  <1>4. tree'[place] = x /\ \A p \in L!Places : p # place => tree'[p] = tree[p]
    BY <1>1, <1>3, TreeAt DEF L!Places
  <1> QED
    BY <1>2, <1>3, <1>4, DataTyped DEF L!Places

\* The user edits files and makes or removes folders of his own.
LEMMA TreesOfUser ==
  ASSUME Ctl, Trees, L!User
  PROVE  Trees'
  <1>1. /\ UNCHANGED <<service, journal>> /\ tree'["stage"] = tree["stage"]
        /\ \A p \in {"source", "destination"} :
             /\ tree[p].kind = "whole" <=> tree'[p].kind = "whole"
             /\ tree[p].kind = "whole" => tree'[p].mark = tree[p].mark
             /\ tree'[p].mark \in {NoOwner, tree[p].mark}
             /\ tree'[p].kind = "none" => tree'[p].mark = NoOwner \/ tree'[p] = tree[p]
    BY UserTree
  <1>2. /\ AtSource => AtSource'
        /\ AtStage => AtStage'
        /\ AtDestination => AtDestination' /\ tree'["destination"].mark = tree["destination"].mark
        /\ Arrived => Arrived'
    BY <1>1 DEF AtSource, AtStage, AtDestination, Arrived
  <1>3. TreeInv
    BY DEF Trees
  <1>4. TreeInv'
    BY <1>1, <1>2, <1>3 DEF TreeInv, Marks, InPlace, Present, Cloned, Moved, L!Places
  <1>5. ASSUME NEW d \in Services
        PROVE  TreeStep(service[d])'
    <2>1. ForwardTree(service[d], service[d].pc) /\ BackwardTree(service[d], service[d].pc)
      BY DEF Trees, TreeStep
    <2>2. ForwardTree(service[d], service[d].pc)'
      BY <1>1, <1>2, <2>1 DEF ForwardTree
    <2>3. BackwardTree(service[d], service[d].pc)'
      BY <1>1, <1>2, <2>1 DEF BackwardTree, UndoneTree, L!Places
    <2> QED
      BY <2>2, <2>3 DEF TreeStep
  <1> QED
    BY <1>4, <1>5 DEF Trees

\* Trees is inductive.
LEMMA TreesPreserved ==
  ASSUME Ctl, Trees, "commit" \notin Failing, [MCNext]_everything
  PROVE  Trees'
  <1>1. CASE UNCHANGED <<service, tree, journal>>
    <2>1. TreeInv'
      BY <1>1
        DEF Trees, TreeInv, Marks, InPlace, Present, Cloned, Moved, AtSource, AtStage, AtDestination
    <2>2. \A d \in Services : TreeStep(service[d])'
      BY <1>1 DEF Trees, TreeStep, ForwardTree, BackwardTree, UndoneTree, AtSource, AtStage,
        AtDestination, Arrived
    <2> QED
      BY <2>1, <2>2 DEF Trees
  <1>2. ASSUME NEW s \in Services, Serves(s)
        PROVE  Trees'
    <2>1. CASE L!Advance(s)
      BY <2>1, TreesOfBegin, TreesOfCopy, TreesOfFill, TreesOfMoveOut, TreesOfMark,
         TreesOfInspect, TreesOfRewrite, TreesOfRewriteJob, TreesOfPublish, TreesOfDelivered,
         TreesOfRecord, TreesOfCalls, TreesOfUnmark, TreesOfForget DEF L!Advance
    <2>2. CASE L!Recover(s)
      BY <2>2, TreesOfCalls, TreesOfUndoClone, TreesOfRemove, TreesOfUndoMove,
         TreesOfRestoreMoved, TreesOfMoveBack, TreesOfAuthority, TreesOfUndoAdopt,
         TreesOfRestoreAdopted, TreesOfRest, TreesOfFinishUndo DEF L!Recover
    <2> QED
      BY <1>2, <2>1, <2>2, TreesOfCalls, TreesOfFail DEF Serves
  <1>3. CASE L!ReadToRegister \/ L!WriteRegistered \/ L!OtherJobs
    BY <1>1, <1>3 DEF L!ReadToRegister, L!WriteRegistered, L!OtherJobs, L!files
  <1> QED
    BY <1>1, <1>2, <1>3, TreesOfUser DEF MCNext, everything, lifecycle, L!Next, Serves

\* At first the project is at the source.
LEMMA TreesInit == MCInit => Trees
  <1> SUFFICES ASSUME MCInit
               PROVE  Trees
    OBVIOUS
  <1>1. /\ service = [s \in Services |-> L!NoCall] /\ journal = None
        /\ tree = [p \in L!Places |-> IF p = "source" THEN L!Project ELSE L!Nothing]
    BY DEF MCInit, L!Init
  <1>2. /\ tree["source"].kind = "whole" /\ tree["source"].mark = NoOwner
        /\ tree["stage"].kind = "none" /\ tree["stage"].mark = NoOwner
        /\ tree["destination"].kind = "none" /\ tree["destination"].mark = NoOwner
    BY <1>1, DataTyped DEF L!Places
  <1>3. TreeInv
    BY <1>1, <1>2 DEF TreeInv, Marks, InPlace, Present, Cloned, Moved, L!Places
  <1>4. \A s \in Services : TreeStep(service[s])
    BY <1>1 DEF TreeStep, ForwardTree, BackwardTree, Delivered, L!UndoRest, L!NoCall
  <1> QED
    BY <1>3, <1>4 DEF Trees

\* Whatever fails but the write of the committed record, the journal says where the project is.
THEOREM JournalLeadsToTheProject ==
  ASSUME "commit" \notin Failing
  PROVE  MCSpec => []TreeInv
  <1>1. Ctl /\ Trees /\ [MCNext]_everything => Ctl' /\ Trees'
    BY CtlPreserved, TreesPreserved
  <1>2. Trees => TreeInv
    BY DEF Trees
  <1> QED
    BY <1>1, <1>2, CtlInit, TreesInit, PTL DEF MCSpec
\* No tree that is whole loses what its user wrote.
KeepsTexts == \A p \in L!Places : tree[p].kind = "whole" =>
  \E q \in L!Places :
    /\ tree'[q].kind = "whole"
    /\ tree'[q].project.text = tree[p].project.text /\ tree'[q].job.text = tree[p].job.text

\* One tree is replaced by one with the same texts.
LEMMA TextsOfOne ==
  ASSUME tree \in [L!Places -> L!Tree], NEW place \in L!Places, NEW x,
         tree' = [tree EXCEPT ![place] = x], x.kind = tree[place].kind,
         x.project.text = tree[place].project.text, x.job.text = tree[place].job.text
  PROVE  KeepsTexts
  <1>1. tree'[place] = x /\ \A p \in L!Places : p # place => tree'[p] = tree[p]
    BY TreeAt
  <1>2. \A p \in L!Places : /\ tree'[p].kind = tree[p].kind
                            /\ tree'[p].project.text = tree[p].project.text
                            /\ tree'[p].job.text = tree[p].job.text
    BY <1>1
  <1> QED
    BY <1>2 DEF KeepsTexts

\* One tree is renamed to where none was.
LEMMA TextsOfRename ==
  ASSUME tree \in [L!Places -> L!Tree], NEW from \in L!Places, NEW to \in L!Places, from # to,
         tree' = L!Renamed(from, to), tree[to].kind # "whole"
  PROVE  KeepsTexts
  <1>1. /\ tree'[to] = tree[from]
        /\ \A p \in L!Places : p \notin {from, to} => tree'[p] = tree[p]
    BY TreeRenamed
  <1>2. ASSUME NEW p \in L!Places, tree[p].kind = "whole"
        PROVE  \E q \in L!Places : tree'[q] = tree[p]
    <2>1. CASE p = from
      BY <1>1, <2>1
    <2>2. CASE p # from
      BY <1>1, <1>2, <2>2
    <2> QED
      BY <2>1, <2>2
  <1> QED
    BY <1>2 DEF KeepsTexts

\* Where no tree changes no text does.
LEMMA TextsOfSame ==
  ASSUME tree' = tree
  PROVE  KeepsTexts
  BY DEF KeepsTexts

\* Taking a mark away keeps the texts.
LEMMA TextsOfUnmarked ==
  ASSUME tree \in [L!Places -> L!Tree], NEW place \in L!Places, NEW t,
         tree' = L!Unmarked(place, t)
  PROVE  KeepsTexts
  <1>1. CASE tree[place].mark = t
    <2>1. PICK x : x = [tree[place] EXCEPT !.mark = NoOwner]
      OBVIOUS
    <2>2. x.kind = tree[place].kind /\ x.project = tree[place].project /\ x.job = tree[place].job
      BY <2>1, TreeEdit
    <2>3. tree' = [tree EXCEPT ![place] = x]
      BY <1>1, <2>1 DEF L!Unmarked
    <2> QED
      BY <2>2, <2>3, TextsOfOne
  <1>2. CASE tree[place].mark # t
    BY <1>2, TextsOfSame DEF L!Unmarked
  <1> QED
    BY <1>1, <1>2

\* The steps of a move that has to put its rewrite into the tree, or to take it back.
LEMMA TextsOfRewrite ==
  ASSUME Ctl, Trees, NEW s \in Services, L!Rewrite(s), journal.action = "move"
  PROVE  KeepsTexts
  <1>1. service[s].pc = "rewrite"
    BY DEF L!Rewrite, L!At
  <1>2. /\ tree \in [L!Places -> L!Tree] /\ tree["stage"] \in L!Tree
        /\ L!Txn(s) \in Lifecycles /\ service[s].plan \in L!Plan /\ L!Action(s) = "move"
        /\ tree["stage"].project = service[s].plan.project
    BY <1>1, TreeTells DEF ForwardTree, L!Forward, L!Action
  <1>3. PICK c : c = L!Rewritten(service[s].plan.project, L!Txn(s))
    OBVIOUS
  <1>4. c \in L!Content /\ c.text = tree["stage"].project.text
    BY <1>2, <1>3, DataTyped DEF L!Plan
  <1>5. PICK x : x = [tree["stage"] EXCEPT !.project = c]
    OBVIOUS
  <1>6. x.kind = tree["stage"].kind /\ x.project = c /\ x.job = tree["stage"].job
    BY <1>2, <1>4, <1>5, TreeEdit
  <1>7. tree' = [tree EXCEPT !["stage"] = x]
    BY <1>2, <1>3, <1>5 DEF L!Rewrite
  <1> QED
    BY <1>2, <1>4, <1>6, <1>7, TextsOfOne DEF L!Places

\* project.yaml was saved anew since the recovery of a move compared it, and is put back.
RestoresUnseen(s) ==
  L!RestoreMoved(s) /\ tree[service[s].owned].project.text # service[s].current.text

\* What the recovery of a move puts back, and where.
LEMMA RestoreMovedTells ==
  ASSUME Ctl, NEW s \in Services, L!RestoreMoved(s)
  PROVE  /\ service[s].pc = "restore" /\ service[s].owned \in L!Places
         /\ service[s].current.text = service[s].rec.project.text
         /\ \E x : /\ tree' = [tree EXCEPT ![service[s].owned] = x]
                   /\ x.kind = tree[service[s].owned].kind
                   /\ x.project = service[s].rec.project
                   /\ x.job = tree[service[s].owned].job
  <1>1. /\ service[s].pc = "restore"
        /\ tree' = [tree EXCEPT ![service[s].owned]["project"] = service[s].rec["project"]]
    BY DEF L!RestoreMoved, L!Restore, L!At, L!Rec
  <1>2. /\ service[s].rec \in L!Record /\ ActionOk(service[s], "restore") /\ FilesTyped
    BY <1>1, CtlTells
  <1>3. PICK owned : owned = service[s].owned
    OBVIOUS
  <1>4. /\ owned \in L!Places /\ service[s].current.text = service[s].rec.project.text
        /\ tree[owned] \in L!Tree /\ service[s].rec.project \in L!Content
    BY <1>2, <1>3 DEF ActionOk, L!Places, FilesTyped, L!Record
  <1>5. PICK x : x = [tree[owned] EXCEPT !.project = service[s].rec.project]
    OBVIOUS
  <1>6. /\ x.kind = tree[owned].kind /\ x.project = service[s].rec.project
        /\ x.job = tree[owned].job
    BY <1>4, <1>5, TreeEdit
  <1>7. tree' = [tree EXCEPT ![owned] = x]
    BY <1>1, <1>3, <1>5
  <1> QED
    BY <1>1, <1>3, <1>4, <1>6, <1>7

\* The recovery of a move puts back only what its own rewrite left there.
LEMMA TextsOfRestoreMoved ==
  ASSUME Ctl, NEW s \in Services, L!RestoreMoved(s), ~RestoresUnseen(s)
  PROVE  KeepsTexts
  <1>1. PICK owned \in L!Places : owned = service[s].owned
    BY RestoreMovedTells
  <1>2. tree[owned].project.text = service[s].rec.project.text
    BY <1>1, RestoreMovedTells DEF RestoresUnseen
  <1>3. PICK x : /\ tree' = [tree EXCEPT ![owned] = x] /\ x.kind = tree[owned].kind
                 /\ x.project = service[s].rec.project /\ x.job = tree[owned].job
    BY <1>1, RestoreMovedTells
  <1>4. tree \in [L!Places -> L!Tree]
    BY DEF Ctl, L!TypeOK
  <1> QED
    BY <1>2, <1>3, <1>4, TextsOfOne

\* What was saved in between is the only text that goes.
LEMMA TextsOfUnseen ==
  ASSUME Ctl, NEW s \in Services, RestoresUnseen(s), NEW f \in {"project", "job"}
  PROVE  L!Editions(f) \ L!Unseen(f) \subseteq L!Editions(f)'
  <1>1. PICK owned \in L!Places : owned = service[s].owned
    BY RestoreMovedTells DEF RestoresUnseen
  <1>2. PICK x : /\ tree' = [tree EXCEPT ![owned] = x] /\ x.kind = tree[owned].kind
                 /\ x.project = service[s].rec.project /\ x.job = tree[owned].job
    BY <1>1, RestoreMovedTells DEF RestoresUnseen
  <1>3. /\ tree'[owned] = x
        /\ \A p \in L!Places : p # owned => tree'[p] = tree[p]
    BY <1>2, TreeAt DEF Ctl, L!TypeOK
  <1>4. L!At(s, "restore") /\ tree[owned].project.text # service[s].current.text
    BY <1>1 DEF RestoresUnseen, L!RestoreMoved
  <1>5. ASSUME NEW p \in L!Places, tree[p].kind = "whole", tree[p][f].text \notin L!Unseen(f)
        PROVE  tree[p][f].text \in L!Editions(f)'
    <2>1. CASE p # owned
      BY <1>3, <1>5, <2>1 DEF L!Editions
    <2>2. CASE p = owned /\ f = "job"
      <3>1. tree'[p].kind = "whole" /\ tree'[p][f].text = tree[p][f].text
        BY <1>2, <1>3, <1>5, <2>2
      <3> QED
        BY <3>1 DEF L!Editions
    <2>3. CASE p = owned /\ f = "project"
      <3>1. tree[p][f].text \in L!Editions(f) /\ tree[p][f].text = tree[service[s].owned].project.text
        BY <1>1, <1>5, <2>3 DEF L!Editions
      <3>2. tree[p][f].text \in L!Unseen(f)
        BY <1>1, <1>4, <2>3, <3>1 DEF L!Unseen
      <3> QED
        BY <1>5, <3>2
    <2> QED
      BY <2>1, <2>2, <2>3
  <1> QED
    BY <1>5 DEF L!Editions

\* No step of a move, forward or back, loses a text of the user's.
LEMMA TextsOfMove ==
  ASSUME Ctl, Trees, "commit" \notin Failing, [MCNext]_everything,
         journal # None, journal.action = "move", troubles' = troubles,
         \A s \in Services : ~RestoresUnseen(s)
  PROVE  KeepsTexts
  <1>1. tree \in [L!Places -> L!Tree] /\ troubles \in Nat
    BY DEF Ctl, L!TypeOK
  <1>2. ASSUME NEW s \in Services, L!Advance(s)
        PROVE  KeepsTexts
    <2>1. CASE L!Copy(s) \/ L!Fill(s) \/ L!RewriteJob(s)
      <3>1. service[s].pc \in {"copy", "fill", "rewriteJob"}
        BY <2>1 DEF L!Copy, L!Fill, L!RewriteJob, L!At
      <3>2. ActionOk(service[s], service[s].pc)
        BY <3>1, CtlTells
      <3>3. CASE service[s].pc = "fill"
        BY <3>2, <3>3 DEF ActionOk
      <3> QED
        BY <3>1, <3>2, <3>3 DEF ActionOk
    <2>2. CASE L!MoveOut(s)
      <3>1. service[s].pc = "out" /\ tree' = L!Renamed("source", "stage")
        BY <2>2 DEF L!MoveOut, L!At
      <3>2. AtSource
        BY <3>1, TreeTells DEF ForwardTree
      <3> QED
        BY <1>1, <3>1, <3>2, TextsOfRename DEF AtSource, L!Places
    <2>3. CASE L!Mark(s)
      <3>1. service[s].pc = "mark"
        BY <2>3 DEF L!Mark, L!At
      <3>2. L!Txn(s) \in Lifecycles /\ tree["stage"] \in L!Tree
        BY <3>1, TreeTells
      <3>3. PICK x : x = [tree["stage"] EXCEPT !.mark = L!Txn(s)]
        OBVIOUS
      <3>4. x.kind = tree["stage"].kind /\ x.project = tree["stage"].project
            /\ x.job = tree["stage"].job
        BY <3>2, <3>3, TreeEdit
      <3>5. tree' = [tree EXCEPT !["stage"] = x]
        BY <2>3, <3>3 DEF L!Mark
      <3> QED
        BY <1>1, <3>4, <3>5, TextsOfOne DEF L!Places
    <2>4. CASE L!Publish(s)
      BY <1>1, <2>4, TextsOfRename, TextsOfSame DEF L!Publish, L!Places
    <2>5. CASE L!Unmark(s)
      BY <1>1, <2>5, TextsOfUnmarked DEF L!Unmark, L!Places
    <2>6. CASE L!Rewrite(s)
      BY <2>6, TextsOfRewrite
    <2>7. CASE \/ L!Begin(s) \/ L!Inspect(s) \/ L!ProjectRegistry(s) \/ L!CheckRegistry(s)
               \/ L!WriteRegistry(s) \/ L!ProjectLedger(s) \/ L!MergeLedger(s) \/ L!Commit(s)
               \/ L!ReleaseReceipt(s) \/ L!Forget(s)
      <3>1. tree' = tree
        BY <2>7 DEF L!Begin, L!Inspect, L!ProjectRegistry, L!CheckRegistry, L!WriteRegistry,
          L!ProjectLedger, L!MergeLedger, L!Commit, L!ReleaseReceipt, L!Forget, L!files
      <3> QED
        BY <3>1, TextsOfSame
    <2> QED
      BY <1>2, <2>1, <2>2, <2>3, <2>4, <2>5, <2>6, <2>7 DEF L!Advance
  <1>3. ASSUME NEW s \in Services, L!Recover(s)
        PROVE  KeepsTexts
    <2>1. CASE L!RemoveSome(s) \/ L!RemoveRest(s)
      <3>1. service[s].pc = "removing"
        BY <2>1 DEF L!RemoveSome, L!RemoveRest, L!At
      <3> QED
        BY <3>1, CtlTells DEF ActionOk
    <2>2. CASE L!RestoreProject(s) \/ L!RestoreJob(s)
      <3>1. service[s].pc \in {"restoreProject", "restoreJob"}
        BY <2>2, RestoreAdoptedTells
      <3> QED
        BY <3>1, TreeTells DEF ActionOk
    <2>3. CASE L!MoveBack(s)
      <3>1. \/ /\ service[s].owned \in {"stage", "destination"}
               /\ tree["source"].kind = "none" /\ tree' = L!Renamed(service[s].owned, "source")
            \/ tree' = tree
        BY <2>3, BackTells
      <3> QED
        BY <1>1, <3>1, TextsOfRename, TextsOfSame DEF L!Places
    <2>4. CASE L!FinishUndo(s)
      BY <1>1, <2>4, TextsOfUnmarked, TextsOfSame DEF L!FinishUndo, L!Places
    <2>5. CASE \/ L!BeginRecovery(s) \/ L!Finalize(s) \/ L!UndoClone(s) \/ L!Authority(s)
               \/ L!UndoMove(s) \/ L!UndoAdopt(s) \/ L!UndoAdoptJob(s)
               \/ L!UndoLedger(s) \/ L!ReadRegistry(s) \/ L!RestoreRegistry(s)
      <3>1. tree' = tree
        BY <2>5 DEF L!BeginRecovery, L!Finalize, L!UndoClone, L!Authority, L!UndoMove,
          L!UndoAdopt, L!UndoAdoptJob, L!UndoFile, L!UndoLedger, L!ReadRegistry,
          L!RestoreRegistry, L!files
      <3> QED
        BY <3>1, TextsOfSame
    <2> QED
      BY <1>3, <2>1, <2>2, <2>3, <2>4, <2>5, TextsOfRestoreMoved DEF L!Recover
  <1>4. ASSUME NEW s \in Services,
               \/ \E action \in L!Actions : L!Preflight(s, action)
               \/ L!Apply(s) \/ L!Fail(s) \/ L!Crash(s)
        PROVE  KeepsTexts
    <2>1. tree' = tree
      BY <1>4 DEF L!Preflight, L!Apply, L!Fail, L!Crash, L!files
    <2> QED
      BY <2>1, TextsOfSame
  <1>5. ~L!User
    BY <1>1 DEF L!User, L!Trouble
  <1>6. CASE L!ReadToRegister \/ L!WriteRegistered \/ L!OtherJobs
    BY <1>6, TextsOfSame DEF L!ReadToRegister, L!WriteRegistered, L!OtherJobs, L!files
  <1>7. CASE UNCHANGED lifecycle
    BY <1>7, TextsOfSame DEF lifecycle
  <1> QED
    BY <1>2, <1>3, <1>4, <1>5, <1>6, <1>7 DEF MCNext, everything, L!Next

\* MoveKeepsEdits, whatever fails but the write of the committed record: a move renames the
\* tree only to where none is, and its recovery takes back only what it compared with the
\* rewrite of its own, which keeps the text, unless the file was saved once more before the
\* write (_apply_move, _restore_file_projection, _move_source_is_authoritative).
THEOREM MovesKeepEditions ==
  ASSUME "commit" \notin Failing
  PROVE  MCSpec => MoveKeepsEdits
  <1>1. Ctl /\ Trees /\ [MCNext]_everything => Ctl' /\ Trees'
    BY CtlPreserved, TreesPreserved
  <1>2. Ctl /\ Trees /\ [MCNext]_everything
          => [/\ journal # None /\ journal.action = "move"
              /\ troubles' = troubles
              => \A f \in {"project", "job"} :
                   L!Editions(f) \ L!Unseen(f) \subseteq L!Editions(f)']_L!vars
    <2> SUFFICES ASSUME Ctl, Trees, [MCNext]_everything,
                        journal # None, journal.action = "move", troubles' = troubles,
                        NEW f \in {"project", "job"}
                 PROVE  L!Editions(f) \ L!Unseen(f) \subseteq L!Editions(f)'
      OBVIOUS
    <2>1. CASE \E s \in Services : RestoresUnseen(s)
      BY <2>1, TextsOfUnseen
    <2>2. ASSUME \A s \in Services : ~RestoresUnseen(s),
                 NEW p \in L!Places, tree[p].kind = "whole"
          PROVE  tree[p][f].text \in L!Editions(f)'
      <3> KeepsTexts
        BY <2>2, TextsOfMove
      <3>1. PICK q \in L!Places :
              /\ tree'[q].kind = "whole"
              /\ tree'[q].project.text = tree[p].project.text
              /\ tree'[q].job.text = tree[p].job.text
        BY <2>2 DEF KeepsTexts
      <3>2. tree'[q][f].text = tree[p][f].text
        BY <3>1
      <3> QED
        BY <3>1, <3>2 DEF L!Editions
    <2> QED
      BY <2>1, <2>2 DEF L!Editions
  <1> QED
    BY <1>1, <1>2, CtlInit, TreesInit, PTL DEF MCSpec, MoveKeepsEdits, L!MoveKeepsEdits
-----------------------------------------------------------------------------
(* The registry.                                                                *)

\* What a transaction announces of the registry: a copy or a moved project appears, an
\* adoption leaves the destination's entry as it was.
Announced(rec) ==
  /\ rec.action # "adopt" =>
       /\ "destination" \notin rec.registry
       /\ rec.projection # {} => "destination" \in rec.projection
  /\ rec.action = "move" => "source" \notin rec.projection
  /\ rec.action = "adopt" /\ rec.projection # {} =>
       ("destination" \in rec.projection <=> "destination" \in rec.registry)

\* What the registry says of the directory, and what the journal says of the registry.
Settled == journal = None \/ journal.action = "adopt" =>
  /\ "source" \in registry => tree["source"].kind = "whole"
  /\ ("destination" \in registry <=> tree["destination"].kind = "whole")
Brought ==
  "destination" \in registry /\ (journal.action = "move" => "source" \notin registry)
Told == journal # None =>
  /\ Announced(journal)
  /\ journal.action = "adopt" =>
       ("destination" \in journal.registry <=> "destination" \in registry)
  /\ journal.action # "adopt" /\ journal.status = "committed" => Brought
  /\ journal.action # "adopt" /\ journal.status # "committed" /\ journal.projection = {} =>
       "destination" \notin registry

\* What a call knows of the registry.
RegistryStep(c, pc) ==
  /\ pc = "begin" => ("destination" \in c.plan.registry <=> "destination" \in registry)
  /\ pc \notin {"idle", "begin"} => Announced(c.rec)
  /\ pc \in L!Forward \ {"begin"} =>
       ("destination" \in c.plan.registry <=> "destination" \in journal.registry)
  /\ pc \in {"projectLedger", "merge", "commit"} /\ journal.action # "adopt" => Brought
  /\ pc = "restoreRegistry" => ("destination" \in c.seen <=> "destination" \in registry)
  /\ pc = "finish" /\ ~c.failed /\ journal.action # "adopt" => "destination" \notin registry
  /\ pc = "forget" /\ journal.action # "adopt" /\ journal.status # "committed" =>
       "destination" \notin registry

\* Unless somebody overwrote what he had not seen.
Registers ==
  ~raced => Settled /\ Told /\ \A s \in Services : RegistryStep(service[s], service[s].pc)

\* A transaction that adopts leaves the destination alone.
LEMMA DestinationOfAdopt ==
  ASSUME Ctl, Trees, NEW s \in Services, Serves(s),
         journal # None /\ journal.action = "adopt"
  PROVE  tree'["destination"].kind = tree["destination"].kind
  <1>1. tree \in [L!Places -> L!Tree] /\ tree["destination"] \in L!Tree
    BY DEF Ctl, L!TypeOK, L!Places
  <1>2. CASE \/ \E action \in L!Actions : L!Preflight(s, action)
             \/ L!Apply(s) \/ L!Fail(s) \/ L!Crash(s)
    BY <1>2 DEF L!Preflight, L!Apply, L!Fail, L!Crash, L!files
  <1>3. CASE L!Advance(s)
    <2>1. CASE \/ L!Begin(s) \/ L!Inspect(s) \/ L!ProjectRegistry(s) \/ L!CheckRegistry(s)
               \/ L!WriteRegistry(s) \/ L!ProjectLedger(s) \/ L!MergeLedger(s) \/ L!Commit(s)
               \/ L!ReleaseReceipt(s) \/ L!Forget(s)
      BY <2>1 DEF L!Begin, L!Inspect, L!ProjectRegistry, L!CheckRegistry, L!WriteRegistry,
        L!ProjectLedger, L!MergeLedger, L!Commit, L!ReleaseReceipt, L!Forget, L!files
    <2>2. CASE L!Copy(s) \/ L!Fill(s) \/ L!MoveOut(s) \/ L!Mark(s) \/ L!Publish(s)
      <3>1. service[s].pc \in {"copy", "fill", "out", "mark", "publish"}
        BY <2>2 DEF L!Copy, L!Fill, L!MoveOut, L!Mark, L!Publish, L!At
      <3> QED
        BY <3>1, CtlTells DEF ActionOk
    <2>3. CASE L!Rewrite(s)
      <3>1. service[s].pc = "rewrite"
        BY <2>3 DEF L!Rewrite, L!At
      <3>2. service[s].plan.action = "adopt"
        BY <3>1, TreeTells DEF L!Forward
      <3>3. PICK x : tree' = [tree EXCEPT !["source"] = x]
        BY <2>3, <3>2 DEF L!Rewrite, L!Action
      <3> QED
        BY <1>1, <3>3, TreeAt DEF L!Places
    <2>4. CASE L!RewriteJob(s)
      <3>1. PICK x : tree' = [tree EXCEPT !["source"] = x]
        BY <2>4 DEF L!RewriteJob
      <3> QED
        BY <1>1, <3>1, TreeAt DEF L!Places
    <2>5. CASE L!Unmark(s)
      <3>1. \/ tree' = tree
            \/ tree' = [tree EXCEPT !["destination"] = [tree["destination"] EXCEPT !.mark = NoOwner]]
        BY <2>5 DEF L!Unmark, L!Unmarked
      <3>2. PICK x : x = [tree["destination"] EXCEPT !.mark = NoOwner]
        OBVIOUS
      <3>3. x.kind = tree["destination"].kind
        BY <1>1, <3>2, TreeEdit
      <3>4. tree' = tree \/ tree' = [tree EXCEPT !["destination"] = x]
        BY <3>1, <3>2
      <3> QED
        BY <1>1, <3>3, <3>4, TreeAt DEF L!Places
    <2> QED
      BY <1>3, <2>1, <2>2, <2>3, <2>4, <2>5 DEF L!Advance
  <1>4. CASE L!Recover(s)
    <2>1. CASE \/ L!BeginRecovery(s) \/ L!Finalize(s) \/ L!UndoClone(s) \/ L!Authority(s)
               \/ L!UndoAdopt(s) \/ L!UndoAdoptJob(s)
               \/ L!UndoLedger(s) \/ L!ReadRegistry(s) \/ L!RestoreRegistry(s)
      BY <2>1 DEF L!BeginRecovery, L!Finalize, L!UndoClone, L!Authority, L!UndoAdopt,
        L!UndoAdoptJob, L!UndoFile, L!UndoLedger,
        L!ReadRegistry, L!RestoreRegistry, L!files
    <2>2. CASE L!RemoveSome(s) \/ L!RemoveRest(s) \/ L!RestoreMoved(s) \/ L!MoveBack(s)
      <3>1. service[s].pc \in {"removing", "restore", "back"}
        BY <2>2 DEF L!RemoveSome, L!RemoveRest, L!RestoreMoved, L!MoveBack, L!At
      <3> QED
        BY <3>1, CtlTells DEF ActionOk
    <2>3. CASE L!UndoMove(s)
      BY <2>3, UndoMoveTells
    <2>4. CASE L!RestoreProject(s) \/ L!RestoreJob(s)
      <3>1. PICK f \in {"project", "job"} :
              tree' = [tree EXCEPT !["source"] = [tree["source"] EXCEPT ![f] = service[s].rec[f]]]
        BY <2>4, RestoreAdoptedTells
      <3> QED
        BY <1>1, <3>1, TreeAt DEF L!Places
    <2>5. CASE L!FinishUndo(s)
      <3>1. service[s].pc = "finish"
        BY <2>5 DEF L!FinishUndo, L!At
      <3>2. L!Rec(s).action = "adopt"
        BY <3>1, TreeTells DEF L!Rec
      <3> QED
        BY <2>5, <3>2 DEF L!FinishUndo
    <2> QED
      BY <1>4, <2>1, <2>2, <2>3, <2>4, <2>5 DEF L!Recover
  <1> QED
    BY <1>2, <1>3, <1>4 DEF Serves

\* A step of a call that leaves registry and journal as they were.
LEMMA RegistersKept ==
  ASSUME Ctl, Trees, Trees', Registers, NEW s \in Services, Serves(s),
         UNCHANGED <<registry, journal, raced>>,
         UNCHANGED tree \/ service[s].pc \notin {"idle", "begin"},
         ~raced => RegistryStep(service[s], service[s].pc)'
  PROVE  Registers'
  <1> SUFFICES ASSUME ~raced
               PROVE  /\ Settled' /\ Told'
                      /\ \A d \in Services : RegistryStep(service[d], service[d].pc)'
    BY DEF Registers
  <1>1. Settled /\ Told
    BY DEF Registers
  <1>2. service[s].pc \notin {"idle", "begin"} => journal # None
    BY Underway
  <1>3. journal # None /\ journal.action = "adopt" =>
          /\ tree'["source"].kind = "whole"
          /\ tree'["destination"].kind = tree["destination"].kind
    BY DestinationOfAdopt DEF Trees, TreeInv, Present
  <1>4. Settled'
    BY <1>1, <1>2, <1>3 DEF Settled
  <1>5. Told'
    BY <1>1 DEF Told, Brought
  <1>6. \A d \in Services : d # s => service'[d].pc = "idle"
    BY OnlyCaller
  <1>7. \A d \in Services : RegistryStep(service[d], service[d].pc)'
    BY <1>6 DEF RegistryStep, L!Forward
  <1> QED
    BY <1>4, <1>5, <1>7

\* What a call knows of the registry while its transaction is under way.
LEMMA RegistryTells ==
  ASSUME Ctl, Registers, ~raced, NEW s \in Services, service[s].pc \notin {"idle", "begin"}
  PROVE  /\ Settled /\ Told /\ Announced(journal) /\ Announced(service[s].rec)
         /\ RegistryStep(service[s], service[s].pc)
         /\ journal # None /\ journal \in L!Record /\ service[s].rec \in L!Record
         /\ journal.action \in {"clone", "move", "adopt"}
         /\ service \in [Services -> L!Call] /\ SameTransaction(service[s].rec)
         /\ StatusOk(service[s], service[s].pc)
         /\ service[s].pc \in L!Forward =>
              service[s].plan \in L!Plan /\ service[s].plan.action = journal.action
  <1>1. /\ journal # None /\ journal \in L!Record /\ service[s].rec \in L!Record
        /\ service \in [Services -> L!Call] /\ SameTransaction(service[s].rec)
        /\ StatusOk(service[s], service[s].pc)
        /\ service[s].pc \in L!Forward => service[s].plan \in L!Plan
    BY CtlTells
  <1>2. Settled /\ Told /\ RegistryStep(service[s], service[s].pc)
    BY DEF Registers
  <1>3. Announced(journal) /\ Announced(service[s].rec)
    BY <1>1, <1>2 DEF Told, RegistryStep
  <1>4. journal.action \in {"clone", "move", "adopt"}
    BY <1>1 DEF L!Record, L!Actions
  <1> QED
    BY <1>1, <1>2, <1>3, <1>4 DEF StatusOk

\* A record that announces what another does.
LEMMA AnnouncedAlike ==
  ASSUME NEW a, NEW b, Announced(a), b.action = a.action, b.registry = a.registry,
         b.projection = a.projection
  PROVE  Announced(b)
  BY DEF Announced

\* The next write of the journal announces what it should.
LEMMA AnnouncedNext ==
  ASSUME Ctl, Registers, ~raced, NEW s \in Services, service[s].pc \in L!Forward \ {"begin"}
  PROVE  Announced(L!NextRecord(s))
  <1>1. service[s].pc \notin {"idle", "begin"} /\ service[s].pc \in L!Forward
    BY DEF L!Forward
  <1>2. /\ Announced(journal) /\ journal.action \in {"clone", "move", "adopt"}
        /\ RegistryStep(service[s], service[s].pc)
        /\ service[s].plan.action = journal.action
    BY <1>1, RegistryTells
  <1>3. PICK rec : rec = L!NextRecord(s)
    OBVIOUS
  <1>4. rec.action = journal.action /\ rec.registry = journal.registry
    BY <1>3, NextTells
  <1>5. CASE service[s].pc = "projectRegistry"
    <2>1. rec.projection =
            (service[s].plan.registry \ (IF journal.action = "move" THEN {"source"} ELSE {}))
              \union {IF journal.action = "adopt" THEN "source" ELSE "destination"}
      BY <1>2, <1>3, <1>5, NextTells
    <2>2. "destination" \in service[s].plan.registry <=> "destination" \in journal.registry
      BY <1>2, <1>5 DEF RegistryStep, L!Forward
    <2>3. Announced(rec)
      BY <1>2, <1>4, <2>1, <2>2 DEF Announced
    <2> QED
      BY <1>3, <2>3
  <1>6. CASE service[s].pc # "projectRegistry"
    <2>1. rec.projection = journal.projection
      BY <1>3, <1>6, NextTells
    <2>2. Announced(rec)
      BY <1>2, <1>4, <2>1, AnnouncedAlike
    <2> QED
      BY <1>3, <2>2
  <1> QED
    BY <1>5, <1>6

\* The directory is brought about, the plan compared and the ledger merged; an exception undoes.
LEMMA RegistersOfForward ==
  ASSUME Ctl, Trees, Trees', Registers, NEW s \in Services,
         \/ L!Copy(s) \/ L!Fill(s) \/ L!MoveOut(s) \/ L!Mark(s) \/ L!Rewrite(s) \/ L!RewriteJob(s)
         \/ L!Publish(s) \/ L!CheckRegistry(s) \/ L!MergeLedger(s)
  PROVE  Registers'
  <1>1. /\ service \in [Services -> L!Call] /\ UNCHANGED <<registry, journal, raced>> /\ Serves(s)
        /\ service[s].pc \in L!Forward \ {"begin"}
    BY DEF Ctl, L!TypeOK, Serves, L!Advance, L!files, L!others, L!Copy, L!Fill, L!MoveOut, L!Mark,
      L!Rewrite, L!RewriteJob, L!Publish, L!CheckRegistry, L!MergeLedger, L!At, L!Forward
  <1>2. service[s].pc \notin {"idle", "begin"} /\ service[s].pc \in L!Forward
    BY <1>1 DEF L!Forward
  <1>3. \/ L!Undo(s)
        \/ \E pc \in {"fill", "publish", "mark", "inspect", "rewriteJob", "projectRegistry",
                      "writeRegistry"} : L!Goto(s, pc)
        \/ service[s].pc = "merge" /\ L!Goto(s, "commit")
    BY DEF L!Copy, L!Fill, L!MoveOut, L!Mark, L!Rewrite, L!RewriteJob, L!Publish,
      L!CheckRegistry, L!MergeLedger, L!At
  <1>4. ASSUME ~raced
        PROVE  RegistryStep(service[s], service[s].pc)'
    <2>1. /\ Announced(service[s].rec) /\ RegistryStep(service[s], service[s].pc)
      BY <1>2, <1>4, RegistryTells
    <2>2. CASE L!Undo(s)
      <3>1. service'[s].pc = "undo" /\ service'[s].rec = service[s].rec
        BY <1>1, <2>2, AfterUndo
      <3> QED
        BY <2>1, <3>1 DEF RegistryStep, Announced, L!Forward
    <2>3. ASSUME NEW pc, L!Goto(s, pc),
                 \/ pc \in {"fill", "publish", "mark", "inspect", "rewriteJob",
                            "projectRegistry", "writeRegistry"}
                 \/ service[s].pc = "merge" /\ pc = "commit"
          PROVE  RegistryStep(service[s], service[s].pc)'
      <3>1. /\ service'[s].pc = pc /\ service'[s].rec = service[s].rec
            /\ service'[s].plan = service[s].plan
        BY <1>1, <2>3, AfterGoto
      <3>2. "destination" \in service[s].plan.registry <=> "destination" \in journal.registry
        BY <1>1, <2>1 DEF RegistryStep
      <3>3. pc = "commit" /\ journal.action # "adopt" => Brought
        BY <2>1, <2>3 DEF RegistryStep
      <3>4. Announced(service[s].rec)' /\ (Brought' <=> Brought)
        BY <1>1, <2>1, <3>1 DEF Announced, Brought
      <3> QED
        BY <1>1, <2>3, <3>1, <3>2, <3>3, <3>4 DEF RegistryStep
    <2> QED
      BY <1>3, <2>2, <2>3
  <1> QED
    BY <1>1, <1>2, <1>4, RegistersKept

\* Everybody but the caller is idle, and knows nothing of the registry.
LEMMA RegistersOfCall ==
  ASSUME Ctl, NEW s \in Services, Serves(s),
         ~raced' => Settled' /\ Told' /\ RegistryStep(service[s], service[s].pc)'
  PROVE  Registers'
  <1>1. \A d \in Services : d # s => service'[d].pc = "idle"
    BY OnlyCaller
  <1>2. \A d \in Services : d # s => RegistryStep(service[d], service[d].pc)'
    BY <1>1 DEF RegistryStep, L!Forward
  <1> QED
    BY <1>2 DEF Registers

\* The journal announces the registry, and the commit what it says.
LEMMA RegistersOfJournal ==
  ASSUME Ctl, Trees, Trees', Registers, NEW s \in Services,
         L!Inspect(s) \/ L!ProjectRegistry(s) \/ L!ProjectLedger(s) \/ L!Commit(s)
  PROVE  Registers'
  <1>1. /\ service[s].pc \in {"inspect", "projectRegistry", "projectLedger", "commit"}
        /\ UNCHANGED <<tree, registry, raced>> /\ Serves(s)
        /\ service \in [Services -> L!Call]
    BY DEF Ctl, L!TypeOK, Serves, L!Advance, L!others, L!Inspect, L!ProjectRegistry,
      L!ProjectLedger, L!Commit, L!At
  <1>2. /\ service[s].pc \in L!Forward \ {"begin"} /\ service[s].pc \notin {"idle", "begin"}
        /\ service[s].pc \in L!Forward
    BY <1>1 DEF L!Forward
  <1>3. PICK rec : rec = L!NextRecord(s)
    OBVIOUS
  <1>4. \/ L!Undo(s) /\ UNCHANGED journal
        \/ \E pc \in {"rewrite", "checkRegistry", "merge", "release"} :
             /\ L!Journal(s, rec, pc)
             /\ pc = "release" <=> service[s].pc = "commit"
             /\ pc = "merge" <=> service[s].pc = "projectLedger"
    BY <1>3 DEF L!Inspect, L!ProjectRegistry, L!ProjectLedger, L!Commit, L!At
  <1>5. CASE L!Undo(s) /\ UNCHANGED journal
    <2>1. service'[s].pc = "undo" /\ service'[s].rec = service[s].rec
      BY <1>1, <1>5, AfterUndo
    <2>2. ~raced => RegistryStep(service[s], service[s].pc)'
      BY <1>2, <2>1, RegistryTells DEF RegistryStep, Announced, L!Forward
    <2> QED
      BY <1>1, <1>5, <2>2, RegistersKept
  <1>6. ASSUME NEW pc \in {"rewrite", "checkRegistry", "merge", "release"}, L!Journal(s, rec, pc),
               pc = "release" <=> service[s].pc = "commit",
               pc = "merge" <=> service[s].pc = "projectLedger", ~raced
        PROVE  Settled' /\ Told' /\ RegistryStep(service[s], service[s].pc)'
    <2>1. /\ journal' = rec /\ service'[s].pc = pc /\ service'[s].rec = rec
          /\ service'[s].plan = service[s].plan
      BY <1>1, <1>6, AfterJournal
    <2>2. /\ rec # None /\ rec.action = journal.action /\ rec.registry = journal.registry
          /\ rec.status = "committed" <=> service[s].pc = "commit"
      BY <1>2, <1>3, NextTells, LifecycleAssumptions DEF L!ConstantsAssumption
    <2>3. Announced(rec)
      BY <1>2, <1>3, <1>6, AnnouncedNext
    <2>4. /\ Settled /\ Told /\ RegistryStep(service[s], service[s].pc) /\ journal # None
          /\ StatusOk(service[s], service[s].pc)
      BY <1>2, <1>6, RegistryTells
    <2>5. /\ service[s].pc \in {"projectLedger", "commit"} /\ journal.action # "adopt" => Brought
          /\ "destination" \in service[s].plan.registry <=> "destination" \in journal.registry
      BY <1>2, <2>4 DEF RegistryStep
    <2>6. journal.status # "committed"
      BY <1>1, <2>4 DEF StatusOk
    <2>7. Settled'
      BY <1>1, <2>1, <2>2, <2>4 DEF Settled
    <2>8. Announced(journal)' /\ (Brought' <=> Brought)
      BY <1>1, <2>1, <2>2, <2>3 DEF Announced, Brought
    <2>9. service[s].pc # "projectRegistry" => rec.projection = journal.projection
      BY <1>2, <1>3, NextTells
    <2>10. service[s].pc = "projectRegistry" => journal.projection = {}
      BY <2>4 DEF StatusOk
    <2>11. rec.projection = {} => journal.projection = {}
      BY <2>9, <2>10
    <2>12. Told'
      BY <1>1, <2>1, <2>2, <2>4, <2>5, <2>6, <2>8, <2>11 DEF Told
    <2>13. Announced(service[s].rec)'
      BY <2>1, <2>3 DEF Announced
    <2>14. RegistryStep(service[s], service[s].pc)'
      BY <1>6, <2>1, <2>2, <2>5, <2>8, <2>13 DEF RegistryStep
    <2> QED
      BY <2>7, <2>12, <2>14
  <1> QED
    BY <1>1, <1>4, <1>5, <1>6, RegistersOfCall

\* The registry is replaced by what was announced.
LEMMA RegistersOfWrite ==
  ASSUME Ctl, Trees, Trees', Registers, NEW s \in Services, L!WriteRegistry(s)
  PROVE  Registers'
  <1>1. /\ service[s].pc = "writeRegistry" /\ UNCHANGED <<tree, journal>> /\ Serves(s)
        /\ service \in [Services -> L!Call] /\ registry' = service[s].rec.projection
        /\ ~raced' => ~raced /\ registry = service[s].plan.registry
        /\ L!Goto(s, "projectLedger")
    BY DEF Ctl, L!TypeOK, Serves, L!Advance, L!WriteRegistry, L!At, L!Rec
  <1>2. /\ service'[s].pc = "projectLedger" /\ service'[s].rec = service[s].rec
        /\ service'[s].plan = service[s].plan
    BY <1>1, AfterGoto
  <1>3. ASSUME ~raced, registry = service[s].plan.registry
        PROVE  Settled' /\ Told' /\ RegistryStep(service[s], service[s].pc)'
    <2>1. /\ Settled /\ Told /\ RegistryStep(service[s], service[s].pc) /\ journal # None
          /\ StatusOk(service[s], service[s].pc) /\ Announced(journal)
          /\ journal.action \in {"clone", "move", "adopt"}
      BY <1>1, <1>3, RegistryTells DEF L!Forward
    <2>2. service[s].rec = journal /\ journal.projection # {} /\ journal.status # "committed"
      BY <1>1, <2>1 DEF StatusOk, L!Forward
    <2>3. "destination" \in service[s].plan.registry <=> "destination" \in journal.registry
      BY <1>1, <2>1 DEF RegistryStep, L!Forward
    <2>4. journal.action # "adopt" => Brought'
      BY <1>1, <2>1, <2>2 DEF Announced, Brought
    <2>5. journal.action = "adopt" => ("destination" \in registry' <=> "destination" \in registry)
      BY <1>1, <1>3, <2>1, <2>2, <2>3 DEF Announced
    <2>6. journal.action = "adopt" => tree'["source"].kind = "whole"
      BY <1>1, <2>1 DEF Trees, TreeInv, Present
    <2>7. Settled'
      BY <1>1, <2>1, <2>5, <2>6 DEF Settled
    <2>8. Announced(journal)' /\ Announced(service[s].rec)'
      BY <1>1, <1>2, <2>1, <2>2 DEF Announced
    <2>9. Told'
      BY <1>1, <2>1, <2>2, <2>5, <2>8 DEF Told
    <2>10. RegistryStep(service[s], service[s].pc)'
      BY <1>1, <1>2, <2>3, <2>4, <2>8 DEF RegistryStep
    <2> QED
      BY <2>7, <2>9, <2>10
  <1> QED
    BY <1>1, <1>3, RegistersOfCall

\* A transaction begins with the registry that was planned.
LEMMA RegistersOfBegin ==
  ASSUME Ctl, Trees, Trees', Registers, NEW s \in Services, L!Begin(s)
  PROVE  Registers'
  <1>1. /\ service[s].pc = "begin" /\ UNCHANGED <<tree, registry, raced>> /\ Serves(s)
        /\ journal = None /\ service \in [Services -> L!Call] /\ service[s].plan # None
        /\ SoundPlan(service[s].plan)
    BY DEF Ctl, CallOk, L!TypeOK, L!Begin, L!others, L!At, Serves, L!Advance, L!Forward
  <1>2. ASSUME L!Return(s, "refused"), UNCHANGED journal
        PROVE  Registers'
    <2>1. RegistryStep(service[s], service[s].pc)'
      BY <1>1, <1>2, AfterReturn DEF RegistryStep, L!Forward
    <2> QED
      BY <1>1, <1>2, <2>1, RegistersKept
  <1>3. ASSUME NEW rec \in L!Record, NEW pc \in {"copy", "out", "inspect"},
               rec.action = service[s].plan.action, rec.status = "prepared", rec.projection = {},
               rec.registry = registry, L!Journal(s, rec, pc), ~raced
        PROVE  Settled' /\ Told' /\ RegistryStep(service[s], service[s].pc)'
    <2>1. /\ journal' = rec /\ service'[s].pc = pc /\ service'[s].rec = rec
          /\ service'[s].plan = service[s].plan /\ rec # None
      BY <1>1, <1>3, AfterJournal, LifecycleAssumptions DEF L!ConstantsAssumption
    <2>2. /\ Settled /\ ("destination" \in service[s].plan.registry <=> "destination" \in registry)
      BY <1>1, <1>3 DEF Registers, RegistryStep
    <2>3. rec.action # "adopt" => "destination" \notin registry
      BY <1>1, <1>3, <2>2 DEF SoundPlan
    <2>4. Announced(rec)
      BY <1>3, <2>3 DEF Announced
    <2>5. Announced(journal)' /\ Announced(service[s].rec)'
      BY <2>1, <2>4 DEF Announced
    <2>6. Settled'
      BY <1>1, <2>2 DEF Settled
    <2>7. Told'
      BY <1>1, <1>3, <2>1, <2>3, <2>5 DEF Told
    <2>8. RegistryStep(service[s], service[s].pc)'
      BY <1>3, <2>1, <2>2, <2>5 DEF RegistryStep
    <2> QED
      BY <2>6, <2>7, <2>8
  <1>4. \/ L!Return(s, "refused") /\ UNCHANGED journal
        \/ \E rec \in L!Record, pc \in {"copy", "out", "inspect"} :
             /\ rec.action = service[s].plan.action /\ rec.status = "prepared"
             /\ rec.projection = {} /\ rec.registry = registry /\ L!Journal(s, rec, pc)
    BY BeginTells
  <1> QED
    BY <1>1, <1>2, <1>3, <1>4, RegistersOfCall

\* Calls begin and end, and a committed transaction lets go of ledger and mark.
LEMMA RegistersOfCalls ==
  ASSUME Ctl, Trees, Trees', Registers, NEW s \in Services,
         \/ \E action \in L!Actions : L!Preflight(s, action)
         \/ L!Apply(s) \/ L!BeginRecovery(s) \/ L!Finalize(s) \/ L!ReleaseReceipt(s)
         \/ L!Unmark(s) \/ L!Crash(s)
  PROVE  Registers'
  <1>1. /\ service \in [Services -> L!Call] /\ UNCHANGED <<registry, journal, raced>> /\ Serves(s)
    BY DEF Ctl, L!TypeOK, Serves, L!Recover, L!Advance, L!files, L!others, L!Preflight, L!Apply,
      L!BeginRecovery, L!Finalize, L!ReleaseReceipt, L!Unmark, L!Crash
  <1>2. UNCHANGED tree \/ service[s].pc \notin {"idle", "begin"}
    BY DEF L!files, L!Preflight, L!Apply, L!BeginRecovery, L!Finalize, L!ReleaseReceipt,
      L!Unmark, L!Crash, L!At
  <1>3. ASSUME ~raced
        PROVE  RegistryStep(service[s], service[s].pc)'
    <2>1. CASE service'[s].pc = "idle"
      BY <2>1 DEF RegistryStep, L!Forward
    <2>2. ASSUME NEW action \in L!Actions, L!Preflight(s, action)
          PROVE  service'[s].pc = "idle"
      <3>1. PICK plan : service' = [service EXCEPT ![s].plan = plan]
        BY <2>2 DEF L!Preflight
      <3>2. service[s] \in L!Call /\ service'[s] = [service[s] EXCEPT !.plan = plan]
        BY <1>1, <3>1
      <3>3. service[s].pc = "idle"
        BY <2>2 DEF L!Preflight, L!Idle, L!At
      <3> QED
        BY <3>2, <3>3 DEF L!Call
    <2>3. CASE L!Apply(s)
      <3>1. CASE L!Return(s, "refused")
        BY <1>1, <2>1, <3>1, AfterReturn
      <3>2. CASE L!Goto(s, "begin") /\ registry = service[s].plan.registry
        <4>1. service'[s].pc = "begin" /\ service'[s].plan = service[s].plan
          BY <1>1, <3>2, AfterGoto
        <4> QED
          BY <1>1, <3>2, <4>1 DEF RegistryStep, L!Forward
      <3> QED
        BY <2>3, <3>1, <3>2 DEF L!Apply, L!Fresh
    <2>4. CASE L!BeginRecovery(s)
      <3>1. /\ service[s] \in L!Call /\ journal # None
            /\ service'[s] = [service[s] EXCEPT !.pc = "undo", !.how = "recover", !.rec = journal]
        BY <1>1, <2>4 DEF L!BeginRecovery
      <3>2. service'[s].pc = "undo" /\ service'[s].rec = journal
        BY <3>1 DEF L!Call
      <3>3. Announced(journal)
        BY <1>3, <3>1 DEF Registers, Told
      <3> QED
        BY <3>2, <3>3 DEF RegistryStep, Announced, L!Forward
    <2>5. CASE L!Finalize(s) \/ L!ReleaseReceipt(s) \/ L!Unmark(s)
      <3>1. /\ service[s].pc \in {"undo", "release", "unmark"}
            /\ service[s].rec.status = "committed" \/ service[s].pc # "undo"
            /\ \E pc \in {"release", "unmark", "forget"} : L!Goto(s, pc)
        BY <2>5 DEF L!Finalize, L!ReleaseReceipt, L!Unmark, L!At, L!Rec
      <3>2. service'[s].pc \in {"release", "unmark", "forget"} /\ service'[s].rec = service[s].rec
        BY <1>1, <3>1, AfterGoto
      <3>3. Announced(service[s].rec) /\ journal.status = "committed"
        BY <1>3, <3>1, RegistryTells DEF StatusOk, SameTransaction
      <3> QED
        BY <1>1, <3>2, <3>3 DEF RegistryStep, Announced, L!Forward
    <2>6. CASE L!Crash(s)
      BY <1>1, <2>1, <2>6 DEF L!Crash, L!NoCall
    <2> QED
      BY <2>1, <2>2, <2>3, <2>4, <2>5, <2>6
  <1> QED
    BY <1>1, <1>2, <1>3, RegistersKept

\* The journal goes when the registry says what happened.
LEMMA RegistersOfForget ==
  ASSUME Ctl, Trees, Trees', Registers, NEW s \in Services, L!Forget(s)
  PROVE  Registers'
  <1>1. /\ service[s].pc = "forget" /\ UNCHANGED <<tree, registry, raced>> /\ Serves(s)
        /\ journal' = None /\ \E said : L!Return(s, said)
    BY DEF L!Forget, L!others, L!At, Serves, L!Advance
  <1>2. ASSUME ~raced
        PROVE  Settled' /\ Told' /\ RegistryStep(service[s], service[s].pc)'
    <2>1. /\ Settled /\ Told /\ RegistryStep(service[s], service[s].pc) /\ journal # None
          /\ service \in [Services -> L!Call] /\ journal.action \in {"clone", "move", "adopt"}
      BY <1>1, <1>2, RegistryTells
    <2>2. TreeInv /\ BackwardTree(service[s], service[s].pc) /\ journal.txn # NoOwner
      BY <1>1, TreeTells
    <2>3. service'[s].pc = "idle"
      BY <1>1, <2>1, AfterReturn
    <2>4. journal.action # "adopt" /\ journal.status = "committed" =>
            Brought /\ tree["destination"].kind = "whole"
      BY <2>1, <2>2 DEF Told, TreeInv, Cloned, Moved, AtDestination
    <2>5. tree["destination"].mark = NoOwner
      BY <1>1, <2>2 DEF BackwardTree, L!Places
    <2>6. journal.action # "adopt" /\ journal.status # "committed" =>
            "destination" \notin registry /\ tree["destination"].kind # "whole"
      BY <1>1, <2>1, <2>2, <2>5
        DEF RegistryStep, TreeInv, Cloned, BackwardTree, AtSource
    <2>7. /\ journal.action = "clone" => tree["source"].kind = "whole"
          /\ journal.action = "move" /\ journal.status # "committed" => tree["source"].kind = "whole"
      BY <1>1, <2>1, <2>2 DEF TreeInv, Cloned, BackwardTree, AtSource
    <2>8. Settled'
      BY <1>1, <2>1, <2>4, <2>6, <2>7 DEF Settled, Brought
    <2>9. Told' /\ RegistryStep(service[s], service[s].pc)'
      BY <1>1, <2>3 DEF Told, RegistryStep, L!Forward
    <2> QED
      BY <2>8, <2>9
  <1> QED
    BY <1>1, <1>2, RegistersOfCall

\* The directory and the ledger are undone.
LEMMA RegistersOfUndo ==
  ASSUME Ctl, Trees, Trees', Registers, NEW s \in Services,
         \/ L!UndoClone(s) \/ L!RemoveSome(s) \/ L!RemoveRest(s) \/ L!UndoMove(s)
         \/ L!RestoreMoved(s) \/ L!MoveBack(s) \/ L!Authority(s) \/ L!UndoAdopt(s)
         \/ L!RestoreProject(s) \/ L!UndoAdoptJob(s) \/ L!RestoreJob(s) \/ L!UndoLedger(s)
  PROVE  Registers'
  <1>1. /\ service \in [Services -> L!Call] /\ UNCHANGED <<registry, journal, raced>> /\ Serves(s)
        /\ service[s].pc \notin {"idle", "begin"}
    BY DEF Ctl, L!TypeOK, Serves, L!Recover, L!files, L!others, L!UndoClone, L!RemoveSome,
      L!RemoveRest, L!UndoMove, L!RestoreMoved, L!MoveBack, L!Authority, L!UndoAdopt,
      L!RestoreProject, L!UndoAdoptJob, L!RestoreJob, L!UndoFile, L!Restore, L!UndoLedger,
      L!Undoing, L!At
  <1>2. /\ service'[s].pc \in {"undo", "removing", "restore", "back", "authority",
                               "restoreProject", "undoJob", "restoreJob", "undoLedger",
                               "readRegistry"}
        /\ service'[s].rec = service[s].rec
    <2>1. CASE L!UndoClone(s)
      <3>1. /\ service[s] \in L!Call
            /\ \E owned, pc : /\ pc \in {"undoLedger", "removing"}
                              /\ service'[s] = [service[s] EXCEPT !.owned = owned, !.pc = pc]
        BY <1>1, <2>1 DEF L!UndoClone
      <3> QED
        BY <3>1 DEF L!Call
    <2>2. CASE L!RemoveSome(s)
      BY <1>1, <2>2 DEF L!RemoveSome, L!At
    <2>4. ASSUME NEW pc \in {"undo", "back", "authority", "restoreProject", "undoJob",
                            "restoreJob", "undoLedger", "readRegistry"},
                 L!Goto(s, pc) \/ L!Skip(s, pc)
          PROVE  service'[s].pc = pc /\ service'[s].rec = service[s].rec
      BY <1>1, <2>4, AfterGoto, AfterSkip
    <2>5. CASE L!UndoMove(s)
      <3>1. \/ L!Goto(s, "authority") \/ L!Skip(s, "undoLedger")
            \/ service'[s].pc \in {"restore", "back"} /\ service'[s].rec = service[s].rec
        BY <2>5, UndoMoveTells
      <3> QED
        BY <2>4, <3>1
    <2>6. CASE \/ L!RemoveRest(s) \/ L!RestoreMoved(s) \/ L!MoveBack(s) \/ L!Authority(s)
               \/ L!UndoAdopt(s) \/ L!RestoreProject(s) \/ L!UndoAdoptJob(s) \/ L!RestoreJob(s)
               \/ L!UndoLedger(s)
      <3>1. \E pc \in {"undo", "back", "authority", "restoreProject", "undoJob", "restoreJob",
                       "undoLedger", "readRegistry"} : L!Goto(s, pc) \/ L!Skip(s, pc)
        BY <2>6 DEF L!RemoveRest, L!RestoreMoved, L!MoveBack, L!Authority, L!UndoAdopt,
          L!RestoreProject, L!UndoAdoptJob, L!RestoreJob, L!UndoFile, L!Restore, L!UndoLedger
      <3> QED
        BY <2>4, <3>1
    <2> QED
      BY <2>1, <2>2, <2>5, <2>6
  <1>3. ~raced => Announced(service[s].rec)
    BY <1>1, RegistryTells
  <1>4. ~raced => RegistryStep(service[s], service[s].pc)'
    BY <1>2, <1>3 DEF RegistryStep, Announced, L!Forward
  <1> QED
    BY <1>1, <1>4, RegistersKept

\* The recovery reads the registry, and lets the directory go.
LEMMA RegistersOfRest ==
  ASSUME Ctl, Trees, Trees', Registers, NEW s \in Services, L!ReadRegistry(s) \/ L!FinishUndo(s)
  PROVE  Registers'
  <1>1. /\ service \in [Services -> L!Call] /\ UNCHANGED <<registry, journal, raced>> /\ Serves(s)
        /\ service[s].pc \notin {"idle", "begin"}
    BY DEF Ctl, L!TypeOK, Serves, L!Recover, L!files, L!others, L!ReadRegistry, L!FinishUndo, L!At
  <1>2. ASSUME ~raced
        PROVE  RegistryStep(service[s], service[s].pc)'
    <2>1. Announced(service[s].rec) /\ RegistryStep(service[s], service[s].pc)
      BY <1>1, <1>2, RegistryTells
    <2>2. CASE L!ReadRegistry(s)
      <3>1. /\ service[s] \in L!Call
            /\ service'[s] = [service[s] EXCEPT !.seen = registry, !.pc = "restoreRegistry"]
        BY <1>1, <2>2 DEF L!ReadRegistry
      <3>2. /\ service'[s].pc = "restoreRegistry" /\ service'[s].seen = registry
            /\ service'[s].rec = service[s].rec
        BY <3>1 DEF L!Call
      <3> QED
        BY <1>1, <2>1, <3>2 DEF RegistryStep, Announced, L!Forward
    <2>3. CASE L!FinishUndo(s) /\ service[s].failed
      <3>1. service'[s].pc = "idle"
        BY <1>1, <2>3, AfterReturn DEF L!FinishUndo
      <3> QED
        BY <3>1 DEF RegistryStep, L!Forward
    <2>4. CASE L!FinishUndo(s) /\ ~service[s].failed
      <3>1. service[s].pc = "finish" /\ L!Goto(s, "forget")
        BY <2>4 DEF L!FinishUndo, L!At
      <3>2. service'[s].pc = "forget" /\ service'[s].rec = service[s].rec
        BY <1>1, <3>1, AfterGoto
      <3>3. journal.action # "adopt" => "destination" \notin registry
        BY <2>1, <2>4, <3>1 DEF RegistryStep
      <3> QED
        BY <1>1, <2>1, <3>2, <3>3 DEF RegistryStep, Announced, L!Forward
    <2> QED
      BY <2>2, <2>3, <2>4
  <1> QED
    BY <1>1, <1>2, RegistersKept

\* The recovery takes back what the transaction announced.
LEMMA RegistersOfRestore ==
  ASSUME Ctl, Trees, Trees', Registers, NEW s \in Services, L!RestoreRegistry(s)
  PROVE  Registers'
  <1>1. PICK undone : undone = L!UndoneRegistry(service[s].rec, service[s].seen)
    OBVIOUS
  <1>2. /\ service[s].pc = "restoreRegistry" /\ UNCHANGED <<tree, journal>> /\ Serves(s)
        /\ service \in [Services -> L!Call]
        /\ registry' = (IF undone = service[s].seen THEN registry ELSE undone)
        /\ ~raced' => ~raced /\ (undone # service[s].seen => registry = service[s].seen)
        /\ L!Goto(s, "finish")
    BY <1>1 DEF Ctl, L!TypeOK, Serves, L!Recover, L!RestoreRegistry, L!At, L!Rec
  <1>3. /\ service'[s].pc = "finish" /\ service'[s].rec = service[s].rec
        /\ service'[s].failed = service[s].failed
    BY <1>2, AfterGoto
  <1>4. ASSUME ~raced
        PROVE  Settled' /\ Told' /\ RegistryStep(service[s], service[s].pc)'
    <2>1. /\ Settled /\ Told /\ RegistryStep(service[s], service[s].pc) /\ journal # None
          /\ StatusOk(service[s], service[s].pc) /\ Announced(journal) /\ Announced(service[s].rec)
          /\ SameTransaction(service[s].rec) /\ service[s].rec \in L!Record
          /\ journal.action \in {"clone", "move", "adopt"}
      BY <1>2, <1>4, RegistryTells
    <2>2. /\ service[s].rec.action = journal.action /\ journal.status # "committed"
          /\ service[s].rec.registry = journal.registry
          /\ service[s].rec.projection = {} => journal.projection = {}
      BY <1>2, <2>1 DEF StatusOk, SameTransaction
    <2>3. "destination" \in service[s].seen <=> "destination" \in registry
      BY <1>2, <2>1 DEF RegistryStep
    <2>4. /\ journal.action = "adopt" => ("destination" \in registry' <=> "destination" \in registry)
          /\ journal.action # "adopt" => "destination" \notin registry'
      <3>1. CASE service[s].rec.projection = {}
        <4>1. undone = service[s].seen
          BY <1>1, <3>1 DEF L!UndoneRegistry
        <4> QED
          BY <1>2, <2>1, <2>2, <3>1, <4>1 DEF Told
      <3>2. CASE service[s].rec.projection # {} /\ service[s].seen = service[s].rec.registry
        <4>1. undone = service[s].seen
          BY <1>1, <3>2 DEF L!UndoneRegistry
        <4> QED
          BY <1>2, <2>1, <2>2, <2>3, <3>2, <4>1 DEF Announced
      <3>3. CASE service[s].rec.projection # {} /\ service[s].seen # service[s].rec.registry
        <4>1. undone = (service[s].seen \ (service[s].rec.projection \ service[s].rec.registry))
                         \union (service[s].rec.registry \ service[s].rec.projection)
          BY <1>1, <3>3 DEF L!UndoneRegistry
        <4>2. /\ journal.action = "adopt" =>
                   ("destination" \in undone <=> "destination" \in service[s].seen)
              /\ journal.action # "adopt" => "destination" \notin undone
          BY <2>1, <2>2, <3>3, <4>1 DEF Announced
        <4> QED
          BY <1>2, <2>3, <4>2
      <3> QED
        BY <3>1, <3>2, <3>3
    <2>5. journal.action = "adopt" => tree'["source"].kind = "whole"
      BY <1>2, <2>1 DEF Trees, TreeInv, Present
    <2>6. Settled'
      BY <1>2, <2>1, <2>4, <2>5 DEF Settled
    <2>7. Announced(journal)' /\ Announced(service[s].rec)'
      BY <1>2, <1>3, <2>1 DEF Announced
    <2>8. Told'
      BY <1>2, <2>1, <2>2, <2>4, <2>7 DEF Told
    <2>9. RegistryStep(service[s], service[s].pc)'
      BY <1>2, <1>3, <2>4, <2>7 DEF RegistryStep, L!Forward
    <2> QED
      BY <2>6, <2>8, <2>9
  <1> QED
    BY <1>2, <1>4, RegistersOfCall

\* The record in memory after a failure is the journal's, or the one whose write failed.
LEMMA FailRecord ==
  ASSUME Ctl, NEW s \in Services, L!Fail(s)
  PROVE  \/ service'[s].pc = "idle"
         \/ /\ service'[s].pc \in {"undo", "undoLedger", "readRegistry", "finish"}
            /\ service'[s].pc = "finish" => service'[s].failed
            /\ \/ service'[s].rec = service[s].rec /\ service[s].pc \notin {"idle", "begin"}
               \/ service'[s].rec = L!NextRecord(s) /\ service[s].pc \in L!Forward \ {"begin"}
  <1>1. service \in [Services -> L!Call]
    BY DEF Ctl, L!TypeOK
  <1>2. ASSUME NEW said, L!Return(s, said)
        PROVE  service'[s].pc = "idle"
    BY <1>1, <1>2, AfterReturn
  <1>3. ASSUME NEW rec,
               service' = [service EXCEPT ![s].rec = rec, ![s].pc = "undo", ![s].how = "failing"]
        PROVE  service'[s].pc = "undo" /\ service'[s].rec = rec
    <2>1. /\ service[s] \in L!Call
          /\ service'[s] = [service[s] EXCEPT !.rec = rec, !.pc = "undo", !.how = "failing"]
      BY <1>1, <1>3
    <2> QED
      BY <2>1 DEF L!Call
  <1>4. ASSUME NEW pc, L!Skip(s, pc)
        PROVE  service'[s].pc = pc /\ service'[s].failed /\ service'[s].rec = service[s].rec
    BY <1>1, <1>4, AfterSkip
  <1>5. \/ \E said : L!Return(s, said)
        \/ /\ service[s].pc \in L!Forward \ {"begin"}
           /\ \E rec \in {service[s].rec, L!NextRecord(s)} :
                service' = [service EXCEPT ![s].rec = rec, ![s].pc = "undo", ![s].how = "failing"]
        \/ /\ service[s].pc \notin {"idle", "begin"}
           /\ \E pc \in {"undoLedger", "readRegistry", "finish"} : L!Skip(s, pc)
    BY DEF L!Fail, L!At, L!Rec, L!UndoTree
  <1>6. service[s].pc \in L!Forward \ {"begin"} => service[s].pc \notin {"idle", "begin"}
    BY DEF L!Forward
  <1> QED
    BY <1>2, <1>3, <1>4, <1>5, <1>6

\* A step that fails tells the registry nothing.
LEMMA RegistersOfFail ==
  ASSUME Ctl, Trees, Trees', Registers, "commit" \notin Failing, NEW s \in Services, L!Fail(s)
  PROVE  Registers'
  <1>1. UNCHANGED <<tree, registry, journal, raced>> /\ Serves(s)
    BY FailTells DEF Serves
  <1>2. ASSUME ~raced, service'[s].pc # "idle"
        PROVE  Announced(service'[s].rec)
    BY <1>2, FailRecord, RegistryTells, AnnouncedNext
  <1>3. ~raced => RegistryStep(service[s], service[s].pc)'
    BY <1>2, FailRecord DEF RegistryStep, Announced, L!Forward
  <1> QED
    BY <1>1, <1>3, RegistersKept

\* Everybody else: an entry of another project in the registry, a file, a job.
LEMMA RegistersOfOthers ==
  ASSUME Ctl, Trees, Trees', Registers,
         L!User \/ L!ReadToRegister \/ L!WriteRegistered \/ L!OtherJobs
  PROVE  Registers'
  <1>1. /\ UNCHANGED <<service, journal>>
        /\ \A p \in {"source", "destination"} : tree[p].kind = "whole" <=> tree'[p].kind = "whole"
    BY UserTree DEF L!ReadToRegister, L!WriteRegistered, L!OtherJobs, L!files
  <1>2. ~raced' =>
          /\ ~raced
          /\ \A p \in {"source", "destination"} : p \in registry' <=> p \in registry
    BY UserTree DEF L!ReadToRegister, L!WriteRegistered, L!OtherJobs, L!files
  <1> SUFFICES ASSUME ~raced,
                      \A p \in {"source", "destination"} : p \in registry' <=> p \in registry
               PROVE  /\ Settled' /\ Told'
                      /\ \A d \in Services : RegistryStep(service[d], service[d].pc)'
    BY <1>2 DEF Registers
  <1>3. Settled /\ Told
    BY DEF Registers
  <1>4. Settled'
    BY <1>1, <1>3 DEF Settled
  <1>5. Brought' <=> Brought
    BY <1>1 DEF Brought
  <1>6. Told'
    BY <1>1, <1>3, <1>5 DEF Told, Announced
  <1>7. ASSUME NEW d \in Services
        PROVE  RegistryStep(service[d], service[d].pc)'
    <2>1. RegistryStep(service[d], service[d].pc)
      BY DEF Registers
    <2> QED
      BY <1>1, <1>5, <2>1 DEF RegistryStep, Announced
  <1> QED
    BY <1>4, <1>6, <1>7

\* Registers is inductive.
LEMMA RegistersPreserved ==
  ASSUME Ctl, Trees, Trees', Registers, "commit" \notin Failing, [MCNext]_everything
  PROVE  Registers'
  <1>1. CASE UNCHANGED lifecycle
    <2>1. UNCHANGED <<service, tree, journal, registry, raced>>
      BY <1>1 DEF lifecycle
    <2> QED
      BY <2>1 DEF Registers, Settled, Told, Brought, RegistryStep, Announced
  <1>2. ASSUME NEW s \in Services, Serves(s)
        PROVE  Registers'
    <2>1. CASE L!Advance(s)
      BY <2>1, RegistersOfBegin, RegistersOfForward, RegistersOfJournal, RegistersOfWrite,
         RegistersOfCalls, RegistersOfForget DEF L!Advance
    <2>2. CASE L!Recover(s)
      BY <2>2, RegistersOfCalls, RegistersOfUndo, RegistersOfRest, RegistersOfRestore DEF L!Recover
    <2> QED
      BY <1>2, <2>1, <2>2, RegistersOfCalls, RegistersOfFail DEF Serves
  <1>3. CASE L!User \/ L!ReadToRegister \/ L!WriteRegistered \/ L!OtherJobs
    BY <1>3, RegistersOfOthers
  <1> QED
    BY <1>1, <1>2, <1>3 DEF MCNext, everything, L!Next, Serves

\* At first the source is registered, or not yet.
LEMMA RegistersInit == MCInit => Registers
  <1> SUFFICES ASSUME MCInit
               PROVE  Registers
    OBVIOUS
  <1>1. /\ service = [s \in Services |-> L!NoCall] /\ journal = None
        /\ tree = [p \in L!Places |-> IF p = "source" THEN L!Project ELSE L!Nothing]
        /\ registry \in SUBSET {"source"}
    BY DEF MCInit, L!Init
  <1>2. tree["source"].kind = "whole" /\ tree["destination"].kind = "none"
    BY <1>1, DataTyped DEF L!Places
  <1>3. Settled /\ Told
    BY <1>1, <1>2 DEF Settled, Told
  <1>4. \A s \in Services : RegistryStep(service[s], service[s].pc)
    BY <1>1 DEF RegistryStep, L!NoCall, L!Forward
  <1> QED
    BY <1>3, <1>4 DEF Registers

\* ProjectKept, whatever fails but the write of the committed record: the journal leads to the
\* project, and once it is gone the registry names where the project went, unless somebody
\* overwrote a registry he had not read (_apply_move, _recover_record).
THEOREM ProjectIsKept ==
  ASSUME "commit" \notin Failing
  PROVE  MCSpec => []ProjectKept
  <1>1. Ctl /\ Trees /\ Registers /\ [MCNext]_everything => Ctl' /\ Trees' /\ Registers'
    BY CtlPreserved, TreesPreserved, RegistersPreserved
  <1>2. Ctl /\ Trees /\ Registers => ProjectKept
    <2> SUFFICES ASSUME Ctl, Trees, Registers
                 PROVE  ProjectKept
      OBVIOUS
    <2>1. TreeInv /\ (journal # None => journal.action \in {"clone", "move", "adopt"})
      BY DEF Ctl, Trees, L!TypeOK, L!Record, L!Actions
    <2>2. journal = None /\ ~raced =>
            ("destination" \in registry <=> tree["destination"].kind = "whole")
      BY DEF Registers, Settled
    <2> QED
      BY <2>1, <2>2
        DEF ProjectKept, L!ProjectKept, TreeInv, Present, Cloned, Moved, AtSource, AtStage,
          AtDestination
  <1> QED
    BY <1>1, <1>2, CtlInit, TreesInit, RegistersInit, PTL DEF MCSpec
-----------------------------------------------------------------------------
(* The destination's entry in the ledger.                                       *)

\* With no transaction, or one that adopts, registry and ledger agree; a copy or a move has the
\* entry once it is committed, and before that only with the receipt that takes it back.
EntrySettled == (journal = None \/ journal.action = "adopt") /\ ~raced =>
  ("destination" \in registry <=> "destination" \in ledger.dirs)
EntryTold == journal # None /\ journal.action # "adopt" =>
  /\ journal.status = "committed" => "destination" \in ledger.dirs
  /\ journal.status # "committed" =>
       /\ ledger.receipt[journal.txn] = NoReceipt => "destination" \notin ledger.dirs
       /\ ledger.receipt[journal.txn] # NoReceipt => ledger.owner["destination"] = journal.txn
EntryPlanned == \A s \in Services :
  service[s].pc = "begin" /\ service[s].plan.action # "adopt" => "destination" \notin ledger.dirs

\* The receipt of an adoption is about another entry.
EntryForeign ==
  journal # None /\ journal.action = "adopt" /\ ledger.receipt[journal.txn] # NoReceipt =>
    /\ "destination" \notin ledger.receipt[journal.txn].added
    /\ "destination" \notin ledger.receipt[journal.txn].removed

\* Unless others changed that entry.
Entered ==
  EntryForeign /\ ("destination" \notin touched => EntrySettled /\ EntryTold /\ EntryPlanned)

\* What a service overwrites in a race stays so.
LEMMA RacedStays ==
  ASSUME NEW s \in Services, Serves(s)
  PROVE  /\ raced => raced'
         /\ \/ UNCHANGED <<registry, raced>>
            \/ service[s].pc \in {"writeRegistry", "restoreRegistry"} /\ UNCHANGED <<ledger, journal>>
  <1>1. CASE L!WriteRegistry(s) \/ L!RestoreRegistry(s)
    BY <1>1 DEF L!WriteRegistry, L!RestoreRegistry, L!At
  <1>2. ASSUME L!Advance(s), ~L!WriteRegistry(s)
        PROVE  UNCHANGED <<registry, raced>>
    <2>1. CASE L!Begin(s) \/ L!Copy(s) \/ L!Fill(s) \/ L!MoveOut(s) \/ L!Mark(s) \/ L!Inspect(s)
      BY <2>1 DEF L!Begin, L!Copy, L!Fill, L!MoveOut, L!Mark, L!Inspect, L!others
    <2>2. CASE L!Rewrite(s) \/ L!RewriteJob(s) \/ L!Publish(s)
      BY <2>2 DEF L!Rewrite, L!RewriteJob, L!Publish, L!others
    <2>3. CASE L!ProjectRegistry(s) \/ L!ProjectLedger(s) \/ L!MergeLedger(s) \/ L!Commit(s)
      BY <2>3 DEF L!ProjectRegistry, L!ProjectLedger, L!MergeLedger, L!Commit, L!others
    <2>4. CASE L!ReleaseReceipt(s) \/ L!Unmark(s) \/ L!Forget(s)
      BY <2>4 DEF L!ReleaseReceipt, L!Unmark, L!Forget, L!others
    <2>5. CASE L!CheckRegistry(s)
      BY <2>5 DEF L!CheckRegistry, L!files, L!others
    <2> QED
      BY <1>2, <2>1, <2>2, <2>3, <2>4, <2>5 DEF L!Advance
  <1>3. ASSUME L!Recover(s), ~L!RestoreRegistry(s)
        PROVE  UNCHANGED <<registry, raced>>
    <2>1. CASE L!BeginRecovery(s) \/ L!Finalize(s) \/ L!UndoClone(s)
      BY <2>1 DEF L!BeginRecovery, L!Finalize, L!UndoClone, L!files, L!others
    <2>2. CASE L!Authority(s) \/ L!ReadRegistry(s)
      BY <2>2 DEF L!Authority, L!ReadRegistry, L!files, L!others
    <2>3. CASE \/ L!RemoveSome(s) \/ L!RemoveRest(s) \/ L!UndoMove(s) \/ L!RestoreMoved(s)
               \/ L!MoveBack(s)
      BY <2>3 DEF L!RemoveSome, L!RemoveRest, L!UndoMove, L!RestoreMoved, L!Restore, L!MoveBack,
        L!files, L!others
    <2>4. CASE \/ L!UndoAdopt(s) \/ L!RestoreProject(s) \/ L!UndoAdoptJob(s) \/ L!RestoreJob(s)
               \/ L!UndoLedger(s) \/ L!FinishUndo(s)
      BY <2>4 DEF L!UndoAdopt, L!RestoreProject, L!UndoAdoptJob, L!RestoreJob, L!UndoFile,
        L!Restore, L!UndoLedger, L!FinishUndo, L!files, L!others
    <2> QED
      BY <1>3, <2>1, <2>2, <2>3, <2>4 DEF L!Recover
  <1>4. ASSUME \/ \E action \in L!Actions : L!Preflight(s, action)
               \/ L!Apply(s) \/ L!Fail(s) \/ L!Crash(s)
        PROVE  UNCHANGED <<registry, raced>>
    BY <1>4 DEF L!Preflight, L!Apply, L!Fail, L!Crash, L!files, L!others
  <1> QED
    BY <1>1, <1>2, <1>3, <1>4 DEF Serves

\* No transaction and none that adopts registers the destination, or takes it back.
LEMMA EntryOfRegistry ==
  ASSUME Ctl, Trees, Registers, Registers', NEW s \in Services, Serves(s), UNCHANGED journal,
         journal = None \/ journal.action = "adopt", ~raced'
  PROVE  ~raced /\ ("destination" \in registry' <=> "destination" \in registry)
  <1>1. ~raced
    BY RacedStays
  <1>2. CASE UNCHANGED <<registry, raced>>
    BY <1>1, <1>2
  <1>3. CASE service[s].pc \in {"writeRegistry", "restoreRegistry"}
    <2>1. journal # None
      BY <1>3, Underway
    <2>2. tree'["destination"].kind = tree["destination"].kind
      BY <2>1, DestinationOfAdopt
    <2>3. "destination" \in registry <=> tree["destination"].kind = "whole"
      BY <1>1 DEF Registers, Settled
    <2>4. "destination" \in registry' <=> tree'["destination"].kind = "whole"
      BY DEF Registers, Settled
    <2> QED
      BY <1>1, <2>2, <2>3, <2>4
  <1> QED
    BY <1>2, <1>3, RacedStays

\* What is in memory of an idle process, or of one in its transaction, is not about the ledger.
LEMMA PlannedKept ==
  ASSUME Ctl, NEW s \in Services, Serves(s),
         service'[s].pc = "begin" /\ service'[s].plan.action # "adopt" =>
           "destination" \notin ledger'.dirs
  PROVE  EntryPlanned'
  <1>1. \A d \in Services : d # s => service'[d].pc = "idle"
    BY OnlyCaller
  <1> QED
    BY <1>1 DEF EntryPlanned

\* A step of a call that leaves ledger and journal as they were.
LEMMA EnteredKept ==
  ASSUME Ctl, Trees, Registers, Registers', Entered, NEW s \in Services, Serves(s),
         UNCHANGED <<ledger, journal, touched>>,
         service'[s].pc = "begin" /\ service'[s].plan.action # "adopt" =>
           "destination" \notin ledger.dirs
  PROVE  Entered'
  <1>1. EntryPlanned'
    BY PlannedKept
  <1>2. EntryForeign'
    BY DEF Entered, EntryForeign
  <1>3. ASSUME "destination" \notin touched
        PROVE  EntrySettled' /\ EntryTold'
    <2>1. EntrySettled'
      BY <1>3, EntryOfRegistry DEF Entered, EntrySettled
    <2>2. EntryTold'
      BY <1>3 DEF Entered, EntryTold
    <2> QED
      BY <2>1, <2>2
  <1> QED
    BY <1>1, <1>2, <1>3 DEF Entered

\* The steps of a call that neither ledger nor journal see.
LEMMA EnteredOfQuiet ==
  ASSUME Ctl, Ctl', Trees, Registers, Registers', Entered, NEW s \in Services, Serves(s),
         UNCHANGED <<ledger, journal, touched>>, journal # None \/ service'[s].pc = "idle"
  PROVE  Entered'
  <1>1. service'[s].pc # "begin"
    BY DEF Ctl, CallOk
  <1> QED
    BY <1>1, EnteredKept

\* A call is let in with the ledger that was planned.
LEMMA EnteredOfCalls ==
  ASSUME Ctl, Ctl', Trees, Registers, Registers', Entered, NEW s \in Services,
         \/ \E action \in L!Actions : L!Preflight(s, action)
         \/ L!Apply(s) \/ L!Crash(s)
  PROVE  Entered'
  <1>1. /\ service \in [Services -> L!Call] /\ UNCHANGED <<ledger, journal, touched>> /\ Serves(s)
    BY DEF Ctl, L!TypeOK, Serves, L!files, L!others, L!Preflight, L!Apply, L!Crash
  <1>2. CASE service'[s].pc = "idle"
    BY <1>1, <1>2, EnteredKept
  <1>3. ASSUME NEW action \in L!Actions, L!Preflight(s, action)
        PROVE  service'[s].pc = "idle"
    <2>1. PICK plan : service' = [service EXCEPT ![s].plan = plan]
      BY <1>3 DEF L!Preflight
    <2>2. service[s] \in L!Call /\ service'[s] = [service[s] EXCEPT !.plan = plan]
      BY <1>1, <2>1
    <2>3. service[s].pc = "idle"
      BY <1>3 DEF L!Preflight, L!Idle, L!At
    <2> QED
      BY <2>2, <2>3 DEF L!Call
  <1>4. CASE L!Crash(s)
    BY <1>1, <1>2, <1>4 DEF L!Crash, L!NoCall
  <1>5. CASE L!Apply(s)
    <2>1. CASE L!Return(s, "refused")
      BY <1>1, <1>2, <2>1, AfterReturn
    <2>2. CASE L!Goto(s, "begin") /\ ledger = service[s].plan.ledger
      <3>1. service'[s].pc = "begin" /\ service'[s].plan = service[s].plan
        BY <1>1, <2>2, AfterGoto
      <3>2. SoundPlan(service[s].plan)
        BY <1>5 DEF L!Apply, Ctl, CallOk
      <3>3. service'[s].plan.action # "adopt" => "destination" \notin ledger.dirs
        BY <2>2, <3>1, <3>2 DEF SoundPlan
      <3> QED
        BY <1>1, <3>3, EnteredKept
    <2> QED
      BY <1>5, <2>1, <2>2 DEF L!Apply, L!Fresh
  <1> QED
    BY <1>2, <1>3, <1>4, <1>5

\* A transaction begins without a receipt.
LEMMA EnteredOfBegin ==
  ASSUME Ctl, Receipts, Trees, Registers, Registers', Entered, NEW s \in Services, L!Begin(s)
  PROVE  Entered'
  <1>1. /\ service[s].pc = "begin" /\ UNCHANGED <<ledger, registry, raced, touched>> /\ Serves(s)
        /\ journal = None /\ service \in [Services -> L!Call]
    BY DEF Ctl, CallOk, L!TypeOK, L!Begin, L!others, L!At, Serves, L!Advance
  <1>2. ASSUME L!Return(s, "refused"), UNCHANGED journal
        PROVE  Entered'
    BY <1>1, <1>2, AfterReturn, EnteredKept
  <1>3. ASSUME NEW rec \in L!Record, NEW pc \in {"copy", "out", "inspect"},
               rec.action = service[s].plan.action, rec.status = "prepared",
               L!Journal(s, rec, pc)
        PROVE  Entered'
    <2>1. journal' = rec /\ service'[s].pc = pc /\ rec # None /\ rec.txn \in Lifecycles
      BY <1>1, <1>3, AfterJournal, LifecycleAssumptions DEF L!ConstantsAssumption, L!Record
    <2>2. ledger.receipt[rec.txn] = NoReceipt
      BY <1>1, <2>1, OneReceipt
    <2>3. EntryPlanned' /\ EntryForeign'
      BY <1>1, <1>3, <2>1, <2>2, PlannedKept DEF EntryForeign
    <2>4. ASSUME "destination" \notin touched
          PROVE  EntrySettled' /\ EntryTold'
      <3>1. EntrySettled /\ EntryPlanned
        BY <2>4 DEF Entered
      <3>2. rec.action # "adopt" => "destination" \notin ledger.dirs
        BY <1>1, <1>3, <3>1 DEF EntryPlanned
      <3> QED
        BY <1>1, <1>3, <2>1, <2>2, <3>1, <3>2 DEF EntrySettled, EntryTold
    <2> QED
      BY <1>1, <2>3, <2>4 DEF Entered
  <1>4. \/ L!Return(s, "refused") /\ UNCHANGED journal
        \/ \E rec \in L!Record, pc \in {"copy", "out", "inspect"} :
             /\ rec.action = service[s].plan.action /\ rec.status = "prepared"
             /\ L!Journal(s, rec, pc)
    BY BeginTells
  <1> QED
    BY <1>2, <1>3, <1>4

\* The commit finds the entry there.
LEMMA EnteredOfJournal ==
  ASSUME Ctl, Ctl', Receipts, Trees, Registers, Registers', Entered, NEW s \in Services,
         L!Inspect(s) \/ L!ProjectRegistry(s) \/ L!ProjectLedger(s) \/ L!Commit(s)
  PROVE  Entered'
  <1>1. /\ service[s].pc \in {"inspect", "projectRegistry", "projectLedger", "commit"}
        /\ UNCHANGED <<ledger, registry, raced, touched>> /\ Serves(s)
        /\ service \in [Services -> L!Call]
    BY DEF Ctl, L!TypeOK, Serves, L!Advance, L!others, L!Inspect, L!ProjectRegistry,
      L!ProjectLedger, L!Commit, L!At
  <1>2. /\ service[s].pc \in L!Forward \ {"begin"} /\ service[s].pc \notin {"idle", "begin"}
    BY <1>1 DEF L!Forward
  <1>3. /\ journal # None /\ journal.txn \in Lifecycles /\ StatusOk(service[s], service[s].pc)
    BY <1>2, TreeTells
  <1>4. PICK rec : rec = L!NextRecord(s)
    OBVIOUS
  <1>5. \/ UNCHANGED journal
        \/ \E pc \in {"rewrite", "checkRegistry", "merge", "release"} : L!Journal(s, rec, pc)
    BY <1>4 DEF L!Inspect, L!ProjectRegistry, L!ProjectLedger, L!Commit
  <1>6. CASE UNCHANGED journal
    BY <1>1, <1>3, <1>6, EnteredOfQuiet
  <1>7. ASSUME NEW pc \in {"rewrite", "checkRegistry", "merge", "release"}, L!Journal(s, rec, pc)
        PROVE  Entered'
    <2>1. journal' = rec /\ service'[s].pc = pc
      BY <1>1, <1>7, AfterJournal
    <2>2. /\ rec # None /\ rec.action = journal.action /\ rec.txn = journal.txn
          /\ rec.status = "committed" <=> service[s].pc = "commit"
      BY <1>2, <1>4, NextTells, LifecycleAssumptions DEF L!ConstantsAssumption
    <2>3. journal.status # "committed"
      BY <1>1, <1>3 DEF StatusOk
    <2>4. service[s].pc = "commit" => ledger.receipt[journal.txn] # NoReceipt
      BY DEF Receipts, ReceiptOk
    <2>5. ledger.owner["destination"] \in Lifecycles => "destination" \in ledger.dirs
      <3>1. "destination" \in Entries /\ NoOwner \notin Lifecycles
        BY LifecycleAssumptions DEF L!ConstantsAssumption, L!OwnersAreDistinct
      <3> QED
        BY <3>1 DEF Receipts, LedgerOk
    <2>6. EntryPlanned' /\ EntryForeign'
      BY <1>1, <1>3, <1>7, <2>1, <2>2, PlannedKept DEF EntryForeign, Entered
    <2>7. ASSUME "destination" \notin touched
          PROVE  EntrySettled' /\ EntryTold'
      <3>1. EntrySettled /\ EntryTold
        BY <2>7 DEF Entered
      <3>2. EntrySettled'
        BY <1>1, <1>3, <2>1, <2>2, <3>1 DEF EntrySettled
      <3>3. EntryTold'
        BY <1>1, <1>3, <2>1, <2>2, <2>3, <2>4, <2>5, <3>1 DEF EntryTold
      <3> QED
        BY <3>2, <3>3
    <2> QED
      BY <1>1, <2>6, <2>7 DEF Entered
  <1> QED
    BY <1>5, <1>6, <1>7

\* The journal goes when the ledger says what happened.
LEMMA EnteredOfForget ==
  ASSUME Ctl, Receipts, Trees, Registers, Entered, NEW s \in Services, L!Forget(s)
  PROVE  Entered'
  <1>1. /\ service[s].pc = "forget" /\ UNCHANGED <<ledger, registry, raced, touched>> /\ Serves(s)
        /\ journal' = None /\ \E said : L!Return(s, said)
    BY DEF L!Forget, L!others, L!At, Serves, L!Advance
  <1>2. /\ journal # None /\ ledger.receipt[journal.txn] = NoReceipt
        /\ service \in [Services -> L!Call]
    BY <1>1, TreeTells DEF Receipts, ReceiptOk
  <1>3. EntryPlanned'
    BY <1>1, <1>2, AfterReturn, PlannedKept
  <1>4. ASSUME "destination" \notin touched, ~raced
        PROVE  "destination" \in registry <=> "destination" \in ledger.dirs
    <2>1. EntrySettled /\ EntryTold
      BY <1>4 DEF Entered
    <2>2. Told /\ RegistryStep(service[s], service[s].pc)
      BY <1>4 DEF Registers
    <2>3. journal.action # "adopt" /\ journal.status = "committed" => "destination" \in registry
      BY <1>2, <2>2 DEF Told, Brought
    <2>4. journal.action # "adopt" /\ journal.status # "committed" => "destination" \notin registry
      BY <1>1, <2>2 DEF RegistryStep
    <2> QED
      BY <1>2, <1>4, <2>1, <2>3, <2>4 DEF EntrySettled, EntryTold
  <1> QED
    BY <1>1, <1>3, <1>4 DEF Entered, EntryForeign, EntrySettled, EntryTold

\* A merge adds the destination with the receipt that takes it back, or leaves it alone.
LEMMA EnteredOfMerge ==
  ASSUME Ctl, Ctl', Receipts, Trees, Registers, Registers', Entered, NEW s \in Services,
         L!MergeLedger(s)
  PROVE  Entered'
  <1>1. /\ service[s].pc = "merge" /\ Serves(s) /\ UNCHANGED <<registry, raced, journal, touched>>
        /\ service[s].pc \notin {"idle", "begin"}
    BY DEF L!MergeLedger, L!At, L!others, Serves, L!Advance
  <1>2. /\ service \in [Services -> L!Call] /\ journal # None /\ L!Txn(s) = journal.txn
        /\ L!Txn(s) \in Lifecycles /\ ledger \in L!Ledger /\ "destination" \in Entries
    BY <1>1, Underway, LifecycleAssumptions DEF L!ConstantsAssumption
  <1>3. /\ service[s].plan \in L!Plan /\ service[s].plan.action = journal.action
        /\ SoundPlan(service[s].plan) /\ journal.status # "committed"
    BY <1>1, CtlTells DEF StatusOk, L!Forward, Ctl, CallOk
  <1>4. PICK base, projected :
          base = service[s].plan.ledger.dirs /\ projected = L!ProjectedJobs(service[s].plan)
    OBVIOUS
  <1>5. CASE ~L!Mergeable(ledger, base, projected)
    <2>1. UNCHANGED ledger
      BY <1>4, <1>5 DEF L!MergeLedger
    <2> QED
      BY <1>1, <1>2, <2>1, EnteredOfQuiet
  <1>6. CASE L!Mergeable(ledger, base, projected)
    <2>1. ledger' = L!Merge(ledger, L!Txn(s), base, projected) /\ L!Goto(s, "commit")
      BY <1>4, <1>6 DEF L!MergeLedger
    <2>2. base \in SUBSET Entries /\ projected \in SUBSET Entries
      BY <1>3, <1>4, ProjectedTyped
    <2>3. PICK m : m = ledger'
      OBVIOUS
    <2>4. Merged(ledger, journal.txn, base, projected, m)
      BY <1>2, <2>1, <2>2, <2>3, MergeTyped
    <2>5. /\ journal.action = "adopt" => ("destination" \in base <=> "destination" \in projected)
          /\ journal.action # "adopt" => "destination" \in projected \ base
      BY <1>3, <1>4 DEF L!ProjectedJobs, SoundPlan
    <2>6. EntryPlanned'
      BY <1>1, <1>2, <2>1, AfterGoto, PlannedKept
    <2>7. EntryForeign'
      <3>1. journal.action = "adopt" /\ m.receipt[journal.txn] # NoReceipt =>
              /\ "destination" \notin m.receipt[journal.txn].added
              /\ "destination" \notin m.receipt[journal.txn].removed
        BY <1>2, <2>4, <2>5 DEF Merged, Entered, EntryForeign
      <3> QED
        BY <1>1, <2>3, <3>1 DEF EntryForeign
    <2>8. ASSUME "destination" \notin touched
          PROVE  EntrySettled' /\ EntryTold'
      <3>1. EntrySettled /\ EntryTold
        BY <2>8 DEF Entered
      <3>2. journal.action = "adopt" => ("destination" \in m.dirs <=> "destination" \in ledger.dirs)
        BY <1>2, <2>4, <2>5 DEF Merged
      <3>3. EntrySettled'
        BY <1>1, <1>2, <2>3, <3>1, <3>2 DEF EntrySettled
      <3>4. m.receipt[journal.txn] # NoReceipt
        BY <2>4 DEF Merged
      <3>5. journal.action # "adopt" => m.owner["destination"] = journal.txn
        <4>1. CASE ledger.receipt[journal.txn] # NoReceipt
          BY <1>2, <1>3, <2>4, <3>1, <4>1 DEF Merged, EntryTold
        <4>2. CASE ledger.receipt[journal.txn] = NoReceipt
          BY <1>2, <1>3, <2>4, <2>5, <3>1, <4>2 DEF Merged, EntryTold
        <4> QED
          BY <4>1, <4>2
      <3>6. EntryTold'
        BY <1>1, <1>3, <2>3, <3>4, <3>5 DEF EntryTold
      <3> QED
        BY <3>3, <3>6
    <2> QED
      BY <1>1, <2>6, <2>7, <2>8 DEF Entered
  <1> QED
    BY <1>5, <1>6

\* A committed entry is let go, and one that is undone is taken back.
LEMMA EnteredOfEnd ==
  ASSUME Ctl, Receipts, Trees, Registers, Entered, NEW s \in Services,
         L!ReleaseReceipt(s) \/ L!UndoLedger(s)
  PROVE  Entered'
  <1>1. /\ service[s].pc \in {"release", "undoLedger"} /\ Serves(s)
        /\ UNCHANGED <<registry, raced, journal, touched>>
        /\ service[s].pc \notin {"idle", "begin"}
    BY DEF L!ReleaseReceipt, L!UndoLedger, L!At, L!others, Serves, L!Advance, L!Recover
  <1>2. /\ service \in [Services -> L!Call] /\ journal # None /\ L!Txn(s) = journal.txn
        /\ L!Txn(s) \in Lifecycles /\ ledger \in L!Ledger /\ "destination" \in Entries
    BY <1>1, Underway, LifecycleAssumptions DEF L!ConstantsAssumption
  <1>3. journal.status = "committed" <=> service[s].pc = "release"
    BY <1>1, CtlTells DEF StatusOk
  <1>4. PICK m : m = ledger'
    OBVIOUS
  <1>5. \E pc \in {"unmark", "readRegistry"} : L!Goto(s, pc)
    BY DEF L!ReleaseReceipt, L!UndoLedger
  <1>6. EntryPlanned'
    BY <1>1, <1>2, <1>5, AfterGoto, PlannedKept
  <1>7. m.receipt[journal.txn] = NoReceipt
    BY <1>2, <1>4, ReleaseTyped, RollbackTyped DEF L!ReleaseReceipt, L!UndoLedger, Released, RolledBack
  <1>8. EntryForeign'
    BY <1>1, <1>4, <1>7 DEF EntryForeign
  <1>9. journal.action = "adopt" => ("destination" \in m.dirs <=> "destination" \in ledger.dirs)
    <2>1. CASE L!ReleaseReceipt(s)
      <3>1. Released(ledger, journal.txn, m)
        BY <1>2, <1>4, <2>1, ReleaseTyped DEF L!ReleaseReceipt
      <3> QED
        BY <3>1 DEF Released
    <2>2. CASE L!UndoLedger(s)
      <3>1. RolledBack(ledger, journal.txn, m)
        BY <1>2, <1>4, <2>2, RollbackTyped DEF L!UndoLedger
      <3> QED
        BY <1>2, <3>1 DEF RolledBack, Entered, EntryForeign
    <2> QED
      BY <2>1, <2>2
  <1>10. ASSUME "destination" \notin touched
         PROVE  EntrySettled' /\ EntryTold'
    <2>1. EntrySettled /\ EntryTold
      BY <1>10 DEF Entered
    <2>2. EntrySettled'
      BY <1>1, <1>2, <1>4, <1>9, <2>1 DEF EntrySettled
    <2>3. CASE L!ReleaseReceipt(s)
      <3>1. Released(ledger, journal.txn, m) /\ service[s].pc = "release"
        BY <1>2, <1>4, <2>3, ReleaseTyped DEF L!ReleaseReceipt, L!At
      <3>2. m.dirs = ledger.dirs /\ journal.status = "committed"
        BY <1>3, <3>1 DEF Released
      <3> QED
        BY <1>1, <1>4, <2>1, <2>2, <3>2 DEF EntryTold
    <2>4. CASE L!UndoLedger(s)
      <3>1. RolledBack(ledger, journal.txn, m) /\ service[s].pc = "undoLedger"
        BY <1>2, <1>4, <2>4, RollbackTyped DEF L!UndoLedger, L!At
      <3>2. LedgerOk(ledger)
        BY DEF Receipts
      <3>3. journal.action # "adopt" => "destination" \notin m.dirs
        <4>1. CASE ledger.receipt[journal.txn] = NoReceipt
          BY <1>2, <1>3, <2>1, <3>1, <4>1 DEF RolledBack, EntryTold
        <4>2. CASE ledger.receipt[journal.txn] # NoReceipt /\ journal.action # "adopt"
          <5>1. ledger.owner["destination"] = journal.txn
            BY <1>2, <1>3, <2>1, <3>1, <4>2 DEF EntryTold
          <5>2. /\ "destination" \in ledger.receipt[journal.txn].added
                /\ "destination" \notin ledger.receipt[journal.txn].removed
            BY <1>2, <3>2, <4>2, <5>1 DEF LedgerOk
          <5> QED
            BY <1>2, <3>1, <4>2, <5>1, <5>2 DEF RolledBack
        <4> QED
          BY <4>1, <4>2
      <3> QED
        BY <1>1, <1>3, <1>4, <1>7, <2>2, <3>1, <3>3 DEF EntryTold
    <2> QED
      BY <2>3, <2>4
  <1> QED
    BY <1>1, <1>6, <1>8, <1>10 DEF Entered

\* Everybody else leaves the entry alone, or it counts as touched.
LEMMA EnteredOfOthers ==
  ASSUME Ctl, Receipts, Entered, L!User \/ L!ReadToRegister \/ L!WriteRegistered \/ L!OtherJobs
  PROVE  Entered'
  <1>1. CASE L!User \/ L!ReadToRegister \/ L!WriteRegistered
    <2>1. UNCHANGED <<service, journal, ledger, touched>>
      BY <1>1, UserTree DEF L!ReadToRegister, L!WriteRegistered, L!files
    <2>2. ~raced' => /\ ~raced
                     /\ \A p \in {"source", "destination"} : p \in registry' <=> p \in registry
      <3>1. CASE L!User
        BY <3>1, UserTree
      <3>2. CASE L!ReadToRegister
        BY <3>2 DEF L!ReadToRegister, L!files
      <3>3. CASE L!WriteRegistered
        BY <3>3 DEF L!WriteRegistered, L!files
      <3> QED
        BY <1>1, <3>1, <3>2, <3>3
    <2> QED
      BY <2>1, <2>2 DEF Entered, EntryForeign, EntrySettled, EntryTold, EntryPlanned
  <1>2. CASE L!OtherJobs
    <2>1. UNCHANGED <<service, journal, registry, raced>> /\ ledger \in L!Ledger
      BY <1>2 DEF L!OtherJobs, Ctl, L!TypeOK
    <2>2. PICK e \in Entries : OthersDo(ledger, ledger', e) /\ touched' = touched \union {e}
      BY <1>2 DEF L!OtherJobs, OthersDo
    <2>3. PICK m : m = ledger'
      OBVIOUS
    <2>4. /\ \A d \in Entries : d # e => (d \in m.dirs <=> d \in ledger.dirs)
          /\ \A t \in Lifecycles :
               /\ m.receipt[t] = NoReceipt <=> ledger.receipt[t] = NoReceipt
               /\ ledger.receipt[t] # NoReceipt =>
                    /\ m.receipt[t].added \subseteq ledger.receipt[t].added
                    /\ m.receipt[t].removed = ledger.receipt[t].removed
      BY <2>1, <2>2, <2>3, OthersTyped
    <2>5. journal # None => journal.txn \in Lifecycles
      BY DEF Ctl, L!TypeOK, L!Record
    <2>6. EntryForeign'
      BY <2>1, <2>3, <2>4, <2>5 DEF Entered, EntryForeign
    <2>7. "destination" \in Entries
      BY LifecycleAssumptions DEF L!ConstantsAssumption
    <2>8. ASSUME "destination" \notin touched'
          PROVE  EntrySettled' /\ EntryTold' /\ EntryPlanned'
      <3>1. EntrySettled /\ EntryTold /\ EntryPlanned /\ "destination" # e
        BY <2>2, <2>8 DEF Entered
      <3>2. "destination" \in m.dirs <=> "destination" \in ledger.dirs
        BY <2>4, <2>7, <3>1
      <3>3. journal # None /\ journal.action # "adopt" /\ journal.status # "committed"
            /\ m.receipt[journal.txn] # NoReceipt => m.owner["destination"] = journal.txn
        BY <2>1, <2>2, <2>3, <2>4, <2>5, <2>7, <3>1, OthersOk DEF EntryTold, Receipts
      <3>4. EntrySettled' /\ EntryPlanned'
        BY <2>1, <2>3, <3>1, <3>2 DEF EntrySettled, EntryPlanned
      <3>5. EntryTold'
        BY <2>1, <2>3, <2>4, <2>5, <3>1, <3>2, <3>3 DEF EntryTold
      <3> QED
        BY <3>4, <3>5
    <2> QED
      BY <2>6, <2>8 DEF Entered
  <1> QED
    BY <1>1, <1>2

\* Entered is inductive.
LEMMA EnteredPreserved ==
  ASSUME Ctl, Ctl', Receipts, Trees, Registers, Registers', Entered, "commit" \notin Failing,
         [MCNext]_everything
  PROVE  Entered'
  <1>1. CASE UNCHANGED lifecycle
    <2>1. UNCHANGED <<service, journal, registry, ledger, raced, touched>>
      BY <1>1 DEF lifecycle
    <2> QED
      BY <2>1 DEF Entered, EntryForeign, EntrySettled, EntryTold, EntryPlanned
  <1>2. ASSUME NEW s \in Services, Serves(s)
        PROVE  Entered'
    <2>1. CASE UNCHANGED <<ledger, journal, touched>> /\ service[s].pc \notin {"idle", "begin"}
      BY <1>2, <2>1, Underway, EnteredOfQuiet
    <2>2. CASE L!Advance(s)
      <3>1. CASE \/ L!Copy(s) \/ L!Fill(s) \/ L!MoveOut(s) \/ L!Mark(s) \/ L!Rewrite(s)
                 \/ L!RewriteJob(s) \/ L!Publish(s)
        BY <2>1, <3>1 DEF L!Copy, L!Fill, L!MoveOut, L!Mark, L!Rewrite, L!RewriteJob, L!Publish,
          L!others, L!At
      <3>2. CASE L!CheckRegistry(s) \/ L!WriteRegistry(s) \/ L!Unmark(s)
        BY <2>1, <3>2 DEF L!CheckRegistry, L!WriteRegistry, L!Unmark, L!files, L!others, L!At
      <3> QED
        BY <2>2, <3>1, <3>2, EnteredOfBegin, EnteredOfJournal, EnteredOfMerge, EnteredOfEnd,
           EnteredOfForget DEF L!Advance
    <2>3. CASE L!Recover(s)
      <3>1. CASE L!BeginRecovery(s)
        <4>1. UNCHANGED <<ledger, journal, touched>> /\ journal # None
          BY <3>1 DEF L!BeginRecovery, L!files, L!others
        <4> QED
          BY <1>2, <4>1, EnteredOfQuiet
      <3>2. CASE L!Finalize(s) \/ L!UndoClone(s) \/ L!Authority(s) \/ L!ReadRegistry(s)
        BY <2>1, <3>2 DEF L!Finalize, L!UndoClone, L!Authority, L!ReadRegistry, L!Undoing, L!files,
          L!others, L!At
      <3>3. CASE \/ L!RemoveSome(s) \/ L!RemoveRest(s) \/ L!UndoMove(s) \/ L!RestoreMoved(s)
                 \/ L!MoveBack(s)
        BY <2>1, <3>3 DEF L!RemoveSome, L!RemoveRest, L!UndoMove, L!RestoreMoved, L!Restore,
          L!MoveBack, L!Undoing, L!files, L!others, L!At
      <3>4. CASE \/ L!UndoAdopt(s) \/ L!RestoreProject(s) \/ L!UndoAdoptJob(s) \/ L!RestoreJob(s)
                 \/ L!RestoreRegistry(s) \/ L!FinishUndo(s)
        BY <2>1, <3>4 DEF L!UndoAdopt, L!RestoreProject, L!UndoAdoptJob, L!RestoreJob, L!UndoFile,
          L!Restore, L!RestoreRegistry, L!FinishUndo, L!Undoing, L!files, L!others, L!At
      <3> QED
        BY <2>3, <3>1, <3>2, <3>3, <3>4, EnteredOfEnd DEF L!Recover
    <2>4. CASE L!Fail(s)
      <3>1. UNCHANGED <<ledger, journal, touched>>
        BY <2>4 DEF L!Fail, L!files, L!others
      <3>2. journal # None \/ service'[s].pc = "idle"
        <4>1. service[s].pc \notin {"idle", "begin"} \/ service'[s].pc = "idle"
          BY <2>4, FailRecord DEF L!Forward
        <4> QED
          BY <4>1, Underway
      <3> QED
        BY <1>2, <3>1, <3>2, EnteredOfQuiet
    <2> QED
      BY <1>2, <2>2, <2>3, <2>4, EnteredOfCalls DEF Serves
  <1>3. CASE L!User \/ L!ReadToRegister \/ L!WriteRegistered \/ L!OtherJobs
    BY <1>3, EnteredOfOthers
  <1> QED
    BY <1>1, <1>2, <1>3 DEF MCNext, everything, L!Next, Serves

\* At first the destination is not there.
LEMMA EnteredInit == MCInit => Entered
  <1> SUFFICES ASSUME MCInit
               PROVE  Entered
    OBVIOUS
  <1>1. /\ service = [s \in Services |-> L!NoCall] /\ journal = None
        /\ registry \in SUBSET {"source"}
    BY DEF MCInit, L!Init
  <1>2. PICK jobs \in SUBSET {"source"} : ledger = L!LedgerOf(jobs)
    BY DEF MCInit, L!Init
  <1>3. ledger.dirs = jobs
    BY <1>2 DEF L!LedgerOf
  <1> QED
    BY <1>1, <1>2, <1>3
      DEF Entered, EntryForeign, EntrySettled, EntryTold, EntryPlanned, L!NoCall

\* Agreement, whatever fails but the write of the committed record: when the journal goes, what
\* directory, registry and ledger say of the project agrees (_cleanup_committed_journal,
\* _recover_record), except of an entry that others changed.
THEOREM AuthoritiesAgree ==
  ASSUME "commit" \notin Failing
  PROVE  MCSpec => []Agreement
  <1> DEFINE All == Ctl /\ Receipts /\ Trees /\ Registers /\ Entered
  <1>1. All /\ [MCNext]_everything => All'
    BY CtlPreserved, ReceiptsPreserved, TreesPreserved, RegistersPreserved, EnteredPreserved
  <1>2. All => Agreement
    <2> SUFFICES ASSUME All, journal = None, ~raced, NEW place \in {"source", "destination"}
                 PROVE  /\ place \in registry => /\ tree[place].kind = "whole"
                                                 /\ tree[place].mark = NoOwner
                        /\ place = "destination" /\ tree[place].kind = "whole" => place \in registry
                        /\ place = "destination" /\ place \notin touched =>
                             (place \in registry <=> place \in ledger.dirs)
      BY DEF Agreement, L!Agreement
    <2>1. Settled /\ InPlace
      BY DEF Registers, Trees, TreeInv
    <2>2. "destination" \notin touched => EntrySettled
      BY DEF Entered
    <2> QED
      BY <2>1, <2>2 DEF Settled, InPlace, EntrySettled, L!Places
  <1> HIDE DEF All
  <1>3. MCInit => All
    BY CtlInit, ReceiptsInit, TreesInit, RegistersInit, EnteredInit DEF All
  <1> QED
    BY <1>1, <1>2, <1>3, PTL DEF MCSpec

=============================================================================
