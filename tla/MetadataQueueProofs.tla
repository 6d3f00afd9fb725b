------------------------ MODULE MetadataQueueProofs -------------------------
(***************************************************************************)
(* What MetadataQueue guarantees for any artists, tracks, batch size, rate *)
(* limit and number of faults.                                             *)
(*                                                                         *)
(* HandInv says when the worker holds nothing, which makes it safe to turn *)
(* from one kind of id to the other and to take up a batch.  AskInv ties   *)
(* the requests for an id to its lock: what is about to be asked for is    *)
(* locked and has been asked for by the current call only, since all that  *)
(* was locked before has been dropped.                                     *)
(***************************************************************************)
EXTENDS MetadataQueue, FiniteSetTheorems, TLAPS

HandInv == /\ TypeOK
           /\ At("wait") \/ At("expire") \/ At("token") \/ At("pop") => hand = {}

AskInv == /\ \A i \in Ids : asked[i] > 0 => i \in locked
          /\ At("fetch") => \A i \in hand : i \in locked /\ asked[i] = tries
          /\ ~At("fetch") => tries = 0

LEMMA Countable ==
    ASSUME NEW S \in SUBSET Ids
    PROVE  IsFiniteSet(S) /\ Cardinality(S) \in Nat
<1>1. IsFiniteSet(Ids)
    BY FS_Union, MetadataAssumption DEF MetadataAssumption, Ids
<1> QED
    BY <1>1, FS_Subset, FS_CardinalityType

\* What is left of a batch is no larger.
LEMMA Fewer ==
    ASSUME HandInv, NEW S \in SUBSET hand
    PROVE  Cardinality(S) <= BatchSize
<1>1. hand \in SUBSET Ids
    BY DEF HandInv, TypeOK, OfKind, Ids
<1>2. IsFiniteSet(hand) /\ Cardinality(hand) \in Nat /\ Cardinality(hand) <= BatchSize
    BY <1>1, Countable DEF HandInv, TypeOK
<1>3. Cardinality(S) \in Nat /\ Cardinality(S) <= Cardinality(hand)
    BY <1>1, <1>2, Countable, FS_Subset
<1> QED
    BY <1>2, <1>3, MetadataAssumption DEF MetadataAssumption

LEMMA NoHand == Cardinality({}) <= BatchSize
BY FS_EmptySet, MetadataAssumption DEF MetadataAssumption

\* A fault stays within the bound.
LEMMA Faulty ==
    ASSUME HandInv, Fault \/ UNCHANGED faults
    PROVE  faults' \in 0 .. MaxFaults
BY MetadataAssumption DEF MetadataAssumption, Fault, HandInv, TypeOK

-----------------------------------------------------------------------------
\* Types.

LEMMA Bounds ==
    RateMax \in Nat /\ 0 \in 0 .. RateMax + 1 /\ 0 \in 0 .. MaxFaults /\ 0 \in 0 .. MaxRetries
BY MetadataAssumption DEF MetadataAssumption

LEMMA HandInit == Init => HandInv
<1> SUFFICES ASSUME Init PROVE HandInv
    OBVIOUS
<1>1. Cardinality(hand) <= BatchSize /\ hand = {}
    BY NoHand DEF Init
<1>2. requests \in 0 .. RateMax + 1 /\ faults \in 0 .. MaxFaults /\ tries \in 0 .. MaxRetries
    BY Bounds DEF Init
<1>3. row \in [Ids -> {"none", "bare", "full"}] /\ asked \in [Ids -> Nat]
    BY DEF Init
<1>4. at \in [Callers -> {"wait", "expire", "token", "pop", "lock", "fetch", "store", "commit",
                         "requeue"}]
    BY DEF Init
<1>5. pending \subseteq Ids /\ locked \subseteq Ids /\ open \subseteq Ids /\ expires \in BOOLEAN
      /\ kind \in {"artist", "track"}
    BY DEF Init
<1> QED
    BY <1>1, <1>2, <1>3, <1>4, <1>5 DEF HandInv, TypeOK

LEMMA HandQueued == ASSUME HandInv, Queued PROVE HandInv'
<1>1. /\ row' \in [Ids -> {"none", "bare", "full"}]
      /\ UNCHANGED <<locked, workVars, rateVars, asked>>
    <2>1. ASSUME NEW t \in Tracks, Play(t)
          PROVE  row' \in [Ids -> {"none", "bare", "full"}]
        BY <2>1 DEF Play, HandInv, TypeOK
    <2>2. ASSUME NEW t \in Tracks, Import(t)
          PROVE  row' \in [Ids -> {"none", "bare", "full"}]
        BY <2>2 DEF Import, HandInv, TypeOK
    <2>3. ASSUME NEW a \in Artists, Catalog(a)
          PROVE  row' \in [Ids -> {"none", "bare", "full"}]
        BY <2>3 DEF Catalog, HandInv, TypeOK
    <2> QED
        BY <2>1, <2>2, <2>3 DEF Queued, Play, Import, Catalog
<1>2. pending' \subseteq Ids /\ open' \subseteq Ids /\ (Fault \/ UNCHANGED faults)
    <2>1. ASSUME NEW ids \in SUBSET Ids, Add(ids)
          PROVE  pending' \subseteq Ids /\ open' \subseteq Ids /\ (Fault \/ UNCHANGED faults)
        BY <2>1 DEF Add, HandInv, TypeOK
    <2>2. ASSUME NEW t \in Tracks, Play(t) PROVE \E ids \in SUBSET Ids : Add(ids)
        <3>1. {a \in ArtistsOf[t] : row'[a] = "bare"} \in SUBSET Ids
            BY MetadataAssumption DEF MetadataAssumption, Ids
        <3> QED
            BY <2>2, <3>1 DEF Play
    <2>3. ASSUME NEW t \in Tracks, Import(t) PROVE \E ids \in SUBSET Ids : Add(ids)
        BY <2>3 DEF Import, Ids
    <2>4. ASSUME NEW a \in Artists, Catalog(a)
          PROVE  pending' \subseteq Ids /\ open' \subseteq Ids /\ UNCHANGED faults
        BY <2>4 DEF Catalog, HandInv, TypeOK
    <2> QED
        BY <2>1, <2>2, <2>3, <2>4 DEF Queued
<1>3. faults' \in 0 .. MaxFaults
    BY <1>2, Faulty
<1> QED
    BY <1>1, <1>2, <1>3
       DEF HandInv, TypeOK, OfKind, At, workVars, rateVars

LEMMA HandRate == ASSUME HandInv, Rate PROVE HandInv'
<1>1. UNCHANGED <<row, pending, locked, kind, hand, tries, asked, open, faults>>
    BY DEF Rate, MinuteEnds, Incr, SetExpiry, workVars
<1>2. requests' \in 0 .. RateMax + 1 /\ expires' \in BOOLEAN
    <2>1. ASSUME NEW c \in Callers, Incr(c) PROVE requests' \in 0 .. RateMax + 1
        BY <2>1, Bounds DEF Incr, HandInv, TypeOK
    <2> QED
        BY <2>1, Bounds DEF Rate, MinuteEnds, Incr, SetExpiry, HandInv, TypeOK
<1>3. /\ at' \in [Callers -> {"wait", "expire", "token", "pop", "lock", "fetch", "store",
                              "commit", "requeue"}]
      /\ at'["metadata"] = at["metadata"] \/ hand = {}
    BY DEF Rate, MinuteEnds, Incr, SetExpiry, Permitted, HandInv, TypeOK, Callers, At, workVars
<1> QED
    BY <1>1, <1>2, <1>3 DEF HandInv, TypeOK, OfKind, At

LEMMA NextKindTyped ==
    ASSUME HandInv, NextKind, hand' = {}
    PROVE  /\ kind' \in {"artist", "track"} /\ hand' \subseteq OfKind'
           /\ Cardinality(hand') <= BatchSize
           /\ at' \in [Callers -> {"wait", "expire", "token", "pop", "lock", "fetch", "store",
                                  "commit", "requeue"}]
BY NoHand DEF NextKind, Go, HandInv, TypeOK, Callers

\* Where the worker goes, and what it holds there.
LEMMA HandWorker ==
    ASSUME HandInv, WorkerStep \/ Failure
    PROVE  /\ at' \in [Callers -> {"wait", "expire", "token", "pop", "lock", "fetch", "store",
                                  "commit", "requeue"}]
           /\ kind' \in {"artist", "track"}
           /\ hand' \subseteq OfKind' /\ Cardinality(hand') <= BatchSize
           /\ (At("wait") \/ At("expire") \/ At("token") \/ At("pop") => hand = {})'
<1> DEFINE Goal ==
        /\ at' \in [Callers -> {"wait", "expire", "token", "pop", "lock", "fetch", "store",
                               "commit", "requeue"}]
        /\ kind' \in {"artist", "track"}
        /\ hand' \subseteq OfKind' /\ Cardinality(hand') <= BatchSize
        /\ at'["metadata"] \in {"wait", "expire", "token", "pop"} => hand' = {}
<1> SUFFICES Goal
    BY DEF At
<1>1. /\ at \in [Callers -> {"wait", "expire", "token", "pop", "lock", "fetch", "store",
                             "commit", "requeue"}]
      /\ kind \in {"artist", "track"}
      /\ hand \subseteq OfKind /\ Cardinality(hand) <= BatchSize
      /\ pending \subseteq Ids /\ "metadata" \in Callers
    BY DEF HandInv, TypeOK, Callers
<1>2. CASE NextKind /\ hand' = {}
    BY <1>2, NextKindTyped
<1>3. CASE StartOver
    BY <1>1, <1>3, NoHand DEF StartOver, Go
<1>4. CASE GetToken \/ NoToken
    BY <1>1, <1>4 DEF GetToken, NoToken, Go, OfKind, At, HandInv
<1>5. CASE Pop
    <2>1. PICK batch \in kSubset(Smaller(BatchSize, Cardinality(pending \cap OfKind)),
                                 pending \cap OfKind) :
            /\ hand' = batch
            /\ IF batch = {} THEN NextKind ELSE Go("lock") /\ UNCHANGED kind
        BY <1>5 DEF Pop
    <2>2. batch \subseteq OfKind /\ Cardinality(batch) <= BatchSize
        <3>1. Cardinality(pending \cap OfKind) \in Nat
            BY <1>1, Countable
        <3>2. /\ batch \subseteq OfKind
              /\ Cardinality(batch) = Smaller(BatchSize, Cardinality(pending \cap OfKind))
            BY DEF kSubset
        <3> QED
            BY <3>1, <3>2, MetadataAssumption DEF MetadataAssumption, Smaller
    <2>3. CASE batch = {}
        BY <1>2, <2>1, <2>3
    <2>4. CASE batch # {}
        BY <1>1, <2>1, <2>2, <2>4 DEF Go, OfKind
    <2> QED
        BY <2>3, <2>4
<1>6. CASE TryLocks
    <2>1. CASE hand \subseteq locked
        BY <1>2, <1>6, <2>1 DEF TryLocks
    <2>2. CASE ~(hand \subseteq locked)
        <3>1. hand' \subseteq hand /\ Go("fetch") /\ kind' = kind
            BY <1>6, <2>2 DEF TryLocks
        <3>2. Cardinality(hand') <= BatchSize
            BY <3>1, Fewer
        <3> QED
            BY <1>1, <3>1, <3>2 DEF Go, OfKind
    <2> QED
        BY <2>1, <2>2
<1>7. CASE Fetch \/ FetchAgain \/ StoreTracks \/ BatchFails
    BY <1>1, <1>7 DEF Fetch, FetchAgain, StoreTracks, BatchFails, Go, OfKind, At
<1>8. CASE StoreArtists
    <2>1. CASE NextKind /\ hand' = {}
        BY <1>2, <2>1
    <2>2. CASE Go("requeue") /\ UNCHANGED <<hand, kind>>
        BY <1>1, <2>2 DEF Go, OfKind
    <2> QED
        BY <1>8, <2>1, <2>2 DEF StoreArtists, Store
<1>9. CASE CommitTracks
    BY <1>2, <1>9 DEF CommitTracks, Store
<1>10. CASE \E i \in Ids : Requeue(i)
    <2>1. PICK i \in Ids : Requeue(i)
        BY <1>10
    <2>2. CASE hand = {i}
        BY <1>3, <2>1, <2>2 DEF Requeue
    <2>3. CASE hand # {i}
        <3>1. hand' = hand \ {i} /\ UNCHANGED <<at, kind>> /\ At("requeue")
            BY <2>1, <2>3 DEF Requeue
        <3>2. Cardinality(hand') <= BatchSize
            BY <3>1, Fewer
        <3> QED
            BY <1>1, <3>1, <3>2 DEF At, OfKind
    <2> QED
        BY <2>2, <2>3
<1>11. CASE PopOrLockFails \/ RequeueFails
    BY <1>3, <1>11 DEF PopOrLockFails, RequeueFails
<1>12. CASE Restart
    BY <1>1, <1>12, NoHand DEF Restart, Callers
<1> QED
    BY <1>4, <1>5, <1>6, <1>7, <1>8, <1>9, <1>10, <1>11, <1>12 DEF WorkerStep, Failure

\* What the worker does to the rest.
LEMMA RestWorker ==
    ASSUME HandInv, WorkerStep \/ Failure
    PROVE  /\ row' \in [Ids -> {"none", "bare", "full"}]
           /\ pending' \subseteq Ids /\ locked' \subseteq Ids /\ open' \subseteq Ids
           /\ asked' \in [Ids -> Nat] /\ tries' \in 0 .. MaxRetries
           /\ (Fault \/ UNCHANGED faults) /\ UNCHANGED rateVars
<1>1. /\ row \in [Ids -> {"none", "bare", "full"}]
      /\ pending \subseteq Ids /\ locked \subseteq Ids /\ open \subseteq Ids /\ hand \subseteq Ids
      /\ asked \in [Ids -> Nat]
    BY DEF HandInv, TypeOK, OfKind, Ids
<1>2. row' \in [Ids -> {"none", "bare", "full"}]
    <2>1. CASE StoreArtists
        BY <1>1, <2>1 DEF StoreArtists, Store
    <2>2. CASE CommitTracks
        BY <1>1, <2>2 DEF CommitTracks, Store
    <2> QED
        BY <1>1, <2>1, <2>2
           DEF WorkerStep, Failure, GetToken, NoToken, Pop, TryLocks, PopOrLockFails, Fetch,
               FetchAgain, StoreTracks, BatchFails, Requeue, RequeueFails, Restart
<1>3. asked' \in [Ids -> Nat]
    <2>1. Asked \in [Ids -> Nat]
        BY <1>1 DEF Asked
    <2>2. CASE Fetch \/ FetchAgain \/ BatchFails
        BY <1>1, <2>1, <2>2 DEF Fetch, FetchAgain, BatchFails
    <2> QED
        BY <1>1, <2>2
           DEF WorkerStep, Failure, GetToken, NoToken, Pop, TryLocks, PopOrLockFails,
               StoreArtists, StoreTracks, CommitTracks, Requeue, RequeueFails, Restart
<1>6. tries' \in 0 .. MaxRetries
    <2>1. tries \in 0 .. MaxRetries
        BY DEF HandInv, TypeOK
    <2>2. CASE FetchAgain
        BY <2>1, <2>2, Bounds, MetadataAssumption DEF FetchAgain, MetadataAssumption
    <2>3. CASE ~FetchAgain
        <3>1. tries' \in {tries, 0}
            BY <2>3
               DEF WorkerStep, Failure, GetToken, NoToken, Pop, TryLocks, PopOrLockFails, Fetch,
                   StoreArtists, StoreTracks, CommitTracks, BatchFails, Requeue, RequeueFails,
                   Restart, StartOver
        <3> QED
            BY <2>1, <3>1, Bounds
    <2> QED
        BY <2>2, <2>3
<1>4. /\ pending' \subseteq Ids /\ locked' \subseteq Ids /\ open' \subseteq Ids
      /\ (Fault \/ UNCHANGED faults)
    <2>1. CASE StoreTracks
        <3>1. PICK known \in SUBSET hand : Add(UNION {ArtistsOf[t] : t \in known})
            BY <2>1 DEF StoreTracks
        <3>2. UNION {ArtistsOf[t] : t \in known} \subseteq Ids
            <4>1. At("store") /\ kind = "track"
                BY <2>1 DEF StoreTracks
            <4>2. known \subseteq Tracks
                BY <4>1, <3>1 DEF HandInv, TypeOK, OfKind
            <4> QED
                BY <4>2, MetadataAssumption DEF MetadataAssumption, Ids
        <3>3. \E sent \in SUBSET (UNION {ArtistsOf[t] : t \in known}) :
                /\ pending' = pending \cup sent /\ open' = open \cup sent
                /\ Fault \/ UNCHANGED faults
            BY <3>1 DEF Add
        <3> QED
            BY <1>1, <2>1, <3>2, <3>3 DEF StoreTracks
    <2>2. CASE Restart \/ PopOrLockFails \/ RequeueFails
        BY <1>1, <2>2 DEF Restart, PopOrLockFails, RequeueFails, Settled, Bare
    <2>3. CASE Pop \/ TryLocks \/ StoreArtists \/ CommitTracks
        BY <1>1, <2>3
           DEF Pop, TryLocks, StoreArtists, CommitTracks, Store, Settled, kSubset
    <2> QED
        BY <1>1, <2>1, <2>2, <2>3
           DEF WorkerStep, Failure, GetToken, NoToken, Fetch, FetchAgain, BatchFails, Requeue
<1>5. UNCHANGED rateVars
    BY DEF WorkerStep, Failure, GetToken, NoToken, Pop, TryLocks, PopOrLockFails, Fetch,
           FetchAgain, StoreArtists, StoreTracks, CommitTracks, BatchFails, Requeue, RequeueFails, Restart
<1> QED
    BY <1>2, <1>3, <1>4, <1>5, <1>6

LEMMA HandNext == HandInv /\ [Next]_vars => HandInv'
<1> SUFFICES ASSUME HandInv, [Next]_vars PROVE HandInv'
    OBVIOUS
<1>1. CASE WorkerStep \/ Failure
    <2>1. faults' \in 0 .. MaxFaults
        BY <1>1, RestWorker, Faulty
    <2>2. requests' \in 0 .. RateMax + 1 /\ expires' \in BOOLEAN
        BY <1>1, RestWorker DEF rateVars, HandInv, TypeOK
    <2> QED
        BY <1>1, <2>1, <2>2, HandWorker, RestWorker DEF HandInv, TypeOK
<1>2. CASE \E i \in Ids : LockExpires(i)
    <2>1. faults' \in 0 .. MaxFaults
        BY <1>2, Faulty DEF LockExpires
    <2>2. locked' \subseteq Ids /\ asked' \in [Ids -> Nat]
        BY <1>2 DEF LockExpires, HandInv, TypeOK
    <2> QED
        BY <1>2, <2>1, <2>2
           DEF LockExpires, workVars, rateVars, HandInv, TypeOK, OfKind, At
<1>3. CASE UNCHANGED vars
    BY <1>3 DEF vars, HandInv, TypeOK, OfKind, At
<1> QED
    BY <1>1, <1>2, <1>3, HandQueued, HandRate DEF Next

LEMMA AlwaysHand == Spec => []HandInv
BY HandInit, HandNext, PTL DEF Spec

\* Every variable keeps its type; what the worker holds is of the kind it is at, and no
\* more than a batch (metadata-worker.ts:22, 196).
THEOREM TypeCorrect == Spec => []TypeOK
<1>1. HandInv => TypeOK
    BY DEF HandInv
<1> QED
    BY <1>1, AlwaysHand, PTL

-----------------------------------------------------------------------------
\* Requests and locks.

LEMMA AskNext ==
    ASSUME HandInv, AskInv, [Next]_vars
    PROVE  AskInv'
<1>1. /\ asked \in [Ids -> Nat] /\ locked \subseteq Ids /\ hand \subseteq Ids
      /\ at \in [Callers -> {"wait", "expire", "token", "pop", "lock", "fetch", "store",
                             "commit", "requeue"}] /\ "metadata" \in Callers
    BY DEF HandInv, TypeOK, OfKind, Ids, Callers
<1>2. CASE UNCHANGED <<asked, locked, at, hand, tries>>
    BY <1>2 DEF AskInv, At
<1>3. ASSUME UNCHANGED asked, locked \subseteq locked', ~At("fetch")', tries' = 0
      PROVE  AskInv'
    BY <1>1, <1>3 DEF AskInv
<1>4. CASE Queued
    <2>1. UNCHANGED <<asked, locked, at, hand, tries>>
        BY <1>4 DEF Queued, Play, Import, Catalog, workVars
    <2> QED
        BY <1>2, <2>1
<1>5. CASE Rate
    <2>1. UNCHANGED <<asked, locked, hand, tries>>
        BY <1>5 DEF Rate, MinuteEnds, Incr, SetExpiry, workVars
    <2>2. at'["metadata"] = at["metadata"] \/ (~At("fetch") /\ ~At("fetch")')
        BY <1>1, <1>5
           DEF Rate, MinuteEnds, Incr, SetExpiry, Permitted, Callers, At, workVars
    <2> QED
        BY <2>1, <2>2 DEF AskInv, At
<1>6. CASE \E i \in Ids : LockExpires(i)
    <2>1. PICK i \in Ids : LockExpires(i)
        BY <1>6
    <2>2. /\ i \notin hand /\ locked' = locked \ {i} /\ asked' = [asked EXCEPT ![i] = 0]
          /\ UNCHANGED <<at, hand, tries>>
        BY <2>1 DEF LockExpires, workVars
    <2> QED
        BY <1>1, <2>2 DEF AskInv, At
<1>7. CASE TryLocks
    <2>1. /\ asked' = asked /\ hand' = hand \ locked /\ locked' = locked \cup hand
          /\ tries' = tries /\ tries = 0
        BY <1>7 DEF TryLocks, AskInv, At
    <2>2. \A i \in hand \ locked : asked[i] = 0
        BY <1>1 DEF AskInv
    <2> QED
        BY <1>1, <2>1, <2>2 DEF AskInv
<1>10. \A i \in Ids : Asked[i] = IF i \in hand THEN asked[i] + 1 ELSE asked[i]
    BY DEF Asked
<1>11. At("fetch") => \A i \in Ids : Asked[i] > 0 => i \in locked
    BY <1>1, <1>10 DEF AskInv
<1>8. CASE Fetch \/ BatchFails
    <2>1. /\ locked' = locked /\ hand' = hand /\ ~At("fetch")' /\ tries' = 0
          /\ asked' = asked \/ (At("fetch") /\ asked' = Asked)
        BY <1>1, <1>8 DEF Fetch, BatchFails, Go, At
    <2>2. CASE asked' = asked
        BY <1>3, <2>1, <2>2
    <2>3. CASE At("fetch") /\ asked' = Asked
        BY <1>11, <2>1, <2>3 DEF AskInv
    <2> QED
        BY <2>1, <2>2, <2>3
<1>12. CASE FetchAgain
    <2>1. /\ UNCHANGED <<locked, hand, at>> /\ At("fetch") /\ asked' = Asked
          /\ tries' = tries + 1
        BY <1>12 DEF FetchAgain
    <2>2. \A i \in hand : i \in locked /\ asked'[i] = tries'
        BY <1>1, <1>10, <2>1 DEF AskInv
    <2>3. \A i \in Ids : asked'[i] > 0 => i \in locked
        BY <1>11, <2>1
    <2> QED
        BY <2>1, <2>2, <2>3 DEF AskInv, At
<1>9. CASE GetToken \/ NoToken \/ Pop \/ StoreArtists \/ StoreTracks \/ CommitTracks
           \/ PopOrLockFails \/ RequeueFails \/ Restart \/ \E i \in Ids : Requeue(i)
    <2>1. UNCHANGED asked /\ locked \subseteq locked'
        BY <1>9
           DEF GetToken, NoToken, Pop, StoreArtists, StoreTracks, CommitTracks,
               PopOrLockFails, RequeueFails, Restart, Requeue
    <2>2. ~At("fetch")'
        <3>1. CASE NextKind \/ StartOver
            BY <1>1, <3>1 DEF NextKind, StartOver, Go, At
        <3>2. CASE Go("pop") \/ Go("wait") \/ Go("lock") \/ Go("requeue") \/ Go("commit")
            BY <1>1, <3>2 DEF Go, At
        <3>3. CASE At("requeue") /\ at' = at
            BY <3>3 DEF At
        <3>4. CASE Restart
            BY <3>4 DEF Restart, At, Callers
        <3> QED
            BY <1>9, <3>1, <3>2, <3>3, <3>4
               DEF GetToken, NoToken, Pop, StoreArtists, StoreTracks, CommitTracks, Store,
                   PopOrLockFails, RequeueFails, Requeue
    <2>3. tries' = 0
        <3>1. Restart \/ ~At("fetch")
            BY <1>9
               DEF GetToken, NoToken, Pop, StoreArtists, StoreTracks, CommitTracks,
                   PopOrLockFails, RequeueFails, Requeue, At
        <3>2. tries' \in {tries, 0}
            BY <1>9
               DEF GetToken, NoToken, Pop, StoreArtists, StoreTracks, CommitTracks,
                   PopOrLockFails, RequeueFails, Restart, Requeue, StartOver
        <3> QED
            BY <3>1, <3>2 DEF AskInv, Restart
    <2> QED
        BY <1>3, <2>1, <2>2, <2>3
<1> QED
    BY <1>2, <1>4, <1>5, <1>6, <1>7, <1>8, <1>9, <1>12 DEF Next, WorkerStep, Failure, vars

\* Of the many times an id is queued in a day, one call asks Spotify for it: what is asked
\* again is asked by that call, after an answer 5xx (README.md:39, metadata-worker.ts:29,
\* spotify-api.ts:85).
THEOREM OneCallADayCorrect == Spec => OneCallADay
<1>1. Init => AskInv
    BY DEF Init, AskInv, At, Callers
<1>2. HandInv /\ AskInv /\ [Next]_vars => AskInv'
    BY AskNext
<1>3. HandInv /\ AskInv /\ [Next]_vars =>
        [\A i \in Ids : asked'[i] > asked[i] => asked[i] = tries]_vars
    <2> SUFFICES ASSUME HandInv, AskInv, Next, NEW i \in Ids, asked'[i] > asked[i]
                 PROVE  asked[i] = tries
        OBVIOUS
    <2>1. asked \in [Ids -> Nat]
        BY DEF HandInv, TypeOK
    <2>2. At("fetch") /\ asked' = Asked
        <3>1. CASE \E k \in Ids : LockExpires(k)
            BY <2>1, <3>1 DEF LockExpires
        <3>2. CASE Fetch \/ FetchAgain \/ BatchFails
            BY <2>1, <3>2 DEF Fetch, FetchAgain, BatchFails
        <3>3. CASE UNCHANGED asked
            BY <2>1, <3>3
        <3> QED
            BY <3>1, <3>2, <3>3
               DEF Next, WorkerStep, Failure, Queued, Rate, GetToken, NoToken, Pop, TryLocks,
                   PopOrLockFails, StoreArtists, StoreTracks, CommitTracks, Requeue,
                   RequeueFails, Restart, Play, Import, Catalog, MinuteEnds, Incr, SetExpiry
    <2>3. i \in hand
        BY <2>1, <2>2 DEF Asked
    <2> QED
        BY <2>2, <2>3 DEF AskInv
<1> QED
    BY <1>1, <1>2, <1>3, AlwaysHand, PTL DEF Spec, OneCallADay

-----------------------------------------------------------------------------
\* What has become of the ids.

LEMMA ForgetsNothing ==
    ASSUME HandInv, NothingForgotten, [Next]_vars
    PROVE  NothingForgotten'
<1>1. open \subseteq pending \cup hand
    BY DEF NothingForgotten
<1>2. CASE Queued
    <2>1. ASSUME NEW ids, Add(ids)
          PROVE  \E sent : pending' = pending \cup sent /\ open' = open \cup sent
        BY <2>1 DEF Add
    <2>2. hand' = hand /\ \E sent : pending' = pending \cup sent /\ open' = open \cup sent
        <3>1. CASE \E t \in Tracks : Play(t)
            BY <2>1, <3>1 DEF Play, workVars
        <3>2. CASE \E t \in Tracks : Import(t)
            BY <2>1, <3>2 DEF Import, workVars
        <3>3. CASE \E a \in Artists : Catalog(a)
            <4>1. pending' = pending \cup {} /\ open' = open \cup {} /\ hand' = hand
                BY <3>3 DEF Catalog, workVars
            <4> QED
                BY <4>1
        <3> QED
            BY <1>2, <3>1, <3>2, <3>3 DEF Queued
    <2> QED
        BY <1>1, <2>2 DEF NothingForgotten
<1>3. CASE Rate \/ (\E i \in Ids : LockExpires(i)) \/ UNCHANGED vars
    <2>1. UNCHANGED <<open, pending, hand>>
        BY <1>3 DEF Rate, MinuteEnds, Incr, SetExpiry, LockExpires, vars, workVars
    <2> QED
        BY <1>1, <2>1 DEF NothingForgotten
<1>4. CASE GetToken \/ NoToken \/ Fetch \/ FetchAgain \/ BatchFails
    BY <1>1, <1>4 DEF GetToken, NoToken, Fetch, FetchAgain, BatchFails, NothingForgotten
<1>5. CASE Pop
    \* The worker holds nothing before it pops.
    <2>1. hand = {} /\ pending \subseteq pending' \cup hand' /\ open' = open
        BY <1>5 DEF Pop, HandInv
    <2> QED
        BY <1>1, <2>1 DEF NothingForgotten
<1>6. CASE TryLocks
    BY <1>1, <1>6 DEF TryLocks, Settled, NothingForgotten
<1>7. CASE PopOrLockFails
    <2>1. hand' = {}
        BY <1>7 DEF PopOrLockFails, StartOver
    <2>2. CASE At("pop")
        <3>1. hand = {} /\ ~At("lock")
            BY <2>2 DEF HandInv, At
        <3> QED
            BY <1>1, <1>7, <2>1, <2>2, <3>1 DEF PopOrLockFails, NothingForgotten
    <2>3. CASE At("lock")
        <3>1. ~At("pop")
            BY <2>3 DEF At
        <3> QED
            BY <1>1, <1>7, <2>1, <3>1 DEF PopOrLockFails, Settled, NothingForgotten
    <2> QED
        BY <1>7, <2>2, <2>3 DEF PopOrLockFails
<1>8. CASE StoreArtists
    BY <1>1, <1>8 DEF StoreArtists, Store, Settled, NothingForgotten
<1>9. CASE StoreTracks
    <2>1. hand' = hand /\ \E sent : pending' = pending \cup sent /\ open' = open \cup sent
        BY <1>9 DEF StoreTracks, Add
    <2> QED
        BY <1>1, <2>1 DEF NothingForgotten
<1>10. CASE CommitTracks
    BY <1>1, <1>10 DEF CommitTracks, Store, Settled, NothingForgotten
<1>11. CASE \E i \in Ids : Requeue(i)
    BY <1>1, <1>11 DEF Requeue, StartOver, NothingForgotten
<1>12. CASE RequeueFails
    BY <1>1, <1>12 DEF RequeueFails, StartOver, Settled, NothingForgotten
<1>13. CASE Restart
    BY <1>1, <1>13 DEF Restart, NothingForgotten
<1> QED
    BY <1>2, <1>3, <1>4, <1>5, <1>6, <1>7, <1>8, <1>9, <1>10, <1>11, <1>12, <1>13
       DEF Next, WorkerStep, Failure

\* An id leaves the sets only with its batch stored, as a repeat within the day, or by a
\* failure of Redis or the process (metadata-worker.ts:29, 53, 234).
THEOREM NothingForgottenCorrect == Spec => []NothingForgotten
<1>1. Init => NothingForgotten
    BY DEF Init, NothingForgotten
<1>2. HandInv /\ NothingForgotten /\ [Next]_vars => NothingForgotten'
    BY ForgetsNothing
<1> QED
    BY <1>1, <1>2, AlwaysHand, PTL DEF Spec

=============================================================================
