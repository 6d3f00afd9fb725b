--------------------------- MODULE MetadataQueue ----------------------------
(***************************************************************************)
(* The metadata of artists and tracks: who queues an id in Redis, and the  *)
(* worker that pops a batch, takes a lock of 24 hours on each id, asks     *)
(* Spotify and stores the answer, at a rate it shares with the sync jobs.  *)
(***************************************************************************)
EXTENDS Naturals, FiniteSets, FiniteSetsExt

CONSTANTS
    Artists, Tracks,
    ArtistsOf,    \* [Tracks -> SUBSET Artists]
    BatchSize,    \* ids popped at a time (50)
    RateMax,      \* requests in a minute (150)
    MaxRetries,   \* how often one call repeats a request: retries of pRetry (3)
    MaxFaults     \* bound on errors, missing tokens and restarts

ASSUME MetadataAssumption ==
    /\ IsFiniteSet(Artists) /\ IsFiniteSet(Tracks) /\ Artists \cap Tracks = {}
    /\ ArtistsOf \in [Tracks -> SUBSET Artists]
    /\ BatchSize \in Nat \ {0} /\ RateMax \in Nat \ {0}
    /\ MaxRetries \in Nat /\ MaxFaults \in Nat

Ids == Artists \cup Tracks
Callers == {"metadata", "sync"}  \* those who wait for the rate limit

VARIABLES
    row,       \* "none", "bare" (an artist without imageUrl, a track without album) or "full"
    pending,   \* the sets pending_artists and pending_tracks
    locked,    \* ids with a metadata_lock
    at,        \* where each caller is
    kind,      \* what the worker processes, and
    hand,      \* the ids it has popped
    tries,     \* requests answered 5xx in the call that asks for them
    requests,  \* spotify:requests:minute; past RateMax all counts are one
    expires,   \* whether that key has a time to live
    asked,     \* history: requests for an id since its lock was taken
    open,      \* history: ids that were queued and have neither been stored, dropped nor lost
    faults

vars == <<row, pending, locked, at, kind, hand, tries, requests, expires, asked, open,
          faults>>
rateVars == <<requests, expires>>
workVars == <<at, kind, hand, tries>>

Fault == faults < MaxFaults /\ faults' = faults + 1
OfKind == IF kind = "artist" THEN Artists ELSE Tracks
Bare == {i \in Ids : row[i] = "bare"}
Settled(ids) == open' = open \ (ids \ pending)
Go(step) == at' = [at EXCEPT !["metadata"] = step]
At(step) == at["metadata"] = step

Init ==
    /\ row = [i \in Ids |-> "none"]
    /\ pending = {} /\ locked = {}
    /\ at = [c \in Callers |-> "wait"]
    /\ kind = "artist" /\ hand = {} /\ tries = 0
    /\ requests = 0 /\ expires = FALSE
    /\ asked = [i \in Ids |-> 0]
    /\ open = {}
    /\ faults = 0

-----------------------------------------------------------------------------
\* Who queues ids.

\* SADD of the ids; an error or the end of the process leaves some out.
Add(ids) ==
    \E sent \in SUBSET ids :
        /\ pending' = pending \cup sent
        /\ open' = open \cup sent
        /\ IF sent = ids THEN UNCHANGED faults ELSE Fault

\* A play stores its track with its album, its artists by name, and queues those
\* that have no image yet; what exists is left as it is.
Play(t) ==
    LET artists == ArtistsOf[t]
        rows == [i \in Ids |-> IF row[i] # "none" THEN row[i]
                               ELSE IF i = t THEN "full"
                               ELSE IF i \in artists THEN "bare" ELSE "none"]
    IN /\ row' = rows
       /\ Add({a \in artists : rows[a] = "bare"})
       /\ UNCHANGED <<locked, workVars, rateVars, asked>>

\* An import knows its tracks by id only, and queues those it creates.
Import(t) ==
    /\ row[t] = "none"
    /\ row' = [row EXCEPT ![t] = "bare"]
    /\ Add({t})
    /\ UNCHANGED <<locked, workVars, rateVars, asked>>

\* The refresh of the top lists creates the artists of its tracks and queues none.
Catalog(a) ==
    /\ row[a] = "none"
    /\ row' = [row EXCEPT ![a] = "bare"]
    /\ UNCHANGED <<pending, locked, workVars, rateVars, asked, open, faults>>

\* A batch takes less than a day, and what is pending is popped within one unless
\* the worker has been kept from its queue for that long.
LockExpires(i) ==
    /\ i \in locked \ hand
    /\ IF i \in pending THEN Fault ELSE UNCHANGED faults
    /\ locked' = locked \ {i}
    /\ asked' = [asked EXCEPT ![i] = 0]
    /\ UNCHANGED <<row, pending, workVars, rateVars, open>>

-----------------------------------------------------------------------------
\* The rate limit: INCR, and EXPIRE by the caller whose INCR returned 1.

Permitted(c) == IF c = "metadata" THEN "token" ELSE "wait"

Incr(c) ==
    /\ at[c] = "wait"
    /\ requests' = IF requests > RateMax THEN requests ELSE requests + 1
    /\ at' = [at EXCEPT ![c] = IF requests = 0 THEN "expire"
                               ELSE IF requests < RateMax THEN Permitted(c) ELSE "wait"]
    /\ UNCHANGED <<row, pending, locked, kind, hand, tries, expires, asked, open, faults>>

SetExpiry(c) ==
    /\ at[c] = "expire"
    /\ expires' = TRUE
    /\ at' = [at EXCEPT ![c] = Permitted(c)]
    /\ UNCHANGED <<row, pending, locked, kind, hand, tries, requests, asked, open, faults>>

MinuteEnds ==
    /\ expires
    /\ requests' = 0 /\ expires' = FALSE
    /\ UNCHANGED <<row, pending, locked, workVars, asked, open, faults>>

\* The process that should have set the time to live is gone.
CounterStuck == requests > 0 /\ ~expires /\ \A c \in Callers : at[c] # "expire"

-----------------------------------------------------------------------------
\* The worker's loop: artists, then tracks.

GetToken ==
    /\ At("token")
    /\ Go("pop")
    /\ UNCHANGED <<row, pending, locked, kind, hand, tries, rateVars, asked, open, faults>>

\* No valid user, or a refresh that fails: the loop begins again after a pause.
NoToken ==
    /\ At("token")
    /\ Fault
    /\ Go("wait")
    /\ UNCHANGED <<row, pending, locked, kind, hand, tries, rateVars, asked, open>>

\* The batch is done with: on to the tracks, or round the loop.
NextKind ==
    /\ kind' = IF kind = "artist" THEN "track" ELSE "artist"
    /\ Go(IF kind = "artist" THEN "pop" ELSE "wait")

\* An exception: both batches are given up.
StartOver == kind' = "artist" /\ hand' = {} /\ tries' = 0 /\ Go("wait")

Smaller(m, n) == IF m < n THEN m ELSE n

\* SPOP until the batch is full or the set empty; an id that is added and popped
\* again meanwhile finds its own lock.
Pop ==
    LET set == pending \cap OfKind IN
    /\ At("pop")
    /\ \E batch \in kSubset(Smaller(BatchSize, Cardinality(set)), set) :
        /\ hand' = batch
        /\ pending' = pending \ batch
        /\ IF batch = {} THEN NextKind ELSE Go("lock") /\ UNCHANGED kind
    /\ UNCHANGED <<row, locked, tries, rateVars, asked, open, faults>>

\* Mutant: what is locked is asked for again.
TryLocksAsksAll ==
    /\ At("lock")
    /\ locked' = locked \cup hand
    /\ Go("fetch")
    /\ UNCHANGED <<row, pending, kind, hand, tries, rateVars, asked, open, faults>>

\* SET NX for each id; those that are locked are dropped.
TryLocks ==
    /\ At("lock")
    /\ hand' = hand \ locked
    /\ locked' = locked \cup hand
    /\ Settled(hand \cap locked)
    /\ IF hand \subseteq locked THEN NextKind ELSE Go("fetch") /\ UNCHANGED kind
    /\ UNCHANGED <<row, pending, tries, rateVars, asked, faults>>

\* Redis fails before the batch is known: nobody queues the ids again.
PopOrLockFails ==
    /\ Fault
    /\ \/ /\ At("pop")
          /\ \E some \in SUBSET (pending \cap OfKind) :
              /\ Cardinality(some) <= BatchSize
              /\ pending' = pending \ some
              /\ open' = open \ some
          /\ UNCHANGED locked
       \/ /\ At("lock")
          /\ \E some \in SUBSET hand : locked' = locked \cup some
          /\ Settled(hand)
          /\ UNCHANGED pending
    /\ StartOver
    /\ UNCHANGED <<row, rateVars, asked>>

Asked == [i \in Ids |-> IF i \in hand THEN asked[i] + 1 ELSE asked[i]]

Fetch ==
    /\ At("fetch")
    /\ asked' = Asked
    /\ tries' = 0
    /\ Go("store")
    /\ UNCHANGED <<row, pending, locked, kind, hand, rateVars, open, faults>>

\* The answer is 5xx, and fetchWithRetry makes the same request again.
FetchAgain ==
    /\ At("fetch")
    /\ tries < MaxRetries
    /\ Fault
    /\ asked' = Asked
    /\ tries' = tries + 1
    /\ UNCHANGED <<row, pending, locked, at, kind, hand, rateVars, open>>

Store(rows) ==
    /\ row' = rows
    /\ Settled(hand)
    /\ hand' = {}
    /\ NextKind

\* One transaction; it fails if one of the artists has no row.  Some have no image.
StoreArtists ==
    /\ At("store") /\ kind = "artist"
    /\ IF \A a \in hand : row[a] # "none"
       THEN \E imaged \in SUBSET hand :
                Store([i \in Ids |-> IF i \in imaged THEN "full"
                                     ELSE IF i \in hand THEN "bare" ELSE row[i]])
       ELSE Go("requeue") /\ UNCHANGED <<row, open, hand, kind>>
    /\ UNCHANGED <<pending, locked, tries, rateVars, asked, faults>>

\* The artists of the tracks are queued on the way to the commit that creates them;
\* tracks that Spotify does not know are left as they are.
StoreTracks ==
    /\ At("store") /\ kind = "track"
    /\ \E known \in SUBSET hand : Add(UNION {ArtistsOf[t] : t \in known})
    /\ Go("commit")
    /\ UNCHANGED <<row, locked, kind, hand, tries, rateVars, asked>>

CommitTracks ==
    /\ At("commit")
    /\ \E known \in SUBSET hand :
        LET artists == UNION {ArtistsOf[t] : t \in known}
        IN Store([i \in Ids |-> IF i \in known THEN "full"
                                ELSE IF i \in artists /\ row[i] = "none" THEN "bare" ELSE row[i]])
    /\ UNCHANGED <<pending, locked, tries, rateVars, asked, faults>>

\* Mutant: what has failed is not queued again.
BatchFailsForgets ==
    /\ At("fetch") \/ At("store") \/ At("commit")
    /\ Fault
    /\ StartOver
    /\ UNCHANGED <<row, pending, locked, rateVars, asked, open>>

\* An error of Spotify or of the database; a request that is not sent, because it is
\* refused before, is counted as well.
BatchFails ==
    /\ At("fetch") \/ At("store") \/ At("commit")
    /\ Fault
    /\ Go("requeue")
    /\ asked' = IF At("fetch") THEN Asked ELSE asked
    /\ tries' = 0
    /\ UNCHANGED <<row, pending, locked, kind, hand, rateVars, open>>

\* Mutant: the loop ends with the batch that fails.
RequeueStops(i) ==
    /\ At("requeue") /\ i \in hand
    /\ pending' = pending \cup {i}
    /\ hand' = hand \ {i}
    /\ UNCHANGED <<row, locked, at, kind, tries, rateVars, asked, open, faults>>

\* Their locks stay: a batch that takes them up within the day drops them.
Requeue(i) ==
    /\ At("requeue") /\ i \in hand
    /\ pending' = pending \cup {i}
    /\ IF hand = {i} THEN StartOver ELSE hand' = hand \ {i} /\ UNCHANGED <<at, kind, tries>>
    /\ UNCHANGED <<row, locked, rateVars, asked, open, faults>>

RequeueFails ==
    /\ At("requeue")
    /\ Fault
    /\ Settled(hand)
    /\ StartOver
    /\ UNCHANGED <<row, pending, locked, rateVars, asked>>

\* What the process held is gone; its successor queues the artists without image,
\* unless that fails too.
Restart ==
    /\ Fault
    /\ at' = [c \in Callers |-> "wait"]
    /\ kind' = "artist" /\ hand' = {} /\ tries' = 0
    /\ \E healed \in {{}, Bare \cap Artists} :
        /\ pending' = pending \cup healed
        /\ open' = (open \ (hand \ pending)) \cup healed
    /\ UNCHANGED <<row, locked, rateVars, asked>>

-----------------------------------------------------------------------------
WorkerStep ==
    \/ GetToken \/ Pop \/ TryLocks \/ Fetch \/ StoreArtists \/ StoreTracks \/ CommitTracks
    \/ \E i \in Ids : Requeue(i)
Failure == NoToken \/ FetchAgain \/ PopOrLockFails \/ BatchFails \/ RequeueFails \/ Restart
Queued == \/ \E t \in Tracks : Play(t) \/ Import(t)
          \/ \E a \in Artists : Catalog(a)
Rate == MinuteEnds \/ \E c \in Callers : Incr(c) \/ SetExpiry(c)

Next == \/ WorkerStep \/ Failure \/ Queued \/ Rate
        \/ \E i \in Ids : LockExpires(i)

Spec == Init /\ [][Next]_vars

\* The loop never ends; SPOP picks at random, and the worker polls every second, so
\* that neither an id nor the worker is passed over for ever.
FairSpec ==
    /\ Spec
    /\ WF_vars(WorkerStep) /\ \A i \in Ids : SF_vars(Pop /\ i \in hand') /\ WF_vars(i \notin pending /\ LockExpires(i))
    /\ WF_vars(MinuteEnds) /\ \A c \in Callers : WF_vars(SetExpiry(c))
    /\ SF_vars(Incr("metadata") /\ requests < RateMax)

-----------------------------------------------------------------------------
\* Every variable has its type; the worker holds ids of the kind it is at, and as
\* many as a batch has (metadata-worker.ts:22, 196).
TypeOK ==
    /\ row \in [Ids -> {"none", "bare", "full"}]
    /\ pending \subseteq Ids /\ locked \subseteq Ids
    /\ at \in [Callers -> {"wait", "expire", "token", "pop", "lock", "fetch", "store",
                           "commit", "requeue"}]
    /\ kind \in {"artist", "track"}
    /\ hand \subseteq OfKind /\ Cardinality(hand) <= BatchSize
    /\ requests \in 0 .. RateMax + 1 /\ expires \in BOOLEAN
    /\ asked \in [Ids -> Nat] /\ tries \in 0 .. MaxRetries
    /\ open \subseteq Ids
    /\ faults \in 0 .. MaxFaults

\* README.md:39, "only one worker fetches metadata while others skip the call": of the
\* many times an id is queued in a day, with failures and restarts in between, one call
\* asks Spotify for it.  A request for an id is the first of the day, or repeats the one
\* before it within that call, after an answer 5xx (metadata-worker.ts:29,
\* spotify-api.ts:85).
OneCallADay == [][\A i \in Ids : asked'[i] > asked[i] => asked[i] = tries]_vars

\* An id leaves the sets only with its batch stored, as a repeat within the day, or
\* by a failure of Redis or the process (metadata-worker.ts:29, 53, 234).
NothingForgotten == open \subseteq pending \cup hand

\* Every id that is queued is taken up: an error never ends the loop, and only the
\* request counter can stop it, when a process dies between INCR and EXPIRE
\* (metadata-worker.ts:286, redis.ts:37).
PendingIsTaken ==
    \A i \in Ids : (i \in pending) ~> (i \notin pending \/ CounterStuck)

=============================================================================
