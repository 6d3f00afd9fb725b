------------------------- MODULE ListeningIngestion -------------------------
(***************************************************************************)
(* How the plays of one user reach the database: the sync jobs that page   *)
(* backwards through Spotify's recently-played list and the import of an   *)
(* exported history, over the tables they share.                           *)
(*                                                                         *)
(*   workers/sync-worker.ts    processSync           Start .. Mark         *)
(*   services/ingestion.ts     insertListeningEvents Lookup, Commit        *)
(*   services/aggregation.ts   updateStatsForEvents  Aggregate, ...        *)
(*   services/import.ts        insertImportBatch     Import...             *)
(*   services/basic-import.ts  insertBasicEventBatch Import...             *)
(*                                                                         *)
(* Rows of different users are disjoint, so one user is modelled.  Sync    *)
(* jobs carry no jobId and the queue runs five at a time, so several of    *)
(* them can run for the same user; the import queue runs one job at a      *)
(* time.  Each await on the database or on Spotify ends a step.            *)
(*                                                                         *)
(* Abstractions.  A play is a (track, playedAt) pair, numbered by          *)
(* playedAt.  A row of listening_events is its isEstimated/source pair:    *)
(* the sync job only writes estimated API rows and an import only exact    *)
(* IMPORT rows.  A statistics table (track, artist, time bucket, hour)     *)
(* holds, for each play, how often it has been added: a playCount column   *)
(* is the sum over the plays that fall under its key, and totalMs is that  *)
(* sum weighted by the length the source knew, so the contributions of     *)
(* the two sources are kept apart.  users.totalPlayCount and               *)
(* totalListeningMs are kept per play in the same way.  The catalog rows   *)
(* (albums, artists, tracks), partitions and the token are left out; a     *)
(* failure to obtain any of them is one of the failure actions.            *)
(***************************************************************************)
EXTENDS Integers, FiniteSets

CONSTANTS
  SyncWorker,   \* slots of the sync queue that may hold a job of this user
  StatsTable,   \* the tables updateStatsForEvents increments
  MaxPlay,      \* bound: how many plays the user makes
  PageSize,     \* the limit of one recently-played request (50)
  Retention,    \* how many recent plays Spotify still lists
  MaxPages,     \* MAX_BACKWARD_ITERATIONS (10)
  MaxRepeat,    \* bound: how often one play occurs in one import batch
  MaxFaults     \* bound: how many awaits fail or processes crash

ASSUME ListeningAssumption ==
  /\ IsFiniteSet(SyncWorker)
  /\ MaxPlay \in Nat
  /\ PageSize \in Nat \ {0}
  /\ Retention \in Nat \ {0}
  /\ MaxPages \in Nat \ {0}
  /\ MaxRepeat \in Nat
  /\ MaxFaults \in Nat

(* The pages a job may request cover all that Spotify lists: 10 times 50   *)
(* against a list of 50.                                                   *)
ASSUME PagesCoverList == Retention <= MaxPages * PageSize

Play == 1..MaxPlay

VARIABLES
  \* Spotify
  now,          \* the latest play the user has made
  \* Postgres
  events,       \* listening_events: what is stored of each play
  totals,       \* users.totalPlayCount, per play
  apiStats,     \* statistics tables: what sync jobs added, per play
  importStats,  \* statistics tables: what imports added, per play
  lastIngested, \* users.lastIngestedAt, 0 for null
  \* local variables of each sync job
  pc, since, before, newest, pages, more, batch, added, left,
  \* local variables of the import job
  ipc, icreate, iupdate, ileft,
  \* history of the environment
  lost,         \* plays whose insertion failed and was swallowed
  faults

database   == <<events, totals, apiStats, importStats, lastIngested>>
syncVars   == <<pc, since, before, newest, pages, more, batch, added, left>>
importVars == <<ipc, icreate, iupdate, ileft>>
vars == <<now, database, syncVars, importVars, lost, faults>>

NoCreate == [p \in Play |-> 0]

Init ==
  /\ now = 0
  /\ events = [p \in Play |-> "absent"]
  /\ totals = [p \in Play |-> 0]
  /\ apiStats = [t \in StatsTable |-> [p \in Play |-> 0]]
  /\ importStats = [t \in StatsTable |-> [p \in Play |-> 0]]
  /\ lastIngested = 0
  /\ pc = [w \in SyncWorker |-> "idle"]
  /\ since = [w \in SyncWorker |-> 0]
  /\ before = [w \in SyncWorker |-> 0]
  /\ newest = [w \in SyncWorker |-> 0]
  /\ pages = [w \in SyncWorker |-> 0]
  /\ more = [w \in SyncWorker |-> FALSE]
  /\ batch = [w \in SyncWorker |-> {}]
  /\ added = [w \in SyncWorker |-> {}]
  /\ left = [w \in SyncWorker |-> {}]
  /\ ipc = "idle"
  /\ icreate = NoCreate
  /\ iupdate = {}
  /\ ileft = {}
  /\ lost = {}
  /\ faults = 0

Stored(p) == events[p] # "absent"

-----------------------------------------------------------------------------
(* Spotify's side: the user plays a track, and the recently-played list    *)
(* shows the latest Retention plays, newest first, PageSize at a time.     *)

Listen ==
  /\ now < MaxPlay
  /\ now' = now + 1
  /\ UNCHANGED <<database, syncVars, importVars, lost, faults>>

Larger(a, b)  == IF a > b THEN a ELSE b
Smaller(a, b) == IF a < b THEN a ELSE b

Oldest == Larger(1, now - Retention + 1)
Evicted(p) == p < Oldest

PageTop(cursor)    == Smaller(now, cursor - 1)
PageBottom(cursor) == Larger(Oldest, PageTop(cursor) - PageSize + 1)

-----------------------------------------------------------------------------
(* The sync job.  A job that finds the user in cooldown, or without a      *)
(* token, ends without touching any of this state: that is no step here.   *)

\* Mutant: the play right after lastIngestedAt is skipped.
StartSkipsOne(w) ==
  /\ pc[w] = "idle"
  /\ pc' = [pc EXCEPT ![w] = "page"]
  /\ since' = [since EXCEPT ![w] = lastIngested + 1]
  /\ before' = [before EXCEPT ![w] = MaxPlay + 1]
  /\ UNCHANGED <<now, database, newest, pages, more, batch, added, left,
                 importVars, lost, faults>>

Start(w) ==
  /\ pc[w] = "idle"
  /\ pc' = [pc EXCEPT ![w] = "page"]
  /\ since' = [since EXCEPT ![w] = lastIngested]
  /\ before' = [before EXCEPT ![w] = MaxPlay + 1]
  /\ UNCHANGED <<now, database, newest, pages, more, batch, added, left,
                 importVars, lost, faults>>

(* The job leaves the loop with the plays of add to aggregate; with none,  *)
(* updateStatsForEvents is not called.  The loop's locals are dead: they   *)
(* are reset.                                                              *)
LeaveLoop(w, add) ==
  /\ pc' = [pc EXCEPT ![w] = "stats"]
  /\ left' = [left EXCEPT ![w] = IF add = {} THEN {} ELSE StatsTable]
  /\ since' = [since EXCEPT ![w] = 0]
  /\ before' = [before EXCEPT ![w] = 0]
  /\ pages' = [pages EXCEPT ![w] = 0]
  /\ more' = [more EXCEPT ![w] = FALSE]

(* One recently-played request and the decisions taken on its answer: the  *)
(* first answer fixes newestObservedTime, plays at or below                *)
(* lastSyncTimestamp are dropped, and the job stops after a page that      *)
(* reaches lastSyncTimestamp or is not full.                               *)
FetchPage(w) ==
  LET top    == PageTop(before[w])
      bottom == PageBottom(before[w])
      new    == {p \in bottom..top : p > since[w]}
  IN
  /\ pc[w] = "page"
  /\ \/ /\ top < bottom
        /\ LeaveLoop(w, added[w])
        /\ UNCHANGED <<newest, batch>>
     \/ /\ top >= bottom
        /\ newest' = [newest EXCEPT ![w] = IF pages[w] = 0 THEN top ELSE @]
        /\ IF new = {}
           THEN LeaveLoop(w, added[w]) /\ UNCHANGED batch
           ELSE /\ pc' = [pc EXCEPT ![w] = "lookup"]
                /\ before' = [before EXCEPT ![w] = bottom]
                /\ batch' = [batch EXCEPT ![w] = new]
                /\ more' = [more EXCEPT ![w] = /\ bottom > since[w]
                                               /\ top - bottom + 1 = PageSize]
                /\ UNCHANGED <<since, pages, left>>
  /\ UNCHANGED <<now, database, added, importVars, lost, faults>>

\* Mutant: rows that exist are looked up and not dropped.
LookupKeepsAll(w) ==
  /\ pc[w] = "lookup"
  /\ pc' = [pc EXCEPT ![w] = "commit"]
  /\ UNCHANGED <<now, database, since, before, newest, pages, more, batch, added,
                 left, importVars, lost, faults>>

(* The read of the rows that exist: only plays without one are to be       *)
(* created, and an API play never changes an existing row.                 *)
Lookup(w) ==
  /\ pc[w] = "lookup"
  /\ pc' = [pc EXCEPT ![w] = "commit"]
  /\ batch' = [batch EXCEPT ![w] = {p \in @ : ~Stored(p)}]
  /\ UNCHANGED <<now, database, since, before, newest, pages, more, added,
                 left, importVars, lost, faults>>

(* The bottom of the loop: the next page, or out of the loop.              *)
NextPage(w, add) ==
  /\ batch' = [batch EXCEPT ![w] = {}]
  /\ added' = [added EXCEPT ![w] = add]
  /\ IF more[w] /\ pages[w] + 1 < MaxPages
     THEN /\ pc' = [pc EXCEPT ![w] = "page"]
          /\ pages' = [pages EXCEPT ![w] = @ + 1]
          /\ more' = [more EXCEPT ![w] = FALSE]
          /\ UNCHANGED <<since, before, left>>
     ELSE LeaveLoop(w, add)

\* Mutant: the rows are upserted, so an exact row becomes an estimate again.
CommitOverwrites(w) ==
  /\ pc[w] = "commit"
  /\ events' = [p \in Play |-> IF p \in batch[w] THEN "estimated" ELSE events[p]]
  /\ totals' = [p \in Play |-> IF p \in batch[w] THEN totals[p] + 1 ELSE totals[p]]
  /\ NextPage(w, added[w] \union batch[w])
  /\ UNCHANGED <<now, apiStats, importStats, lastIngested, newest, importVars,
                 lost, faults>>

(* The transaction: createMany skips the rows that appeared since Lookup,  *)
(* but the user's totals grow by all of toCreate, and all of toCreate is   *)
(* reported as added.                                                      *)
Commit(w) ==
  /\ pc[w] = "commit"
  /\ events' = [p \in Play |->
                  IF p \in batch[w] /\ ~Stored(p) THEN "estimated" ELSE events[p]]
  /\ totals' = [p \in Play |->
                  IF p \in batch[w] THEN totals[p] + 1 ELSE totals[p]]
  /\ NextPage(w, added[w] \union batch[w])
  /\ UNCHANGED <<now, apiStats, importStats, lastIngested, newest, importVars,
                 lost, faults>>

Increment(counts, S) == [p \in Play |-> IF p \in S THEN counts[p] + 1 ELSE counts[p]]

(* One of the parallel table updates of updateStatsForEvents.              *)
Aggregate(w, t) ==
  /\ pc[w] = "stats"
  /\ t \in left[w]
  /\ apiStats' = [apiStats EXCEPT ![t] = Increment(@, added[w])]
  /\ left' = [left EXCEPT ![w] = @ \ {t}]
  /\ UNCHANGED <<now, events, totals, importStats, lastIngested, pc, since,
                 before, newest, pages, more, batch, added, importVars, lost,
                 faults>>

\* Mutant: the next attempt still holds what this one added.
EndJobKeepsAdded(w) ==
  /\ pc' = [pc EXCEPT ![w] = "idle"]
  /\ since' = [since EXCEPT ![w] = 0]
  /\ before' = [before EXCEPT ![w] = 0]
  /\ newest' = [newest EXCEPT ![w] = 0]
  /\ pages' = [pages EXCEPT ![w] = 0]
  /\ more' = [more EXCEPT ![w] = FALSE]
  /\ batch' = [batch EXCEPT ![w] = {}]
  /\ left' = [left EXCEPT ![w] = {}]
  /\ UNCHANGED added

(* The locals of a job that has ended, whichever way.                      *)
EndJob(w) ==
  /\ pc' = [pc EXCEPT ![w] = "idle"]
  /\ since' = [since EXCEPT ![w] = 0]
  /\ before' = [before EXCEPT ![w] = 0]
  /\ newest' = [newest EXCEPT ![w] = 0]
  /\ pages' = [pages EXCEPT ![w] = 0]
  /\ more' = [more EXCEPT ![w] = FALSE]
  /\ batch' = [batch EXCEPT ![w] = {}]
  /\ added' = [added EXCEPT ![w] = {}]
  /\ left' = [left EXCEPT ![w] = {}]

\* Mutant: lastIngestedAt becomes the time the job ends.
MarkNow(w) ==
  /\ pc[w] = "stats"
  /\ left[w] = {}
  /\ lastIngested' = now
  /\ EndJob(w)
  /\ UNCHANGED <<now, events, totals, apiStats, importStats, importVars, lost,
                 faults>>

(* lastIngestedAt becomes the newest play the job has seen, if any.        *)
Mark(w) ==
  /\ pc[w] = "stats"
  /\ left[w] = {}
  /\ lastIngested' = IF newest[w] = 0 THEN lastIngested ELSE newest[w]
  /\ EndJob(w)
  /\ UNCHANGED <<now, events, totals, apiStats, importStats, importVars, lost,
                 faults>>

-----------------------------------------------------------------------------
(* Failures of the sync job.                                               *)

Fault == faults < MaxFaults /\ faults' = faults + 1

\* Mutant: the batch that failed is reported as added.
SwallowedInsertErrorAdds(w) ==
  /\ pc[w] \in {"lookup", "commit"}
  /\ Fault
  /\ lost' = lost \union {p \in batch[w] : ~Stored(p)}
  /\ NextPage(w, added[w] \union batch[w])
  /\ UNCHANGED <<now, database, newest, importVars>>

(* An error of the catalog upserts, of the lookup or of the transaction    *)
(* that is not a missing partition is caught in                            *)
(* insertListeningEventsWithIds: nothing of the batch is stored, and the   *)
(* job carries on as if the batch had been empty.                          *)
SwallowedInsertError(w) ==
  /\ pc[w] \in {"lookup", "commit"}
  /\ Fault
  /\ lost' = lost \union {p \in batch[w] : ~Stored(p)}
  /\ NextPage(w, added[w])
  /\ UNCHANGED <<now, database, newest, importVars>>

(* Any other error ends the attempt: Spotify answers with an error, a      *)
(* partition is missing, or the database rejects a statement outside       *)
(* insertListeningEventsWithIds.  BullMQ's retry is a Start.               *)
Abort(w) ==
  /\ pc[w] # "idle"
  /\ Fault
  /\ EndJob(w)
  /\ UNCHANGED <<now, database, importVars, lost>>

(* One of the parallel upserts is rejected, and with it the Promise.all.   *)
(* The statements already sent still execute: any subset of the rows of    *)
(* the remaining tables is written, but not all of them.                   *)
AggregateFails(w) ==
  /\ pc[w] = "stats"
  /\ Fault
  /\ \E rows \in [left[w] -> SUBSET added[w]] :
       /\ \E t \in left[w] : rows[t] # added[w]
       /\ apiStats' = [t \in StatsTable |->
                         IF t \in left[w] THEN Increment(apiStats[t], rows[t])
                                          ELSE apiStats[t]]
  /\ EndJob(w)
  /\ UNCHANGED <<now, events, totals, importStats, lastIngested, importVars,
                 lost>>

-----------------------------------------------------------------------------
(* The import of an exported history, one batch of records at a time.      *)

(* A batch is read from the file and looked up.  reps says how often each  *)
(* play occurs in it: every occurrence without a row is to be created.     *)
(* The extended format corrects estimated rows, the basic one does not.    *)
ImportLookup(reps, corrects) ==
  LET toCreate == [p \in Play |-> IF Stored(p) THEN 0 ELSE reps[p]]
      toUpdate == {p \in Play : corrects /\ reps[p] > 0 /\ events[p] = "estimated"}
  IN
  /\ ipc = "idle"
  /\ \A p \in Play : reps[p] > 0 => p <= now
  /\ toCreate # NoCreate \/ toUpdate # {}
  /\ ipc' = "create"
  /\ icreate' = toCreate
  /\ iupdate' = toUpdate
  /\ ileft' = IF toCreate = NoCreate THEN {} ELSE StatsTable
  /\ UNCHANGED <<now, database, syncVars, lost, faults>>

(* createMany with skipDuplicates.                                         *)
ImportCreate ==
  /\ ipc = "create"
  /\ ipc' = "write"
  /\ events' = [p \in Play |->
                  IF icreate[p] > 0 /\ ~Stored(p) THEN "actual" ELSE events[p]]
  /\ UNCHANGED <<now, totals, apiStats, importStats, lastIngested, syncVars,
                 icreate, iupdate, ileft, lost, faults>>

(* The corrections, one row after the other.                               *)
ImportUpdate(p) ==
  /\ ipc = "write"
  /\ p \in iupdate
  /\ events' = [events EXCEPT ![p] = "actual"]
  /\ iupdate' = iupdate \ {p}
  /\ UNCHANGED <<now, totals, apiStats, importStats, lastIngested, syncVars,
                 ipc, icreate, ileft, lost, faults>>

(* The statistics of the created plays, each counted as often as the batch *)
(* held it.                                                                *)
ImportAggregate(t) ==
  /\ ipc = "write"
  /\ iupdate = {}
  /\ t \in ileft
  /\ importStats' = [importStats EXCEPT ![t] = [p \in Play |-> @[p] + icreate[p]]]
  /\ ileft' = ileft \ {t}
  /\ UNCHANGED <<now, events, totals, apiStats, lastIngested, syncVars, ipc,
                 icreate, iupdate, lost, faults>>

EndImport ==
  /\ ipc' = "idle"
  /\ icreate' = NoCreate
  /\ iupdate' = {}
  /\ ileft' = {}

ImportBatchDone ==
  /\ ipc = "write"
  /\ iupdate = {}
  /\ ileft = {}
  /\ EndImport
  /\ UNCHANGED <<now, database, syncVars, lost, faults>>

(* A statement fails: the import is marked FAILED, and its retry reads the *)
(* file again from the start.                                              *)
ImportAborts ==
  /\ ipc # "idle"
  /\ Fault
  /\ EndImport
  /\ UNCHANGED <<now, database, syncVars, lost>>

(* One of the parallel upserts of an import's statistics is rejected while *)
(* the others execute.                                                     *)
ImportAggregateFails ==
  /\ ipc = "write"
  /\ iupdate = {}
  /\ Fault
  /\ \E rows \in [ileft -> SUBSET {p \in Play : icreate[p] > 0}] :
       /\ \E t \in ileft, p \in Play : icreate[p] > 0 /\ p \notin rows[t]
       /\ importStats' = [t \in StatsTable |->
                            IF t \in ileft
                            THEN [p \in Play |-> IF p \in rows[t]
                                                THEN importStats[t][p] + icreate[p]
                                                ELSE importStats[t][p]]
                            ELSE importStats[t]]
  /\ EndImport
  /\ UNCHANGED <<now, events, totals, apiStats, lastIngested, syncVars, lost>>

(* The process is restarted: every job in it is gone.                      *)
Crash ==
  /\ Fault
  /\ pc' = [w \in SyncWorker |-> "idle"]
  /\ since' = [w \in SyncWorker |-> 0]
  /\ before' = [w \in SyncWorker |-> 0]
  /\ newest' = [w \in SyncWorker |-> 0]
  /\ pages' = [w \in SyncWorker |-> 0]
  /\ more' = [w \in SyncWorker |-> FALSE]
  /\ batch' = [w \in SyncWorker |-> {}]
  /\ added' = [w \in SyncWorker |-> {}]
  /\ left' = [w \in SyncWorker |-> {}]
  /\ EndImport
  /\ UNCHANGED <<now, database, lost>>

-----------------------------------------------------------------------------
SyncStep(w) ==
  \/ Start(w)
  \/ FetchPage(w)
  \/ Lookup(w)
  \/ Commit(w)
  \/ \E t \in StatsTable : Aggregate(w, t)
  \/ Mark(w)

SyncFailure(w) ==
  \/ SwallowedInsertError(w)
  \/ Abort(w)
  \/ AggregateFails(w)

ImportStep ==
  \/ ImportCreate
  \/ \E p \in Play : ImportUpdate(p)
  \/ \E t \in StatsTable : ImportAggregate(t)
  \/ ImportBatchDone

Next ==
  \/ Listen
  \/ \E w \in SyncWorker : SyncStep(w) \/ SyncFailure(w)
  \/ \E reps \in [Play -> 0..MaxRepeat], corrects \in BOOLEAN :
       ImportLookup(reps, corrects)
  \/ ImportStep
  \/ ImportAborts
  \/ ImportAggregateFails
  \/ Crash

Spec == Init /\ [][Next]_vars

-----------------------------------------------------------------------------
(* Properties.                                                             *)

Count == [Play -> Nat]
Mark0 == Play \union {0}    \* a playedAt, or 0 for none

DatabaseType ==
  /\ events \in [Play -> {"absent", "estimated", "actual"}]
  /\ totals \in Count
  /\ apiStats \in [StatsTable -> Count]
  /\ importStats \in [StatsTable -> Count]
  /\ lastIngested \in Mark0

JobType ==
  /\ pc \in [SyncWorker -> {"idle", "page", "lookup", "commit", "stats"}]
  /\ since \in [SyncWorker -> Mark0]
  /\ before \in [SyncWorker -> Mark0 \union {MaxPlay + 1}]
  /\ newest \in [SyncWorker -> Mark0]
  /\ pages \in [SyncWorker -> Nat]
  /\ more \in [SyncWorker -> BOOLEAN]
  /\ batch \in [SyncWorker -> SUBSET Play]
  /\ added \in [SyncWorker -> SUBSET Play]
  /\ left \in [SyncWorker -> SUBSET StatsTable]

ImportType ==
  /\ ipc \in {"idle", "create", "write"}
  /\ icreate \in [Play -> 0..MaxRepeat]
  /\ iupdate \in SUBSET Play
  /\ ileft \in SUBSET StatsTable

EnvironmentType ==
  /\ now \in Mark0
  /\ lost \in SUBSET Play
  /\ faults \in 0..MaxFaults

TypeOK == DatabaseType /\ JobType /\ ImportType /\ EnvironmentType

(* No statistics table ever counts a play the database does not hold, and  *)
(* a correction is only ever sent for a stored row: the statistics are     *)
(* incremented, outside any transaction, only after the rows are written   *)
(* (sync-worker.ts 133-136, import.ts 236-278).                            *)
NoPhantomStats ==
  \A p \in Play :
    (\E t \in StatsTable : apiStats[t][p] + importStats[t][p] > 0) => Stored(p)

(* A row that only a sync job can have written has been counted in the     *)
(* user's totals, whatever failed: both writes are in one transaction      *)
(* (ingestion.ts 268-289).                                                 *)
EstimatesAreCounted ==
  \A p \in Play : events[p] = "estimated" => totals[p] > 0

(* Jobs of sync worker slots that will still add play p to table t.        *)
InFlight(t, p) ==
  {w \in SyncWorker : /\ p \in added[w]
                      /\ pc[w] = "stats" => t \in left[w]}

(* What sync jobs have added to a statistics table, with what they still   *)
(* may add, never exceeds the user's totals: retries and crashes lose      *)
(* increments of the tables but never repeat one (a retry aggregates only  *)
(* what its own transaction added).                                        *)
StatsWithinTotals ==
  \A t \in StatsTable, p \in Play :
    apiStats[t][p] + Cardinality(InFlight(t, p)) <= totals[p]

(* Jobs that looked a play up before it was stored and will count it.      *)
StaleReaders(p) == {w \in SyncWorker : pc[w] = "commit" /\ p \in batch[w]}

(* However sync jobs, imports, crashes and retries interleave, a play is   *)
(* counted in the user's totals at most once for each slot of the sync     *)
(* queue, and by imports at most once for each time one batch repeats it:  *)
(* a job counts a play again only if its lookup came before the first      *)
(* insertion.                                                              *)
OvercountBounded ==
  \A p \in Play :
    /\ totals[p] + Cardinality(StaleReaders(p)) <= Cardinality(SyncWorker)
    /\ \A t \in StatsTable : importStats[t][p] <= MaxRepeat

(* The plays up to lastIngestedAt are settled: each is stored, has left    *)
(* Spotify's list, or was lost to a swallowed insertion error.  A sync     *)
(* started from lastIngestedAt never looks below it again, so a play       *)
(* missing there would stay missing.                                       *)
Settled(p) == Stored(p) \/ Evicted(p) \/ p \in lost

NoGapBelowLastIngested == \A p \in Play : p <= lastIngested => Settled(p)

(* The tables implement the ledger.                                        *)
Ledger == INSTANCE PlayLedger WITH
            ledger    <- events,
            credit    <- totals,
            watermark <- lastIngested,
            givenUp   <- lost \union {p \in Play : Evicted(p)},
            MaxCredit <- Cardinality(SyncWorker)

ImplementsLedger == Ledger!LedgerSpec
=============================================================================
