-------------------------- MODULE ListeningProofs --------------------------
(***************************************************************************)
(* Safety of ListeningIngestion for every number of sync jobs, plays,      *)
(* pages, statistics tables and failures.                                  *)
(***************************************************************************)
EXTENDS ListeningIngestion, FiniteSetTheorems, TLAPS

(* What the steps of one side leave alone.                                 *)
LEMMA SyncFrame ==
  ASSUME NEW w \in SyncWorker, SyncStep(w) \/ SyncFailure(w)
  PROVE  UNCHANGED <<now, importStats, importVars>>
BY DEF SyncStep, SyncFailure, Start, FetchPage, Lookup, Commit, Aggregate, Mark,
       SwallowedInsertError, Abort, AggregateFails, database, importVars

LEMMA ImportFrame ==
  ASSUME \/ \E reps \in [Play -> 0..MaxRepeat], corrects \in BOOLEAN :
              ImportLookup(reps, corrects)
         \/ ImportStep \/ ImportAborts \/ ImportAggregateFails
  PROVE  UNCHANGED <<now, totals, apiStats, lastIngested, syncVars, lost>>
BY DEF ImportStep, ImportLookup, ImportCreate, ImportUpdate, ImportAggregate,
       ImportBatchDone, ImportAborts, ImportAggregateFails, database, syncVars

LEMMA PageBounds ==
  ASSUME TypeOK, NEW w \in SyncWorker
  PROVE  /\ before[w] \in Int /\ now \in Nat
         /\ PageTop(before[w]) \in Int
         /\ PageBottom(before[w]) \in Int
<1>1. /\ before[w] \in Int
      /\ now \in 0..MaxPlay
      /\ PageSize \in Nat /\ Retention \in Nat
  BY ListeningAssumption DEF TypeOK, JobType, EnvironmentType, Mark0, Play
<1>2. QED
  BY <1>1 DEF PageTop, PageBottom, Oldest, Larger, Smaller

LEMMA PageType ==
  ASSUME TypeOK, NEW w \in SyncWorker,
         PageTop(before[w]) >= PageBottom(before[w])
  PROVE  /\ PageTop(before[w]) \in Play
         /\ PageBottom(before[w]) \in Play
         /\ PageBottom(before[w])..PageTop(before[w]) \subseteq Play
<1>1. /\ before[w] \in Int
      /\ now \in 0..MaxPlay
      /\ MaxPlay \in Nat /\ PageSize \in Nat \ {0} /\ Retention \in Nat \ {0}
  BY ListeningAssumption DEF TypeOK, JobType, EnvironmentType, Mark0, Play
<1>2. QED
  BY <1>1 DEF PageTop, PageBottom, Oldest, Larger, Smaller, Play

LEMMA LeaveLoopType ==
  ASSUME JobType, NEW w \in SyncWorker, NEW add, LeaveLoop(w, add)
  PROVE  /\ pc' \in [SyncWorker -> {"idle", "page", "lookup", "commit", "stats"}]
         /\ since' \in [SyncWorker -> Mark0]
         /\ before' \in [SyncWorker -> Mark0 \union {MaxPlay + 1}]
         /\ pages' \in [SyncWorker -> Nat]
         /\ more' \in [SyncWorker -> BOOLEAN]
         /\ left' \in [SyncWorker -> SUBSET StatsTable]
BY DEF JobType, LeaveLoop, Mark0

LEMMA NextPageType ==
  ASSUME JobType, NEW w \in SyncWorker, NEW add \in SUBSET Play,
         NextPage(w, add), UNCHANGED newest
  PROVE  JobType'
<1>1. /\ batch' \in [SyncWorker -> SUBSET Play]
      /\ added' \in [SyncWorker -> SUBSET Play]
      /\ newest' \in [SyncWorker -> Mark0]
  BY DEF JobType, NextPage
<1>2. CASE more[w] /\ pages[w] + 1 < MaxPages
  <2>1. /\ pc' = [pc EXCEPT ![w] = "page"]
        /\ pages' = [pages EXCEPT ![w] = @ + 1]
        /\ more' = [more EXCEPT ![w] = FALSE]
        /\ UNCHANGED <<since, before, left>>
    BY <1>2 DEF NextPage
  <2>2. pages' \in [SyncWorker -> Nat]
    BY <2>1 DEF JobType
  <2>3. QED
    BY <1>1, <2>1, <2>2 DEF JobType
<1>3. CASE ~(more[w] /\ pages[w] + 1 < MaxPages)
  <2>1. LeaveLoop(w, add)
    BY <1>3 DEF NextPage
  <2>2. QED
    BY <1>1, <2>1, LeaveLoopType DEF JobType
<1>4. QED
  BY <1>2, <1>3

LEMMA EndJobType ==
  ASSUME JobType, NEW w \in SyncWorker, EndJob(w)
  PROVE  JobType'
BY DEF JobType, EndJob, Mark0

LEMMA JobTypeStep ==
  ASSUME TypeOK, NEW w \in SyncWorker, SyncStep(w) \/ SyncFailure(w)
  PROVE  JobType'
<1> USE DEF TypeOK
<1>1. CASE Start(w)
  BY <1>1 DEF Start, DatabaseType, JobType
<1>2. CASE FetchPage(w)
  <2> DEFINE top    == PageTop(before[w])
             bottom == PageBottom(before[w])
             new    == {p \in bottom..top : p > since[w]}
  <2>1. CASE top < bottom
    <3>1. LeaveLoop(w, added[w]) /\ UNCHANGED <<newest, batch, added>>
      BY <1>2, <2>1, PageBounds DEF FetchPage
    <3>2. QED
      BY <3>1, LeaveLoopType DEF JobType
  <2>2. CASE top >= bottom
    <3>1. top \in Play /\ bottom \in Play /\ new \in SUBSET Play
      BY <2>2, PageType
    <3>2. /\ newest' = [newest EXCEPT ![w] = IF pages[w] = 0 THEN top ELSE @]
          /\ UNCHANGED added
      BY <1>2, <2>2, PageBounds DEF FetchPage
    <3>3. newest' \in [SyncWorker -> Mark0] /\ added' \in [SyncWorker -> SUBSET Play]
      BY <3>1, <3>2 DEF JobType, Mark0
    <3>4. CASE new = {}
      <4>1. LeaveLoop(w, added[w]) /\ UNCHANGED batch
        BY <1>2, <2>2, <3>4, PageBounds DEF FetchPage
      <4>2. QED
        BY <3>3, <4>1, LeaveLoopType DEF JobType
    <3>5. CASE new # {}
      <4>1. /\ pc' = [pc EXCEPT ![w] = "lookup"]
            /\ before' = [before EXCEPT ![w] = bottom]
            /\ batch' = [batch EXCEPT ![w] = new]
            /\ more' = [more EXCEPT ![w] = /\ bottom > since[w]
                                           /\ top - bottom + 1 = PageSize]
            /\ UNCHANGED <<since, pages, left>>
        BY <1>2, <2>2, <3>5, PageBounds DEF FetchPage
      <4>2. more' \in [SyncWorker -> BOOLEAN]
        BY <4>1 DEF JobType
      <4>3. QED
        BY <3>1, <3>3, <4>1, <4>2 DEF JobType, Mark0
    <3>6. QED
      BY <3>4, <3>5
  <2>3. QED
    BY <2>1, <2>2, PageBounds
<1>3. CASE Lookup(w)
  BY <1>3 DEF Lookup, JobType
<1>4. CASE Commit(w)
  <2>1. added[w] \union batch[w] \in SUBSET Play
    BY DEF JobType
  <2>2. QED
    BY <1>4, <2>1, NextPageType DEF Commit
<1>5. ASSUME NEW t \in StatsTable, Aggregate(w, t) PROVE JobType'
  BY <1>5 DEF Aggregate, JobType
<1>6. CASE Mark(w) \/ Abort(w) \/ AggregateFails(w)
  BY <1>6, EndJobType DEF Mark, Abort, AggregateFails
<1>7. CASE SwallowedInsertError(w)
  <2>1. added[w] \in SUBSET Play
    BY DEF JobType
  <2>2. QED
    BY <1>7, <2>1, NextPageType DEF SwallowedInsertError
<1>8. QED
  BY <1>1, <1>2, <1>3, <1>4, <1>5, <1>6, <1>7 DEF SyncStep, SyncFailure

LEMMA DatabaseTypeStep ==
  ASSUME TypeOK, Next
  PROVE  DatabaseType'
<1> USE DEF TypeOK
<1>1. ASSUME NEW w \in SyncWorker, Commit(w) PROVE DatabaseType'
  BY <1>1 DEF Commit, DatabaseType, Count
<1>2. ASSUME NEW w \in SyncWorker, NEW t \in StatsTable, Aggregate(w, t)
      PROVE  DatabaseType'
  <2>1. Increment(apiStats[t], added[w]) \in Count
    BY DEF DatabaseType, Count, Increment
  <2>2. QED
    BY <1>2, <2>1 DEF Aggregate, DatabaseType
<1>3. ASSUME NEW w \in SyncWorker, Mark(w) PROVE DatabaseType'
  BY <1>3 DEF Mark, DatabaseType, JobType
<1>4. ASSUME NEW w \in SyncWorker, AggregateFails(w) PROVE DatabaseType'
  <2>1. PICK rows \in [left[w] -> SUBSET added[w]] :
          apiStats' = [t \in StatsTable |->
                         IF t \in left[w] THEN Increment(apiStats[t], rows[t])
                                          ELSE apiStats[t]]
    BY <1>4 DEF AggregateFails
  <2>2. \A t \in StatsTable : \A S : Increment(apiStats[t], S) \in Count
    BY DEF DatabaseType, Count, Increment
  <2>3. apiStats' \in [StatsTable -> Count]
    BY <2>1, <2>2 DEF DatabaseType
  <2>4. QED
    BY <1>4, <2>3 DEF AggregateFails, DatabaseType
<1>5. CASE ImportCreate
  BY <1>5 DEF ImportCreate, DatabaseType
<1>6. ASSUME NEW p \in Play, ImportUpdate(p) PROVE DatabaseType'
  BY <1>6 DEF ImportUpdate, DatabaseType
<1>7. ASSUME NEW t \in StatsTable, ImportAggregate(t) PROVE DatabaseType'
  <2>1. [p \in Play |-> importStats[t][p] + icreate[p]] \in Count
    BY DEF DatabaseType, ImportType, Count
  <2>2. QED
    BY <1>7, <2>1 DEF ImportAggregate, DatabaseType
<1>8. CASE ImportAggregateFails
  <2>1. PICK rows \in [ileft -> SUBSET {p \in Play : icreate[p] > 0}] :
          importStats' = [t \in StatsTable |->
                            IF t \in ileft
                            THEN [p \in Play |-> IF p \in rows[t]
                                                THEN importStats[t][p] + icreate[p]
                                                ELSE importStats[t][p]]
                            ELSE importStats[t]]
    BY <1>8 DEF ImportAggregateFails
  <2>2. \A t \in StatsTable :
          [p \in Play |-> IF p \in rows[t] THEN importStats[t][p] + icreate[p]
                                           ELSE importStats[t][p]] \in Count
    BY DEF DatabaseType, ImportType, Count
  <2>3. importStats' \in [StatsTable -> Count]
    BY <2>1, <2>2 DEF DatabaseType
  <2>4. QED
    BY <1>8, <2>3 DEF ImportAggregateFails, DatabaseType
<1>9. ASSUME UNCHANGED database PROVE DatabaseType'
  BY <1>9 DEF database, DatabaseType
<1>10. QED
  BY <1>1, <1>2, <1>3, <1>4, <1>5, <1>6, <1>7, <1>8, <1>9
  DEF Next, SyncStep, SyncFailure, ImportStep, Listen, Start, FetchPage, Lookup,
      SwallowedInsertError, Abort, ImportLookup, ImportBatchDone, ImportAborts,
      Crash

LEMMA EndImportType == ASSUME EndImport PROVE ImportType'
  BY ListeningAssumption DEF EndImport, ImportType, NoCreate

LEMMA ImportTypeStep ==
  ASSUME TypeOK, Next
  PROVE  ImportType'
<1> USE DEF TypeOK
<1>1. ASSUME NEW reps \in [Play -> 0..MaxRepeat], NEW corrects \in BOOLEAN,
             ImportLookup(reps, corrects)
      PROVE  ImportType'
  <2>1. icreate' \in [Play -> 0..MaxRepeat]
    BY <1>1, ListeningAssumption DEF ImportLookup
  <2>2. iupdate' \in SUBSET Play /\ ileft' \in SUBSET StatsTable /\ ipc' = "create"
    BY <1>1 DEF ImportLookup
  <2>3. QED
    BY <2>1, <2>2 DEF ImportType
<1>2. CASE ImportCreate
  BY <1>2 DEF ImportCreate, ImportType
<1>3. ASSUME NEW p \in Play, ImportUpdate(p) PROVE ImportType'
  BY <1>3 DEF ImportUpdate, ImportType
<1>4. ASSUME NEW t \in StatsTable, ImportAggregate(t) PROVE ImportType'
  BY <1>4 DEF ImportAggregate, ImportType
<1>5. CASE ImportBatchDone \/ ImportAborts \/ ImportAggregateFails \/ Crash
  BY <1>5, EndImportType DEF ImportBatchDone, ImportAborts, ImportAggregateFails, Crash
<1>6. ASSUME UNCHANGED importVars PROVE ImportType'
  BY <1>6 DEF importVars, ImportType
<1>7. QED
  BY <1>1, <1>2, <1>3, <1>4, <1>5, <1>6, SyncFrame
  DEF Next, ImportStep, Listen

LEMMA FaultType ==
  ASSUME EnvironmentType, Fault
  PROVE  faults' \in 0..MaxFaults
BY ListeningAssumption DEF Fault, EnvironmentType

LEMMA EnvironmentTypeStep ==
  ASSUME TypeOK, Next
  PROVE  EnvironmentType'
<1> USE DEF TypeOK
<1>1. CASE Listen
  <2>1. now' \in Mark0
    BY <1>1, ListeningAssumption DEF Listen, EnvironmentType, Mark0, Play
  <2>2. QED
    BY <1>1, <2>1 DEF Listen, EnvironmentType
<1>2. ASSUME NEW w \in SyncWorker, SwallowedInsertError(w) PROVE EnvironmentType'
  <2>1. lost' \in SUBSET Play
    BY <1>2 DEF SwallowedInsertError, JobType, EnvironmentType
  <2>2. QED
    BY <1>2, <2>1, FaultType DEF SwallowedInsertError, EnvironmentType
<1>3. ASSUME NEW w \in SyncWorker, Abort(w) \/ AggregateFails(w)
      PROVE  EnvironmentType'
  BY <1>3, FaultType DEF Abort, AggregateFails, EnvironmentType
<1>4. CASE ImportAborts \/ ImportAggregateFails \/ Crash
  BY <1>4, FaultType DEF ImportAborts, ImportAggregateFails, Crash, EnvironmentType
<1>5. ASSUME UNCHANGED <<now, lost, faults>> PROVE EnvironmentType'
  BY <1>5 DEF EnvironmentType
<1>6. QED
  BY <1>1, <1>2, <1>3, <1>4, <1>5
  DEF Next, SyncStep, SyncFailure, ImportStep, Start, FetchPage, Lookup, Commit,
      Aggregate, Mark, ImportLookup, ImportCreate, ImportUpdate,
      ImportAggregate, ImportBatchDone

LEMMA InitType == Init => TypeOK
<1> SUFFICES ASSUME Init PROVE TypeOK
  OBVIOUS
<1>1. 0 \in Mark0 /\ 0 \in 0..MaxRepeat /\ 0 \in 0..MaxFaults
  BY ListeningAssumption DEF Mark0
<1>2. DatabaseType /\ EnvironmentType /\ ImportType
  BY <1>1 DEF Init, DatabaseType, EnvironmentType, ImportType, Count, NoCreate
<1>3. JobType
  BY <1>1 DEF Init, JobType
<1>4. QED
  BY <1>2, <1>3 DEF TypeOK

LEMMA NextType == TypeOK /\ [Next]_vars => TypeOK'
<1> SUFFICES ASSUME TypeOK, [Next]_vars PROVE TypeOK'
  OBVIOUS
<1>1. CASE Next
  <2>1. JobType'
    <3>1. CASE Crash
      <4>1. 0 \in Mark0
        BY DEF Mark0
      <4>2. QED
        BY <3>1, <4>1 DEF Crash, JobType
    <3>2. ASSUME UNCHANGED syncVars PROVE JobType'
      BY <3>2 DEF syncVars, JobType, TypeOK
    <3>3. QED
      BY <1>1, <3>1, <3>2, JobTypeStep, ImportFrame DEF Next, Listen
  <2>2. QED
    BY <1>1, <2>1, DatabaseTypeStep, ImportTypeStep, EnvironmentTypeStep DEF TypeOK
<1>2. CASE UNCHANGED vars
  BY <1>2 DEF vars, database, syncVars, importVars, TypeOK, DatabaseType, JobType,
              ImportType, EnvironmentType
<1>3. QED
  BY <1>1, <1>2

(* Type correctness, for every value of the constants.                     *)
THEOREM TypeCorrect == Spec => []TypeOK
  BY InitType, NextType, PTL DEF Spec

-----------------------------------------------------------------------------
(* What is stored, counted and about to be counted.                        *)

(* A play whose insertion a job has committed, or an import has created or *)
(* is to correct, is stored; whatever was counted is stored; and a row     *)
(* only a sync job can have written was counted.                           *)
LedgerInv ==
  /\ NoPhantomStats
  /\ EstimatesAreCounted
  /\ \A p \in Play : totals[p] > 0 => Stored(p)
  /\ \A w \in SyncWorker : \A p \in added[w] : Stored(p)
  /\ \A p \in Play : ipc = "write" /\ icreate[p] > 0 => Stored(p)
  /\ \A p \in iupdate : Stored(p)

(* Rows are never deleted.                                                 *)
LEMMA StoredStays ==
  ASSUME TypeOK, Next, NEW p \in Play, Stored(p)
  PROVE  Stored(p)'
<1> USE DEF TypeOK, DatabaseType, Stored
<1>1. ASSUME NEW w \in SyncWorker, Commit(w) PROVE Stored(p)'
  BY <1>1 DEF Commit
<1>2. CASE ImportCreate
  BY <1>2 DEF ImportCreate
<1>3. ASSUME NEW q \in Play, ImportUpdate(q) PROVE Stored(p)'
  BY <1>3 DEF ImportUpdate
<1>4. ASSUME UNCHANGED events PROVE Stored(p)'
  BY <1>4
<1>5. QED
  BY <1>1, <1>2, <1>3, <1>4
  DEF Next, SyncStep, SyncFailure, ImportStep, Listen, Start, FetchPage, Lookup,
      Aggregate, Mark, SwallowedInsertError, Abort, AggregateFails,
      ImportLookup, ImportAggregate, ImportBatchDone, ImportAborts,
      ImportAggregateFails, Crash, database

(* What a sync job holds in allAddedEvents after a step of its own.        *)
LEMMA AddedStep ==
  ASSUME TypeOK, NEW w \in SyncWorker, SyncStep(w) \/ SyncFailure(w)
  PROVE  /\ \A v \in SyncWorker : v # w => added'[v] = added[v]
         /\ \/ added'[w] = added[w] \/ added'[w] = {}
            \/ Commit(w) /\ added'[w] = added[w] \union batch[w]
BY DEF TypeOK, JobType, SyncStep, SyncFailure, Start, FetchPage, Lookup, Commit,
       NextPage, Aggregate, Mark, EndJob, SwallowedInsertError, Abort,
       AggregateFails

LEMMA LedgerInvInit == Init => LedgerInv
  BY DEF Init, LedgerInv, NoPhantomStats, EstimatesAreCounted, Stored, NoCreate

LEMMA LedgerInvNext == TypeOK /\ LedgerInv /\ [Next]_vars => LedgerInv'
<1> SUFFICES ASSUME TypeOK, LedgerInv, Next PROVE LedgerInv'
  BY DEF vars, database, syncVars, importVars, LedgerInv, NoPhantomStats,
         EstimatesAreCounted, Stored
<1>1. \A w \in SyncWorker : \A p \in added'[w] : Stored(p)'
  <2>1. ASSUME NEW w \in SyncWorker, SyncStep(w) \/ SyncFailure(w),
               NEW v \in SyncWorker, NEW p \in added'[v]
        PROVE  Stored(p)'
    <3>1. CASE p \in added[v]
      BY <3>1, StoredStays DEF LedgerInv, TypeOK, JobType
    <3>2. CASE Commit(w) /\ p \in batch[w]
      BY <3>2 DEF Commit, Stored, TypeOK, DatabaseType, JobType
    <3>3. QED
      BY <2>1, <3>1, <3>2, AddedStep
  <2>2. ASSUME UNCHANGED added, NEW v \in SyncWorker, NEW p \in added'[v]
        PROVE  Stored(p)'
    BY <2>2, StoredStays DEF LedgerInv, TypeOK, JobType
  <2>3. CASE Crash
    BY <2>3 DEF Crash
  <2>4. QED
    BY <2>1, <2>2, <2>3, ImportFrame DEF Next, Listen, syncVars
<1>2. \A p \in Play : totals'[p] > 0 => Stored(p)'
  <2> SUFFICES ASSUME NEW p \in Play, totals'[p] > 0 PROVE Stored(p)'
    OBVIOUS
  <2>1. CASE totals'[p] = totals[p]
    BY <2>1, StoredStays DEF LedgerInv
  <2>2. ASSUME NEW w \in SyncWorker, Commit(w) PROVE Stored(p)'
    BY <2>2, StoredStays DEF LedgerInv, Commit, TypeOK, DatabaseType, Stored
  <2>3. QED
    BY <2>1, <2>2, ImportFrame
    DEF Next, SyncStep, SyncFailure, Listen, Start, FetchPage, Lookup, Aggregate,
        Mark, SwallowedInsertError, Abort, AggregateFails, Crash, database
<1>3. NoPhantomStats'
  <2> SUFFICES ASSUME NEW p \in Play, NEW t \in StatsTable,
                      apiStats'[t][p] + importStats'[t][p] > 0
               PROVE  Stored(p)'
    BY DEF NoPhantomStats
  <2>0. /\ apiStats[t][p] \in Nat /\ importStats[t][p] \in Nat
        /\ apiStats[t][p] + importStats[t][p] > 0 => Stored(p)
    BY DEF TypeOK, DatabaseType, Count, LedgerInv, NoPhantomStats
  <2>1. CASE UNCHANGED <<apiStats, importStats>>
    BY <2>0, <2>1, StoredStays
  <2>2. ASSUME NEW w \in SyncWorker, NEW s \in StatsTable, Aggregate(w, s)
        PROVE  Stored(p)'
    <3>1. apiStats'[t][p] # apiStats[t][p] => p \in added[w]
      BY <2>2 DEF Aggregate, Increment, TypeOK, DatabaseType
    <3>2. importStats' = importStats
      BY <2>2 DEF Aggregate
    <3>3. QED
      BY <2>0, <3>1, <3>2, StoredStays DEF LedgerInv
  <2>3. ASSUME NEW w \in SyncWorker, AggregateFails(w) PROVE Stored(p)'
    <3>1. PICK rows \in [left[w] -> SUBSET added[w]] :
            apiStats' = [u \in StatsTable |->
                           IF u \in left[w] THEN Increment(apiStats[u], rows[u])
                                            ELSE apiStats[u]]
      BY <2>3 DEF AggregateFails
    <3>2. apiStats'[t][p] # apiStats[t][p] => p \in added[w]
      BY <3>1 DEF Increment, TypeOK, DatabaseType
    <3>3. importStats' = importStats
      BY <2>3 DEF AggregateFails
    <3>4. QED
      BY <2>0, <3>2, <3>3, StoredStays DEF LedgerInv
  <2>4. ASSUME ipc = "write", icreate[p] > 0 PROVE Stored(p)'
    BY <2>4, StoredStays DEF LedgerInv
  <2>5. ASSUME NEW s \in StatsTable, ImportAggregate(s) PROVE Stored(p)'
    <3>1. apiStats' = apiStats /\ ipc = "write" /\ icreate[p] \in 0..MaxRepeat
      BY <2>5 DEF ImportAggregate, TypeOK, ImportType
    <3>2. importStats'[t][p] # importStats[t][p] => icreate[p] > 0
      BY <2>5, <3>1, ListeningAssumption
      DEF ImportAggregate, TypeOK, DatabaseType, Count
    <3>3. QED
      BY <2>0, <2>4, <3>1, <3>2, StoredStays
  <2>6. CASE ImportAggregateFails
    <3>1. apiStats' = apiStats /\ ipc = "write"
      BY <2>6 DEF ImportAggregateFails
    <3>2. PICK rows \in [ileft -> SUBSET {q \in Play : icreate[q] > 0}] :
            importStats' = [u \in StatsTable |->
                              IF u \in ileft
                              THEN [q \in Play |-> IF q \in rows[u]
                                                  THEN importStats[u][q] + icreate[q]
                                                  ELSE importStats[u][q]]
                              ELSE importStats[u]]
      BY <2>6 DEF ImportAggregateFails
    <3>3. importStats'[t][p] # importStats[t][p] => icreate[p] > 0
      BY <3>2 DEF TypeOK, DatabaseType, Count
    <3>4. QED
      BY <2>0, <2>4, <3>1, <3>3, StoredStays
  <2>7. QED
    BY <2>1, <2>2, <2>3, <2>5, <2>6
    DEF Next, SyncStep, SyncFailure, ImportStep, Listen, Start, FetchPage, Lookup,
        Commit, Mark, SwallowedInsertError, Abort, ImportLookup, ImportCreate,
        ImportUpdate, ImportBatchDone, ImportAborts, Crash, database
<1>4. EstimatesAreCounted'
  <2> SUFFICES ASSUME NEW p \in Play, events'[p] = "estimated" PROVE totals'[p] > 0
    BY DEF EstimatesAreCounted
  <2>0. totals[p] \in Nat /\ (events[p] = "estimated" => totals[p] > 0)
    BY DEF TypeOK, DatabaseType, Count, LedgerInv, EstimatesAreCounted
  <2>1. ASSUME NEW w \in SyncWorker, Commit(w) PROVE totals'[p] > 0
    BY <2>0, <2>1 DEF Commit, TypeOK, DatabaseType
  <2>2. CASE ImportCreate
    BY <2>0, <2>2 DEF ImportCreate
  <2>3. ASSUME NEW q \in Play, ImportUpdate(q) PROVE totals'[p] > 0
    BY <2>0, <2>3 DEF ImportUpdate, TypeOK, DatabaseType
  <2>4. ASSUME UNCHANGED <<events, totals>> PROVE totals'[p] > 0
    BY <2>0, <2>4
  <2>5. QED
    BY <2>1, <2>2, <2>3, <2>4
    DEF Next, SyncStep, SyncFailure, ImportStep, Listen, Start, FetchPage, Lookup,
        Aggregate, Mark, SwallowedInsertError, Abort, AggregateFails,
        ImportLookup, ImportAggregate, ImportBatchDone, ImportAborts,
        ImportAggregateFails, Crash, database
<1>5. \A p \in Play : ipc' = "write" /\ icreate'[p] > 0 => Stored(p)'
  <2> SUFFICES ASSUME NEW p \in Play, ipc' = "write", icreate'[p] > 0 PROVE Stored(p)'
    OBVIOUS
  <2>1. CASE ImportCreate
    BY <2>1 DEF ImportCreate, Stored, TypeOK, DatabaseType
  <2>2. ASSUME UNCHANGED <<ipc, icreate>> PROVE Stored(p)'
    BY <2>2, StoredStays DEF LedgerInv
  <2>3. QED
    BY <2>1, <2>2, SyncFrame
    DEF Next, ImportStep, Listen, ImportLookup, ImportUpdate, ImportAggregate,
        ImportBatchDone, ImportAborts, ImportAggregateFails, EndImport, Crash,
        importVars
<1>6. \A p \in iupdate' : Stored(p)'
  <2> SUFFICES ASSUME NEW p \in iupdate' PROVE Stored(p)'
    OBVIOUS
  <2>1. CASE p \in iupdate
    BY <2>1, StoredStays DEF LedgerInv, TypeOK, ImportType
  <2>2. ASSUME NEW reps \in [Play -> 0..MaxRepeat], NEW corrects \in BOOLEAN,
               ImportLookup(reps, corrects)
        PROVE  Stored(p)'
    BY <2>2 DEF ImportLookup, database, Stored
  <2>3. QED
    BY <2>1, <2>2, SyncFrame
    DEF Next, ImportStep, Listen, ImportCreate, ImportUpdate, ImportAggregate,
        ImportBatchDone, ImportAborts, ImportAggregateFails, EndImport, Crash,
        importVars
<1>7. QED
  BY <1>1, <1>2, <1>3, <1>4, <1>5, <1>6 DEF LedgerInv

LEMMA LedgerCorrect == Spec => []LedgerInv
  BY TypeCorrect, LedgerInvInit, LedgerInvNext, PTL DEF Spec

(* No statistics table ever counts a play the database does not hold.      *)
THEOREM NoPhantomStatsCorrect == Spec => []NoPhantomStats
<1>1. LedgerInv => NoPhantomStats
  BY DEF LedgerInv
<1>2. QED
  BY <1>1, LedgerCorrect, PTL

(* Every row written by a sync job has been counted in the user's totals.  *)
THEOREM EstimatesAreCountedCorrect == Spec => []EstimatesAreCounted
<1>1. LedgerInv => EstimatesAreCounted
  BY DEF LedgerInv
<1>2. QED
  BY <1>1, LedgerCorrect, PTL

-----------------------------------------------------------------------------
(* The counts.  No job that has ended holds events to aggregate.           *)
StatsInv ==
  /\ \A w \in SyncWorker : pc[w] = "idle" => added[w] = {}
  /\ StatsWithinTotals

LEMMA InFlightFinite ==
  ASSUME NEW S \in SUBSET SyncWorker
  PROVE  IsFiniteSet(S) /\ Cardinality(S) \in Nat
         /\ Cardinality(S) <= Cardinality(SyncWorker)
         /\ Cardinality(SyncWorker) \in Nat
BY ListeningAssumption, FS_Subset, FS_CardinalityType

LEMMA SmallerCount ==
  ASSUME NEW S \in SUBSET SyncWorker, NEW T \in SUBSET SyncWorker, T \subseteq S
  PROVE  Cardinality(T) <= Cardinality(S)
BY InFlightFinite, FS_Subset

LEMMA OneFewer ==
  ASSUME NEW S \in SUBSET SyncWorker, NEW T \in SUBSET SyncWorker,
         NEW w \in S, T \subseteq S \ {w}
  PROVE  Cardinality(T) + 1 <= Cardinality(S)
<1>1. Cardinality(S \ {w}) = Cardinality(S) - 1
  BY InFlightFinite, FS_RemoveElement
<1>2. Cardinality(T) <= Cardinality(S \ {w})
  BY SmallerCount
<1>3. QED
  BY <1>1, <1>2, InFlightFinite

LEMMA OneMore ==
  ASSUME NEW S \in SUBSET SyncWorker, NEW T \in SUBSET SyncWorker,
         NEW w \in SyncWorker, T \subseteq S \union {w}
  PROVE  Cardinality(T) <= Cardinality(S) + 1
<1>1. Cardinality(S \union {w}) <= Cardinality(S) + 1
  BY InFlightFinite, FS_AddElement
<1>2. S \union {w} \in SUBSET SyncWorker
  OBVIOUS
<1>3. Cardinality(T) <= Cardinality(S \union {w})
  BY <1>2, SmallerCount
<1>4. QED
  BY <1>1, <1>2, <1>3, InFlightFinite

LEMMA StatsInvInit == Init => StatsInv
<1> SUFFICES ASSUME Init PROVE StatsInv
  OBVIOUS
<1>1. ASSUME NEW t \in StatsTable, NEW p \in Play
      PROVE  apiStats[t][p] + Cardinality(InFlight(t, p)) <= totals[p]
  <2>1. InFlight(t, p) = {}
    BY DEF Init, InFlight
  <2>2. QED
    BY <2>1, FS_EmptySet DEF Init
<1>2. QED
  BY <1>1 DEF Init, StatsInv, StatsWithinTotals

(* A job that ends, or goes from one phase to the next without committing  *)
(* or aggregating, comes to hold nothing more for any table.               *)
LEMMA InFlightShrinks ==
  ASSUME TypeOK, StatsInv, NEW w \in SyncWorker,
         \/ Start(w) \/ FetchPage(w) \/ Lookup(w) \/ Mark(w)
         \/ SwallowedInsertError(w) \/ Abort(w),
         NEW t \in StatsTable, NEW p \in Play
  PROVE  InFlight(t, p)' \subseteq InFlight(t, p)
<1> SUFFICES ASSUME NEW v \in SyncWorker, v \in InFlight(t, p)'
             PROVE  v \in InFlight(t, p)
  BY DEF InFlight
<1>1. p \in added'[v] /\ (pc'[v] = "stats" => t \in left'[v])
  BY DEF InFlight
<1>2. CASE v # w
  <2>1. added'[v] = added[v] /\ pc'[v] = pc[v] /\ left'[v] = left[v]
    BY <1>2 DEF Start, FetchPage, LeaveLoop, Lookup, Mark, EndJob,
                SwallowedInsertError, NextPage, Abort, TypeOK, JobType
  <2>2. QED
    BY <1>1, <2>1 DEF InFlight
<1>3. CASE v = w
  <2>1. CASE Start(w)
    BY <1>1, <1>3, <2>1 DEF Start, StatsInv
  <2>2. CASE FetchPage(w) \/ Lookup(w) \/ SwallowedInsertError(w)
    BY <1>1, <1>3, <2>2
    DEF FetchPage, LeaveLoop, Lookup, SwallowedInsertError, NextPage, InFlight,
        TypeOK, JobType
  <2>3. CASE Mark(w) \/ Abort(w)
    BY <1>1, <1>3, <2>3 DEF Mark, Abort, EndJob, TypeOK, JobType
  <2>4. QED
    BY <2>1, <2>2, <2>3
<1>4. QED
  BY <1>2, <1>3

LEMMA StatsInvNext == TypeOK /\ StatsInv /\ [Next]_vars => StatsInv'
<1> SUFFICES ASSUME TypeOK, StatsInv, Next PROVE StatsInv'
  BY DEF vars, database, syncVars, StatsInv, StatsWithinTotals, InFlight
<1>1. \A w \in SyncWorker : pc'[w] = "idle" => added'[w] = {}
  <2>1. ASSUME NEW w \in SyncWorker, SyncStep(w) \/ SyncFailure(w),
               NEW v \in SyncWorker
        PROVE  pc'[v] = "idle" => added'[v] = {}
    BY <2>1 DEF StatsInv, TypeOK, JobType, SyncStep, SyncFailure, Start, FetchPage,
                LeaveLoop, Lookup, Commit, NextPage, Aggregate, Mark, EndJob,
                SwallowedInsertError, Abort, AggregateFails
  <2>2. ASSUME UNCHANGED syncVars, NEW v \in SyncWorker
        PROVE  pc'[v] = "idle" => added'[v] = {}
    BY <2>2 DEF StatsInv, syncVars
  <2>3. CASE Crash
    BY <2>3 DEF Crash
  <2>4. QED
    BY <2>1, <2>2, <2>3, ImportFrame DEF Next, Listen
<1>2. ASSUME NEW t \in StatsTable, NEW p \in Play
      PROVE  apiStats'[t][p] + Cardinality(InFlight(t, p)') <= totals'[p]
  <2>0. /\ apiStats[t][p] \in Nat /\ totals[p] \in Nat
        /\ apiStats[t][p] + Cardinality(InFlight(t, p)) <= totals[p]
        /\ InFlight(t, p) \in SUBSET SyncWorker
        /\ InFlight(t, p)' \in SUBSET SyncWorker
        /\ Cardinality(InFlight(t, p)) \in Nat
        /\ Cardinality(InFlight(t, p)') \in Nat
    BY InFlightFinite
    DEF TypeOK, DatabaseType, Count, StatsInv, StatsWithinTotals, InFlight
  <2>1. ASSUME UNCHANGED <<apiStats, totals>>,
               InFlight(t, p)' \subseteq InFlight(t, p)
        PROVE  apiStats'[t][p] + Cardinality(InFlight(t, p)') <= totals'[p]
    BY <2>0, <2>1, SmallerCount
  <2>2. ASSUME NEW w \in SyncWorker,
               \/ Start(w) \/ FetchPage(w) \/ Lookup(w) \/ Mark(w)
               \/ SwallowedInsertError(w) \/ Abort(w)
        PROVE  apiStats'[t][p] + Cardinality(InFlight(t, p)') <= totals'[p]
    <3>1. UNCHANGED <<apiStats, totals>>
      BY <2>2 DEF Start, FetchPage, Lookup, Mark, SwallowedInsertError, Abort, database
    <3>2. QED
      BY <2>1, <2>2, <3>1, InFlightShrinks
  <2>3. ASSUME NEW w \in SyncWorker, Commit(w)
        PROVE  apiStats'[t][p] + Cardinality(InFlight(t, p)') <= totals'[p]
    <3>1. apiStats' = apiStats
          /\ totals'[p] = IF p \in batch[w] THEN totals[p] + 1 ELSE totals[p]
      BY <2>3 DEF Commit
    <3>2. /\ added' = [added EXCEPT ![w] = added[w] \union batch[w]]
          /\ \A v \in SyncWorker : v # w => pc'[v] = pc[v] /\ left'[v] = left[v]
          /\ pc[w] = "commit"
      BY <2>3 DEF Commit, NextPage, LeaveLoop, TypeOK, JobType
    <3>3. CASE p \in batch[w]
      <4>1. InFlight(t, p)' \subseteq InFlight(t, p) \union {w}
        BY <3>2 DEF InFlight, TypeOK, JobType
      <4>2. QED
        BY <2>0, <3>1, <3>3, <4>1, OneMore
    <3>4. CASE p \notin batch[w]
      <4>1. InFlight(t, p)' \subseteq InFlight(t, p)
        BY <3>2, <3>4 DEF InFlight, TypeOK, JobType
      <4>2. QED
        BY <2>0, <3>1, <3>4, <4>1, SmallerCount
    <3>5. QED
      BY <3>3, <3>4
  <2>4. ASSUME NEW w \in SyncWorker, NEW S \in SUBSET added[w], pc[w] = "stats",
               t \in left[w] \/ S = {},
               InFlight(t, p)' \subseteq IF p \in S THEN InFlight(t, p) \ {w}
                                                   ELSE InFlight(t, p),
               apiStats'[t][p] = IF p \in S THEN apiStats[t][p] + 1
                                            ELSE apiStats[t][p],
               totals' = totals
        PROVE  apiStats'[t][p] + Cardinality(InFlight(t, p)') <= totals'[p]
    <3>1. CASE p \in S
      <4>1. w \in InFlight(t, p)
        BY <2>4, <3>1 DEF InFlight
      <4>2. QED
        BY <2>0, <2>4, <3>1, <4>1, OneFewer
    <3>2. CASE p \notin S
      BY <2>0, <2>4, <3>2, SmallerCount
    <3>3. QED
      BY <3>1, <3>2
  <2>5. ASSUME NEW w \in SyncWorker, NEW s \in StatsTable, Aggregate(w, s)
        PROVE  apiStats'[t][p] + Cardinality(InFlight(t, p)') <= totals'[p]
    <3>1. /\ pc[w] = "stats" /\ s \in left[w] /\ totals' = totals
          /\ apiStats' = [apiStats EXCEPT ![s] = Increment(@, added[w])]
          /\ left' = [left EXCEPT ![w] = @ \ {s}]
          /\ UNCHANGED <<pc, added>>
      BY <2>5 DEF Aggregate
    <3>2. CASE s = t
      <4>1. apiStats'[t][p] = IF p \in added[w] THEN apiStats[t][p] + 1
                                                ELSE apiStats[t][p]
        BY <3>1, <3>2 DEF Increment, TypeOK, DatabaseType
      <4>2. InFlight(t, p)' \subseteq IF p \in added[w] THEN InFlight(t, p) \ {w}
                                                       ELSE InFlight(t, p)
        BY <3>1, <3>2 DEF InFlight, TypeOK, JobType
      <4>3. QED
        BY <2>4, <3>1, <3>2, <4>1, <4>2
    <3>3. CASE s # t
      <4>1. apiStats'[t] = apiStats[t]
        BY <3>1, <3>3 DEF TypeOK, DatabaseType
      <4>2. InFlight(t, p)' \subseteq InFlight(t, p)
        BY <3>1, <3>3 DEF InFlight, TypeOK, JobType
      <4>3. QED
        BY <2>0, <3>1, <4>1, <4>2, SmallerCount
    <3>4. QED
      BY <3>2, <3>3
  <2>6. ASSUME NEW w \in SyncWorker, AggregateFails(w)
        PROVE  apiStats'[t][p] + Cardinality(InFlight(t, p)') <= totals'[p]
    <3>1. PICK rows \in [left[w] -> SUBSET added[w]] :
            apiStats' = [u \in StatsTable |->
                           IF u \in left[w] THEN Increment(apiStats[u], rows[u])
                                            ELSE apiStats[u]]
      BY <2>6 DEF AggregateFails
    <3>2. pc[w] = "stats" /\ totals' = totals /\ EndJob(w)
      BY <2>6 DEF AggregateFails
    <3>3. InFlight(t, p)' \subseteq InFlight(t, p) \ {w}
      BY <3>2 DEF EndJob, InFlight, TypeOK, JobType
    <3>4. CASE t \in left[w]
      <4>1. apiStats'[t][p] = IF p \in rows[t] THEN apiStats[t][p] + 1
                                               ELSE apiStats[t][p]
        BY <3>1, <3>4 DEF Increment
      <4>2. rows[t] \in SUBSET added[w]
        BY <3>1, <3>4
      <4>3. QED
        BY <2>4, <3>2, <3>3, <3>4, <4>1, <4>2
    <3>5. CASE t \notin left[w]
      <4>1. apiStats'[t][p] = apiStats[t][p]
        BY <3>1, <3>5
      <4>2. QED
        BY <2>0, <3>2, <3>3, <4>1, SmallerCount
    <3>6. QED
      BY <3>4, <3>5
  <2>7. CASE Crash
    <3>1. InFlight(t, p)' = {} /\ UNCHANGED <<apiStats, totals>>
      BY <2>7 DEF Crash, InFlight, database
    <3>2. QED
      BY <2>1, <3>1
  <2>8. ASSUME UNCHANGED <<apiStats, totals, syncVars>>
        PROVE  apiStats'[t][p] + Cardinality(InFlight(t, p)') <= totals'[p]
    BY <2>0, <2>8 DEF InFlight, syncVars
  <2>9. QED
    BY <2>2, <2>3, <2>5, <2>6, <2>7, <2>8, ImportFrame
    DEF Next, SyncStep, SyncFailure, Listen, database
<1>3. QED
  BY <1>1, <1>2 DEF StatsInv, StatsWithinTotals

(* Failures, crashes and retries never make a statistics table count more  *)
(* of a play than the user's totals do.                                    *)
THEOREM StatsWithinTotalsCorrect == Spec => []StatsWithinTotals
<1>1. StatsInv => StatsWithinTotals
  BY DEF StatsInv
<1>2. Spec => []StatsInv
  BY TypeCorrect, StatsInvInit, StatsInvNext, PTL DEF Spec
<1>3. QED
  BY <1>1, <1>2, PTL

-----------------------------------------------------------------------------
(* How often a play can be counted.                                        *)

OvercountInv ==
  /\ OvercountBounded
  /\ \A t \in ileft, p \in Play : icreate[p] > 0 => importStats[t][p] = 0

LEMMA OvercountInvInit == Init => OvercountInv
<1> SUFFICES ASSUME Init PROVE OvercountInv
  OBVIOUS
<1>1. ASSUME NEW p \in Play
      PROVE  totals[p] + Cardinality(StaleReaders(p)) <= Cardinality(SyncWorker)
  <2>1. StaleReaders(p) = {}
    BY DEF Init, StaleReaders
  <2>2. QED
    BY <2>1, FS_EmptySet, InFlightFinite DEF Init
<1>2. QED
  BY <1>1, ListeningAssumption DEF Init, OvercountInv, OvercountBounded

LEMMA ReadersNext ==
  ASSUME TypeOK, LedgerInv, OvercountBounded, Next, NEW p \in Play
  PROVE  totals'[p] + Cardinality(StaleReaders(p)') <= Cardinality(SyncWorker)
<1>0. /\ totals[p] \in Nat
      /\ totals[p] + Cardinality(StaleReaders(p)) <= Cardinality(SyncWorker)
      /\ StaleReaders(p) \in SUBSET SyncWorker
      /\ StaleReaders(p)' \in SUBSET SyncWorker
      /\ Cardinality(StaleReaders(p)) \in Nat
      /\ Cardinality(StaleReaders(p)') \in Nat
      /\ Cardinality(StaleReaders(p)') <= Cardinality(SyncWorker)
      /\ Cardinality(SyncWorker) \in Nat
  BY InFlightFinite DEF TypeOK, DatabaseType, Count, OvercountBounded, StaleReaders
<1>1. ASSUME totals' = totals, StaleReaders(p)' \subseteq StaleReaders(p)
      PROVE  totals'[p] + Cardinality(StaleReaders(p)') <= Cardinality(SyncWorker)
  BY <1>0, <1>1, SmallerCount
<1>2. ASSUME NEW w \in SyncWorker, Lookup(w)
      PROVE  totals'[p] + Cardinality(StaleReaders(p)') <= Cardinality(SyncWorker)
  <2>1. totals' = totals
    BY <1>2 DEF Lookup, database
  <2>2. CASE Stored(p)
    <3>1. StaleReaders(p)' \subseteq StaleReaders(p)
      BY <1>2, <2>2 DEF Lookup, StaleReaders, TypeOK, JobType
    <3>2. QED
      BY <1>1, <2>1, <3>1
  <2>3. CASE ~Stored(p)
    BY <1>0, <2>1, <2>3 DEF LedgerInv
  <2>4. QED
    BY <2>2, <2>3
<1>3. ASSUME NEW w \in SyncWorker, Commit(w)
      PROVE  totals'[p] + Cardinality(StaleReaders(p)') <= Cardinality(SyncWorker)
  <2>1. totals'[p] = IF p \in batch[w] THEN totals[p] + 1 ELSE totals[p]
    BY <1>3 DEF Commit
  <2>2. StaleReaders(p)' \subseteq StaleReaders(p) \ {w}
    BY <1>3 DEF Commit, NextPage, LeaveLoop, StaleReaders, TypeOK, JobType
  <2>3. p \in batch[w] => w \in StaleReaders(p)
    BY <1>3 DEF Commit, StaleReaders
  <2>4. QED
    BY <1>0, <2>1, <2>2, <2>3, OneFewer, SmallerCount
<1>4. ASSUME NEW w \in SyncWorker,
             \/ Start(w) \/ FetchPage(w) \/ (\E t \in StatsTable : Aggregate(w, t))
             \/ Mark(w) \/ SwallowedInsertError(w) \/ Abort(w) \/ AggregateFails(w)
      PROVE  totals'[p] + Cardinality(StaleReaders(p)') <= Cardinality(SyncWorker)
  <2>1. totals' = totals
    BY <1>4 DEF Start, FetchPage, Aggregate, Mark, SwallowedInsertError, Abort,
                AggregateFails, database
  <2>2. \A v \in SyncWorker : pc'[v] = "commit" => pc[v] = "commit" /\ batch'[v] = batch[v]
    BY <1>4 DEF Start, FetchPage, LeaveLoop, Aggregate, Mark, EndJob,
                SwallowedInsertError, NextPage, Abort, AggregateFails, TypeOK, JobType
  <2>3. QED
    BY <1>1, <2>1, <2>2 DEF StaleReaders
<1>5. CASE Crash
  BY <1>1, <1>5 DEF Crash, StaleReaders, database
<1>6. ASSUME UNCHANGED <<totals, syncVars>>
      PROVE  totals'[p] + Cardinality(StaleReaders(p)') <= Cardinality(SyncWorker)
  BY <1>1, <1>6 DEF StaleReaders, syncVars
<1>7. QED
  BY <1>2, <1>3, <1>4, <1>5, <1>6, ImportFrame
  DEF Next, SyncStep, SyncFailure, Listen, database

(* The import worker is the only writer of its counts, and it counts a     *)
(* play only when it found no row for it, hence no count.                  *)
LEMMA ImportCountsNext ==
  ASSUME TypeOK, LedgerInv, OvercountInv, Next, NEW t \in StatsTable, NEW p \in Play
  PROVE  /\ importStats'[t][p] <= MaxRepeat
         /\ t \in ileft' /\ icreate'[p] > 0 => importStats'[t][p] = 0
<1>0. /\ importStats[t][p] \in Nat /\ importStats[t][p] <= MaxRepeat
      /\ t \in ileft /\ icreate[p] > 0 => importStats[t][p] = 0
      /\ icreate[p] \in 0..MaxRepeat /\ MaxRepeat \in Nat
  BY ListeningAssumption
  DEF TypeOK, DatabaseType, ImportType, Count, OvercountInv, OvercountBounded
<1>1. ASSUME UNCHANGED <<importStats, icreate, ileft>>
      PROVE  /\ importStats'[t][p] <= MaxRepeat
             /\ t \in ileft' /\ icreate'[p] > 0 => importStats'[t][p] = 0
  BY <1>0, <1>1
<1>2. ASSUME NEW reps \in [Play -> 0..MaxRepeat], NEW corrects \in BOOLEAN,
             ImportLookup(reps, corrects)
      PROVE  /\ importStats'[t][p] <= MaxRepeat
             /\ t \in ileft' /\ icreate'[p] > 0 => importStats'[t][p] = 0
  <2>1. importStats' = importStats
    BY <1>2 DEF ImportLookup, database
  <2>2. icreate'[p] > 0 => ~Stored(p)
    BY <1>2 DEF ImportLookup
  <2>3. ~Stored(p) => importStats[t][p] = 0
    <3>1. apiStats[t][p] \in Nat
      BY DEF TypeOK, DatabaseType, Count
    <3>2. QED
      BY <1>0, <3>1 DEF LedgerInv, NoPhantomStats
  <2>4. QED
    BY <1>0, <2>1, <2>2, <2>3
<1>3. ASSUME NEW s \in StatsTable, ImportAggregate(s)
      PROVE  /\ importStats'[t][p] <= MaxRepeat
             /\ t \in ileft' /\ icreate'[p] > 0 => importStats'[t][p] = 0
  <2>1. icreate' = icreate /\ ileft' = ileft \ {s} /\ s \in ileft
    BY <1>3 DEF ImportAggregate
  <2>2. importStats'[t][p] = IF s = t THEN importStats[t][p] + icreate[p]
                                      ELSE importStats[t][p]
    BY <1>3 DEF ImportAggregate, TypeOK, DatabaseType
  <2>3. QED
    BY <1>0, <2>1, <2>2
<1>4. CASE ImportAggregateFails
  <2>1. PICK rows \in [ileft -> SUBSET {q \in Play : icreate[q] > 0}] :
          importStats' = [u \in StatsTable |->
                            IF u \in ileft
                            THEN [q \in Play |-> IF q \in rows[u]
                                                THEN importStats[u][q] + icreate[q]
                                                ELSE importStats[u][q]]
                            ELSE importStats[u]]
    BY <1>4 DEF ImportAggregateFails
  <2>2. ileft' = {}
    BY <1>4 DEF ImportAggregateFails, EndImport
  <2>3. importStats'[t][p] = IF t \in ileft /\ p \in rows[t]
                             THEN importStats[t][p] + icreate[p]
                             ELSE importStats[t][p]
    BY <2>1
  <2>4. t \in ileft /\ p \in rows[t] => icreate[p] > 0
    BY <2>1
  <2>5. QED
    BY <1>0, <2>2, <2>3, <2>4
<1>5. ASSUME importStats' = importStats, ileft' = {}
      PROVE  /\ importStats'[t][p] <= MaxRepeat
             /\ t \in ileft' /\ icreate'[p] > 0 => importStats'[t][p] = 0
  BY <1>0, <1>5
<1>6. QED
  BY <1>1, <1>2, <1>3, <1>4, <1>5, SyncFrame
  DEF Next, ImportStep, Listen, ImportCreate, ImportUpdate, ImportBatchDone,
      ImportAborts, Crash, EndImport, importVars, database

LEMMA OvercountInvNext == TypeOK /\ LedgerInv /\ OvercountInv /\ [Next]_vars => OvercountInv'
<1> SUFFICES ASSUME TypeOK, LedgerInv, OvercountInv, Next PROVE OvercountInv'
  BY DEF vars, database, syncVars, importVars, OvercountInv, OvercountBounded, StaleReaders
<1>1. ileft' \in SUBSET StatsTable
  BY ImportTypeStep DEF ImportType
<1>2. OvercountBounded
  BY DEF OvercountInv
<1>3. QED
  BY <1>1, <1>2, ReadersNext, ImportCountsNext DEF OvercountInv, OvercountBounded

(* A play is counted in the user's totals at most once for each slot of    *)
(* the sync queue, and in a statistics table by imports at most as often   *)
(* as one batch repeats it.                                                *)
THEOREM OvercountBoundedCorrect == Spec => []OvercountBounded
<1>1. OvercountInv => OvercountBounded
  BY DEF OvercountInv
<1>2. Spec => []OvercountInv
  BY TypeCorrect, LedgerCorrect, OvercountInvInit, OvercountInvNext, PTL DEF Spec
<1>3. QED
  BY <1>1, <1>2, PTL

-----------------------------------------------------------------------------
(* No gap below lastIngestedAt.                                            *)

(* What a job in the loop has settled: all that is at or below its         *)
(* lastSyncTimestamp, and all that lies between its cursor and the newest  *)
(* play it saw, except for the plays it is about to insert.  Its pages     *)
(* abut, and when it stops nothing unsettled is left below the cursor.     *)
PageInv(w) ==
  /\ pages[w] < MaxPages
  /\ \A p \in Play : p <= since[w] => Settled(p)
  /\ \A p \in Play : before[w] <= p /\ p <= newest[w] =>
       Settled(p) \/ (pc[w] # "page" /\ p \in batch[w])
  /\ pc[w] = "page" /\ pages[w] = 0 => before[w] = MaxPlay + 1 /\ newest[w] = 0
  /\ pc[w] # "page" \/ pages[w] # 0 =>
       before[w] \in Play /\ before[w] <= newest[w] /\ newest[w] <= now
  /\ pc[w] = "page" /\ pages[w] # 0 =>
       newest[w] - before[w] + 1 = pages[w] * PageSize
  /\ pc[w] # "page" =>
       IF more[w] THEN newest[w] - before[w] + 1 = (pages[w] + 1) * PageSize
                  ELSE \A p \in Play : p < before[w] => Settled(p)

JobSettles(w) ==
  /\ pc[w] = "idle" => pages[w] = 0 /\ newest[w] = 0
  /\ pc[w] \in {"page", "lookup", "commit"} => PageInv(w)
  /\ pc[w] = "stats" => \A p \in Play : p <= newest[w] => Settled(p)

GapInv == NoGapBelowLastIngested /\ \A w \in SyncWorker : JobSettles(w)

LEMMA NumberTypes ==
  ASSUME TypeOK
  PROVE  /\ now \in Nat /\ now <= MaxPlay /\ lastIngested \in Nat
         /\ \A p \in Play : p \in Nat /\ 1 <= p /\ p <= MaxPlay
         /\ \A w \in SyncWorker : since[w] \in Nat /\ before[w] \in Nat
                                  /\ newest[w] \in Nat /\ pages[w] \in Nat
         /\ MaxPlay \in Nat /\ PageSize \in Nat /\ PageSize > 0
         /\ Retention \in Nat /\ Retention > 0 /\ MaxPages \in Nat
         /\ MaxPages > 0 /\ Oldest \in Nat
<1>1. /\ MaxPlay \in Nat /\ PageSize \in Nat /\ PageSize > 0
      /\ Retention \in Nat /\ Retention > 0 /\ MaxPages \in Nat /\ MaxPages > 0
  BY ListeningAssumption
<1>2. Mark0 \subseteq Nat /\ (\A n \in Mark0 : n <= MaxPlay) /\ MaxPlay + 1 \in Nat
  BY <1>1 DEF Mark0, Play
<1>3. now \in Mark0 /\ lastIngested \in Mark0
  BY DEF TypeOK, EnvironmentType, DatabaseType
<1>4. ASSUME NEW w \in SyncWorker
      PROVE  /\ since[w] \in Nat /\ before[w] \in Nat
             /\ newest[w] \in Nat /\ pages[w] \in Nat
  BY <1>2 DEF TypeOK, JobType
<1>5. \A p \in Play : p \in Nat /\ 1 <= p /\ p <= MaxPlay
  BY <1>1 DEF Play
<1>6. Oldest \in Nat
  BY <1>1, <1>2, <1>3 DEF Oldest, Larger
<1>7. QED
  BY <1>1, <1>2, <1>3, <1>4, <1>5, <1>6

(* Only Listen and FetchPage look at the list, and only Listen grows it;   *)
(* a play that was lost stays so.                                          *)
LEMMA NowGrows ==
  ASSUME Next
  PROVE  (now' = now \/ now' = now + 1) /\ lost \subseteq lost'
<1>1. CASE Listen
  BY <1>1 DEF Listen
<1>2. ASSUME NEW w \in SyncWorker, SyncStep(w) \/ SyncFailure(w)
      PROVE  now' = now /\ lost \subseteq lost'
  BY <1>2 DEF SyncStep, SyncFailure, Start, FetchPage, Lookup, Commit, Aggregate,
              Mark, SwallowedInsertError, Abort, AggregateFails
<1>3. ASSUME NEW reps, NEW corrects, ImportLookup(reps, corrects)
      PROVE  now' = now /\ lost \subseteq lost'
  BY <1>3 DEF ImportLookup
<1>4. CASE ImportStep \/ ImportAborts \/ ImportAggregateFails \/ Crash
  BY <1>4 DEF ImportStep, ImportCreate, ImportUpdate, ImportAggregate,
              ImportBatchDone, ImportAborts, ImportAggregateFails, Crash
<1>5. QED
  BY <1>1, <1>2, <1>3, <1>4 DEF Next

(* What is settled stays settled.                                          *)
LEMMA SettledStays ==
  ASSUME TypeOK, TypeOK', Next, NEW p \in Play, Settled(p)
  PROVE  Settled(p)'
<1>1. CASE Stored(p)
  BY <1>1, StoredStays DEF Settled
<1>2. CASE Evicted(p)
  <2>0. now \in Nat /\ Retention \in Nat /\ (now' = now \/ now' = now + 1)
    BY NowGrows, NumberTypes
  <2>1. Oldest' >= Oldest
    BY <2>0 DEF Oldest, Larger
  <2>2. Oldest \in Nat /\ Oldest' \in Nat /\ p \in Nat
    BY <2>0, NumberTypes DEF Oldest, Larger
  <2>3. QED
    BY <1>2, <2>1, <2>2 DEF Settled, Evicted
<1>3. CASE p \in lost
  BY <1>3, NowGrows DEF Settled
<1>4. QED
  BY <1>1, <1>2, <1>3 DEF Settled

(* A job whose locals a step leaves alone keeps what it has settled.       *)
LEMMA JobFrame ==
  ASSUME TypeOK, TypeOK', Next, NEW v \in SyncWorker, JobSettles(v),
         pc'[v] = pc[v], since'[v] = since[v], before'[v] = before[v],
         newest'[v] = newest[v], pages'[v] = pages[v], more'[v] = more[v],
         batch'[v] = batch[v]
  PROVE  JobSettles(v)'
<1>1. \A p \in Play : Settled(p) => Settled(p)'
  BY SettledStays
<1>2. newest[v] <= now => newest[v] <= now'
  BY NowGrows, NumberTypes
<1>3. CASE pc[v] = "stats"
  BY <1>1, <1>3 DEF JobSettles
<1>4. CASE pc[v] \in {"page", "lookup", "commit"}
  <2>1. PageInv(v)
    BY <1>4 DEF JobSettles
  <2>2. PageInv(v)'
    BY <1>1, <1>2, <2>1 DEF PageInv
  <2>3. QED
    BY <1>4, <2>2 DEF JobSettles
<1>5. CASE pc[v] = "idle"
  BY <1>5 DEF JobSettles
<1>6. QED
  BY <1>3, <1>4, <1>5 DEF TypeOK, JobType

(* Where the next page lies.                                               *)
LEMMA NextPageAbuts ==
  ASSUME TypeOK, NEW w \in SyncWorker, PageInv(w), pc[w] = "page"
  PROVE  LET top == PageTop(before[w]) bottom == PageBottom(before[w]) IN
         /\ top \in Nat /\ bottom \in Nat /\ top <= now /\ bottom >= 1
         /\ pages[w] = 0 => top = now
         /\ pages[w] # 0 => top = before[w] - 1
         /\ top < bottom => \A p \in Play : p <= top => Evicted(p)
         /\ \A p \in Play : p < bottom =>
              Evicted(p) \/ top - bottom + 1 = PageSize
<1> DEFINE top == PageTop(before[w])
           bottom == PageBottom(before[w])
<1>1. /\ now \in Nat /\ now <= MaxPlay /\ Retention \in Nat /\ PageSize \in Nat
      /\ before[w] \in Nat /\ PageSize > 0 /\ MaxPlay \in Nat
      /\ \A p \in Play : p \in Nat /\ 1 <= p /\ p <= MaxPlay
  BY NumberTypes
<1>2. /\ pages[w] = 0 => before[w] = MaxPlay + 1
      /\ pages[w] # 0 => before[w] >= 1 /\ before[w] <= now
  <2>1. pages[w] # 0 => before[w] \in Play /\ before[w] <= newest[w] /\ newest[w] <= now
    BY DEF PageInv
  <2>2. newest[w] \in Nat
    BY NumberTypes
  <2>3. QED
    BY <1>1, <2>1, <2>2 DEF PageInv
<1>3. Oldest \in Nat /\ Oldest >= 1
  BY <1>1 DEF Oldest, Larger
<1>4. /\ top \in Nat /\ top <= now
      /\ pages[w] = 0 => top = now
      /\ pages[w] # 0 => top = before[w] - 1
  BY <1>1, <1>2 DEF PageTop, Smaller
<1>5. /\ bottom \in Nat /\ bottom >= Oldest
      /\ bottom = Oldest \/ (bottom = top - PageSize + 1)
  BY <1>1, <1>3, <1>4 DEF PageBottom, Larger
<1> HIDE DEF top, bottom
<1>6. /\ top < bottom => \A p \in Play : p <= top => Evicted(p)
      /\ \A p \in Play : p < bottom => Evicted(p) \/ top - bottom + 1 = PageSize
  BY <1>1, <1>3, <1>4, <1>5 DEF Evicted
<1>7. QED
  BY <1>3, <1>4, <1>5, <1>6 DEF top, bottom

LEMMA OnePageMore ==
  ASSUME NEW n \in Nat, NEW size \in Nat
  PROVE  n * size + size = (n + 1) * size /\ (n = 0 => (n + 1) * size = size)
OBVIOUS

(* After a page is read, the plays between its ends are settled or in the  *)
(* batch.                                                                  *)
LEMMA GapFetch ==
  ASSUME TypeOK, TypeOK', Next, NEW w \in SyncWorker, JobSettles(w), FetchPage(w)
  PROVE  JobSettles(w)'
<1> DEFINE top == PageTop(before[w])
           bottom == PageBottom(before[w])
           new == {p \in bottom..top : p > since[w]}
<1>1. PageInv(w) /\ pc[w] = "page"
  BY DEF FetchPage, JobSettles
<1>2. /\ top \in Nat /\ bottom \in Nat /\ top <= now /\ bottom >= 1
      /\ pages[w] = 0 => top = now
      /\ pages[w] # 0 => top = before[w] - 1
      /\ top < bottom => \A p \in Play : p <= top => Evicted(p)
      /\ \A p \in Play : p < bottom => Evicted(p) \/ top - bottom + 1 = PageSize
  BY <1>1, NextPageAbuts
<1>3. \A p \in Play : Settled(p) => Settled(p)'
  BY SettledStays
<1>4. \A p \in Play : Evicted(p) => Settled(p)
  BY DEF Settled
<1>5. /\ now \in Nat /\ now <= MaxPlay
      /\ \A p \in Play : p \in Nat /\ 1 <= p /\ p <= MaxPlay
      /\ since[w] \in Nat /\ before[w] \in Nat /\ newest[w] \in Nat /\ pages[w] \in Nat
      /\ MaxPlay \in Nat /\ PageSize \in Nat
  BY NumberTypes
<1>6. /\ \A p \in Play : p <= since[w] => Settled(p)
      /\ \A p \in Play : before[w] <= p /\ p <= newest[w] => Settled(p)
      /\ pages[w] = 0 => newest[w] = 0
      /\ pages[w] # 0 => /\ before[w] <= newest[w] /\ newest[w] <= now
                         /\ newest[w] - before[w] + 1 = pages[w] * PageSize
      /\ pages[w] < MaxPages
  BY <1>1 DEF PageInv
<1>7. now' = now
  BY DEF FetchPage
<1> HIDE DEF top, bottom
<1>8. CASE top < bottom
  <2>1. pc'[w] = "stats" /\ newest' = newest
    BY <1>2, <1>8 DEF FetchPage, LeaveLoop, TypeOK, JobType, top, bottom
  <2>2. ASSUME NEW p \in Play, p <= newest[w]
        PROVE  Settled(p)
    <3>1. pages[w] # 0 /\ (p <= top \/ before[w] <= p)
      BY <1>2, <1>5, <1>6, <2>2
    <3>2. CASE p <= top
      BY <1>2, <1>4, <1>8, <3>2
    <3>3. CASE before[w] <= p
      BY <1>6, <2>2, <3>3
    <3>4. QED
      BY <3>1, <3>2, <3>3
  <2>3. QED
    BY <1>3, <2>1, <2>2 DEF JobSettles
<1>9. CASE top >= bottom /\ new = {}
  <2>1. pc'[w] = "stats" /\ newest'[w] = IF pages[w] = 0 THEN top ELSE newest[w]
    BY <1>2, <1>9 DEF FetchPage, LeaveLoop, TypeOK, JobType, top, bottom
  <2>2. top <= since[w]
    <3>1. top \in bottom..top
      BY <1>2, <1>9
    <3>2. ~(top > since[w])
      BY <1>9, <3>1
    <3>3. QED
      BY <1>2, <1>5, <3>2
  <2>3. ASSUME NEW p \in Play, p <= newest'[w]
        PROVE  Settled(p)
    BY <1>2, <1>5, <1>6, <2>1, <2>2, <2>3
  <2>4. QED
    BY <1>3, <2>1, <2>3 DEF JobSettles
<1>10. CASE top >= bottom /\ new # {}
  <2>1. /\ pc'[w] = "lookup" /\ before'[w] = bottom /\ batch'[w] = new
        /\ newest'[w] = IF pages[w] = 0 THEN top ELSE newest[w]
        /\ since' = since /\ pages' = pages
    BY <1>2, <1>10 DEF FetchPage, TypeOK, JobType, top, bottom
  <2>2. more'[w] = (bottom > since[w] /\ top - bottom + 1 = PageSize)
    BY <1>2, <1>10 DEF FetchPage, TypeOK, JobType, top, bottom
  <2>3. ASSUME NEW p \in Play, bottom <= p, p <= newest'[w]
        PROVE  Settled(p) \/ p \in new
    BY <1>2, <1>5, <1>6, <2>1, <2>3
  <2>4. bottom \in Play /\ bottom <= newest'[w] /\ newest'[w] <= now
    BY <1>2, <1>5, <1>6, <1>10, <2>1 DEF Play
  <2>5. top - bottom + 1 = PageSize =>
          newest'[w] - bottom + 1 = (pages[w] + 1) * PageSize
    <3>1. /\ pages[w] * PageSize + PageSize = (pages[w] + 1) * PageSize
          /\ pages[w] = 0 => (pages[w] + 1) * PageSize = PageSize
          /\ pages[w] * PageSize \in Nat
      BY <1>5, OnePageMore
    <3> DEFINE done == pages[w] * PageSize
               next == (pages[w] + 1) * PageSize
    <3>2. /\ done + PageSize = next /\ (pages[w] = 0 => next = PageSize) /\ done \in Nat
          /\ pages[w] # 0 => newest[w] - before[w] + 1 = done
      BY <1>6, <3>1
    <3> HIDE DEF done, next
    <3>3. top - bottom + 1 = PageSize => newest'[w] - bottom + 1 = next
      BY <1>2, <1>5, <2>1, <3>2
    <3>4. QED
      BY <3>3 DEF next
  <2>6. ~more'[w] => \A p \in Play : p < bottom => Settled(p)
    <3>1. ASSUME NEW p \in Play, p < bottom,
                 ~(bottom > since[w] /\ top - bottom + 1 = PageSize)
          PROVE  Settled(p)
      <4>1. p <= since[w] \/ Evicted(p)
        BY <1>2, <1>5, <3>1
      <4>2. QED
        BY <1>4, <1>6, <4>1
    <3>2. QED
      BY <2>2, <3>1
  <2> HIDE DEF new
  <2>7. PageInv(w)'
    <3>1. pages'[w] < MaxPages /\ (\A p \in Play : p <= since'[w] => Settled(p)')
      BY <1>3, <1>6, <2>1
    <3>2. \A p \in Play : before'[w] <= p /\ p <= newest'[w] =>
            Settled(p)' \/ (pc'[w] # "page" /\ p \in batch'[w])
      BY <1>3, <2>1, <2>3
    <3>3. before'[w] \in Play /\ before'[w] <= newest'[w] /\ newest'[w] <= now'
      BY <1>7, <2>1, <2>4
    <3>4. IF more'[w] THEN newest'[w] - before'[w] + 1 = (pages'[w] + 1) * PageSize
                      ELSE \A p \in Play : p < before'[w] => Settled(p)'
      BY <1>3, <2>1, <2>2, <2>5, <2>6
    <3>5. QED
      BY <2>1, <3>1, <3>2, <3>3, <3>4 DEF PageInv
  <2>8. QED
    BY <2>1, <2>7 DEF JobSettles
<1>11. QED
  BY <1>2, <1>8, <1>9, <1>10

(* The bottom of the loop, once the plays of the batch are settled: a job  *)
(* that has read MaxPages full pages has read the whole list.              *)
LEMMA GapNextPage ==
  ASSUME TypeOK, TypeOK', Next, NEW w \in SyncWorker, NEW add, JobSettles(w),
         pc[w] \in {"lookup", "commit"}, NextPage(w, add), newest' = newest,
         \A p \in batch[w] : Settled(p)'
  PROVE  JobSettles(w)'
<1>1. PageInv(w) /\ pc[w] # "page"
  BY DEF JobSettles
<1>2. \A p \in Play : Settled(p) => Settled(p)'
  BY SettledStays
<1>3. /\ \A p \in Play : p <= since[w] => Settled(p)'
      /\ \A p \in Play : before[w] <= p /\ p <= newest[w] => Settled(p)'
      /\ before[w] \in Play /\ before[w] <= newest[w] /\ newest[w] <= now
      /\ more[w] => newest[w] - before[w] + 1 = (pages[w] + 1) * PageSize
      /\ ~more[w] => \A p \in Play : p < before[w] => Settled(p)
      /\ pages[w] < MaxPages
  BY <1>1, <1>2 DEF PageInv
<1>4. /\ now \in Nat /\ newest[w] \in Nat /\ before[w] \in Nat /\ pages[w] \in Nat
      /\ Retention \in Nat /\ MaxPages \in Nat
      /\ \A p \in Play : p \in Nat
  BY NumberTypes
<1>5. CASE more[w] /\ pages[w] + 1 < MaxPages
  <2>1. /\ pc'[w] = "page" /\ pages'[w] = pages[w] + 1 /\ since' = since
        /\ before' = before
    BY <1>5 DEF NextPage, TypeOK, JobType
  <2>2. newest[w] <= now'
    BY <1>3, <1>4, NowGrows
  <2>3. PageInv(w)'
    BY <1>3, <1>4, <1>5, <2>1, <2>2 DEF PageInv
  <2>4. QED
    BY <2>1, <2>3 DEF JobSettles
<1>6. CASE ~(more[w] /\ pages[w] + 1 < MaxPages)
  <2>1. pc'[w] = "stats"
    BY <1>6 DEF NextPage, LeaveLoop, TypeOK, JobType
  <2>2. more[w] => \A p \in Play : p < before[w] => Settled(p)
    <3>1. more[w] => newest[w] - before[w] + 1 >= Retention
      <4>1. more[w] => pages[w] + 1 = MaxPages
        BY <1>3, <1>4, <1>6
      <4>2. more[w] => newest[w] - before[w] + 1 = MaxPages * PageSize
        BY <1>3, <4>1
      <4>3. newest[w] - before[w] + 1 \in Int
        BY <1>4
      <4>4. QED
        BY <4>2, <4>3, PagesCoverList
    <3>2. ASSUME more[w], NEW p \in Play, p < before[w]
          PROVE  Evicted(p)
      BY <1>3, <1>4, <3>1, <3>2 DEF Evicted, Oldest, Larger
    <3>3. QED
      BY <3>2 DEF Settled
  <2>3. ASSUME NEW p \in Play, p <= newest[w]
        PROVE  Settled(p)'
    <3>1. p < before[w] \/ before[w] <= p
      BY <1>4
    <3>2. more[w] \in BOOLEAN
      BY DEF TypeOK, JobType
    <3>3. QED
      BY <1>2, <1>3, <2>2, <2>3, <3>1, <3>2
  <2>4. QED
    BY <2>1, <2>3 DEF JobSettles
<1>7. QED
  BY <1>5, <1>6

LEMMA GapLookup ==
  ASSUME TypeOK, TypeOK', Next, NEW w \in SyncWorker, JobSettles(w), Lookup(w)
  PROVE  JobSettles(w)'
<1>1. PageInv(w)
  BY DEF Lookup, JobSettles
<1>2. /\ pc[w] = "lookup" /\ pc'[w] = "commit"
      /\ since' = since /\ before' = before /\ newest' = newest /\ pages' = pages
      /\ more' = more /\ now' = now
      /\ batch'[w] = {p \in batch[w] : ~Stored(p)}
  BY DEF Lookup, TypeOK, JobType
<1>3. \A p \in Play : Settled(p) => Settled(p)'
  BY SettledStays
<1>4. \A p \in Play : p \in batch[w] => Settled(p) \/ p \in batch'[w]
  BY <1>2 DEF Settled
<1>5. PageInv(w)'
  BY <1>1, <1>2, <1>3, <1>4 DEF PageInv
<1>6. QED
  BY <1>2, <1>5 DEF JobSettles

(* What every sync step does for its own job.                              *)
LEMMA GapOwnStep ==
  ASSUME TypeOK, TypeOK', GapInv, Next, NEW w \in SyncWorker,
         SyncStep(w) \/ SyncFailure(w)
  PROVE  JobSettles(w)'
<1>1. JobSettles(w) /\ NoGapBelowLastIngested
  BY DEF GapInv
<1>2. \A p \in Play : Settled(p) => Settled(p)'
  BY SettledStays
<1>3. CASE Start(w)
  <2>1. /\ pc[w] = "idle" /\ pc'[w] = "page" /\ since'[w] = lastIngested
        /\ before'[w] = MaxPlay + 1 /\ newest' = newest /\ pages' = pages
    BY <1>3 DEF Start, TypeOK, JobType
  <2>2. pages[w] = 0 /\ newest[w] = 0
    BY <1>1, <2>1 DEF JobSettles
  <2>3. 0 < MaxPages /\ \A p \in Play : p \in Nat /\ p <= MaxPlay /\ MaxPlay \in Nat
    BY NumberTypes
  <2>4. \A p \in Play : ~(MaxPlay + 1 <= p)
    BY <2>3
  <2>5. PageInv(w)'
    BY <1>1, <1>2, <2>1, <2>2, <2>3, <2>4 DEF PageInv, NoGapBelowLastIngested
  <2>6. QED
    BY <2>1, <2>5 DEF JobSettles
<1>4. CASE FetchPage(w)
  BY <1>1, <1>4, GapFetch
<1>5. CASE Lookup(w)
  BY <1>1, <1>5, GapLookup
<1>6. CASE Commit(w)
  <2>1. \A p \in batch[w] : Settled(p)'
    BY <1>6 DEF Commit, Settled, Stored, TypeOK, JobType
  <2>2. QED
    BY <1>1, <1>6, <2>1, GapNextPage DEF Commit
<1>7. CASE SwallowedInsertError(w)
  <2>1. \A p \in batch[w] : Settled(p)'
    BY <1>7 DEF SwallowedInsertError, Settled, Stored, database
  <2>2. QED
    BY <1>1, <1>7, <2>1, GapNextPage DEF SwallowedInsertError
<1>8. ASSUME NEW t \in StatsTable, Aggregate(w, t)
      PROVE  JobSettles(w)'
  BY <1>1, <1>8, JobFrame DEF Aggregate
<1>9. CASE Mark(w) \/ Abort(w) \/ AggregateFails(w)
  BY <1>9 DEF Mark, Abort, AggregateFails, EndJob, JobSettles, TypeOK, JobType
<1>10. QED
  BY <1>3, <1>4, <1>5, <1>6, <1>7, <1>8, <1>9 DEF SyncStep, SyncFailure

LEMMA GapJobs ==
  ASSUME TypeOK, TypeOK', GapInv, Next, NEW v \in SyncWorker
  PROVE  JobSettles(v)'
<1>1. JobSettles(v)
  BY DEF GapInv
<1>2. CASE UNCHANGED syncVars
  BY <1>1, <1>2, JobFrame DEF syncVars
<1>3. ASSUME NEW w \in SyncWorker, SyncStep(w) \/ SyncFailure(w)
      PROVE  JobSettles(v)'
  <2>1. CASE v = w
    BY <1>3, <2>1, GapOwnStep
  <2>2. CASE v # w
    <3>1. /\ pc'[v] = pc[v] /\ since'[v] = since[v] /\ before'[v] = before[v]
          /\ newest'[v] = newest[v] /\ pages'[v] = pages[v] /\ more'[v] = more[v]
          /\ batch'[v] = batch[v]
      BY <1>3, <2>2
      DEF SyncStep, SyncFailure, Start, FetchPage, LeaveLoop, Lookup, Commit,
          NextPage, Aggregate, Mark, EndJob, SwallowedInsertError, Abort,
          AggregateFails, TypeOK, JobType
    <3>2. QED
      BY <1>1, <3>1, JobFrame
  <2>3. QED
    BY <2>1, <2>2
<1>4. CASE Crash
  BY <1>4 DEF Crash, JobSettles
<1>5. QED
  BY <1>2, <1>3, <1>4, ImportFrame DEF Next, Listen

LEMMA GapInvInit == Init => GapInv
<1> SUFFICES ASSUME Init PROVE GapInv
  OBVIOUS
<1>1. \A p \in Play : ~(p <= lastIngested)
  BY ListeningAssumption DEF Init, Play
<1>2. QED
  BY <1>1 DEF Init, GapInv, NoGapBelowLastIngested, JobSettles

LEMMA GapInvNext == TypeOK /\ TypeOK' /\ GapInv /\ [Next]_vars => GapInv'
<1>1. CASE UNCHANGED vars
  BY <1>1 DEF vars, database, syncVars, importVars, GapInv, NoGapBelowLastIngested,
     JobSettles, PageInv, Settled, Stored, Evicted, Oldest
<1>2. ASSUME TypeOK, TypeOK', GapInv, Next
      PROVE  GapInv'
  <2>1. \A p \in Play : Settled(p) => Settled(p)'
    BY <1>2, SettledStays
  <2>2. ASSUME NEW w \in SyncWorker, Mark(w)
        PROVE  NoGapBelowLastIngested'
    <3>1. \A p \in Play : p <= newest[w] => Settled(p)
      BY <1>2, <2>2 DEF Mark, GapInv, JobSettles
    <3>2. lastIngested' = lastIngested \/ lastIngested' = newest[w]
      BY <2>2 DEF Mark
    <3>3. QED
      BY <1>2, <2>1, <3>1, <3>2 DEF GapInv, NoGapBelowLastIngested
  <2>3. ASSUME lastIngested' = lastIngested
        PROVE  NoGapBelowLastIngested'
    BY <1>2, <2>1, <2>3 DEF GapInv, NoGapBelowLastIngested
  <2>4. lastIngested' = lastIngested \/ \E w \in SyncWorker : Mark(w)
    <3>1. ASSUME NEW w \in SyncWorker, SyncStep(w) \/ SyncFailure(w), ~Mark(w)
          PROVE  lastIngested' = lastIngested
      BY <3>1 DEF SyncStep, SyncFailure, Start, FetchPage, Lookup, Commit, Aggregate,
                  SwallowedInsertError, Abort, AggregateFails, database
    <3>2. QED
      BY <1>2, <3>1, ImportFrame DEF Next, Listen, Crash, database
  <2>5. NoGapBelowLastIngested'
    BY <2>2, <2>3, <2>4
  <2>6. QED
    BY <1>2, <2>5, GapJobs DEF GapInv
<1>3. QED
  BY <1>1, <1>2

(* A sync started from lastIngestedAt misses nothing below it: every play  *)
(* up to there is stored, out of Spotify's list, or was lost to a          *)
(* swallowed insertion error - however jobs, imports and crashes           *)
(* interleave.                                                             *)
THEOREM NoGapCorrect == Spec => []NoGapBelowLastIngested
<1>1. GapInv => NoGapBelowLastIngested
  BY DEF GapInv
<1>2. Spec => []GapInv
  BY TypeCorrect, GapInvInit, GapInvNext, PTL DEF Spec
<1>3. QED
  BY <1>1, <1>2, PTL

-----------------------------------------------------------------------------
(* The tables implement the ledger.                                        *)

LEMMA CreditBounded ==
  ASSUME TypeOK', OvercountBounded', NEW p \in Play
  PROVE  totals'[p] <= Cardinality(SyncWorker)
<1>1. StaleReaders(p)' \in SUBSET SyncWorker
  BY DEF StaleReaders
<1>2. Cardinality(StaleReaders(p)') \in Nat /\ Cardinality(SyncWorker) \in Nat
  BY <1>1, FS_Subset, FS_CardinalityType, ListeningAssumption
<1>3. totals'[p] \in Nat
  BY DEF TypeOK, DatabaseType, Count
<1>4. QED
  BY <1>2, <1>3 DEF OvercountBounded

LEMMA LedgerStart == Init => Ledger!LedgerInit
<1> SUFFICES ASSUME Init PROVE Ledger!LedgerInit
  OBVIOUS
<1>1. ASSUME NEW p \in Play PROVE ~Evicted(p)
  BY ListeningAssumption DEF Init, Evicted, Oldest, Larger, Play
<1>2. lost \union {p \in Play : Evicted(p)} = {}
  BY <1>1 DEF Init
<1>3. QED
  BY <1>2 DEF Init, Ledger!LedgerInit

(* A step that leaves the rows, the totals and lastIngestedAt alone can    *)
(* only give plays up.                                                     *)
LEMMA LedgerGivesUp ==
  ASSUME TypeOK, TypeOK', Next, UNCHANGED <<events, totals, lastIngested>>
  PROVE  Ledger!LedgerNext
<1> DEFINE gone == lost \union {p \in Play : Evicted(p)}
<1>1. ASSUME NEW p \in Play, Evicted(p)
      PROVE  Evicted(p)'
  <2>0. now \in Nat /\ Retention \in Nat /\ (now' = now \/ now' = now + 1)
    BY NowGrows, NumberTypes
  <2>1. Oldest' >= Oldest
    BY <2>0 DEF Oldest, Larger
  <2>2. Oldest \in Nat /\ Oldest' \in Nat /\ p \in Nat
    BY <2>0, NumberTypes DEF Oldest, Larger
  <2>3. QED
    BY <1>1, <2>1, <2>2 DEF Evicted
<1>2. gone \subseteq gone' /\ gone' \subseteq Play
  BY <1>1, NowGrows DEF TypeOK, EnvironmentType
<1>3. gone' = gone \union gone' /\ gone' \in SUBSET Play
  BY <1>2
<1>4. PICK S \in SUBSET Play : S = gone'
  BY <1>3
<1>5. Ledger!GiveUp(S)
  BY <1>3, <1>4 DEF Ledger!GiveUp
<1>6. QED
  BY <1>5 DEF Ledger!LedgerNext

LEMMA LedgerStep ==
  ASSUME TypeOK, TypeOK', OvercountBounded', NoGapBelowLastIngested',
         [Next]_vars
  PROVE  [Ledger!LedgerNext]_(Ledger!ledgerVars)
<1>1. CASE UNCHANGED vars
  <2>1. UNCHANGED <<events, totals, lastIngested, lost, now>>
    BY <1>1 DEF vars, database
  <2>2. (lost \union {p \in Play : Evicted(p)})' = lost \union {p \in Play : Evicted(p)}
    BY <2>1 DEF Evicted, Oldest
  <2>3. QED
    BY <2>1, <2>2 DEF Ledger!ledgerVars
<1>2. ASSUME Next, UNCHANGED <<events, totals, lastIngested>>
      PROVE  Ledger!LedgerNext
  BY <1>2, LedgerGivesUp
<1>3. ASSUME NEW w \in SyncWorker, Commit(w)
      PROVE  Ledger!LedgerNext \/ UNCHANGED <<events, totals, lastIngested>>
  <2>1. /\ events' = [p \in Play |->
                        IF p \in batch[w] /\ ~Stored(p) THEN "estimated" ELSE events[p]]
        /\ totals' = [p \in Play |->
                        IF p \in batch[w] THEN totals[p] + 1 ELSE totals[p]]
        /\ UNCHANGED <<lastIngested, lost, now>>
    BY <1>3 DEF Commit
  <2>2. CASE batch[w] = {}
    BY <2>1, <2>2 DEF TypeOK, DatabaseType, Count
  <2>3. CASE batch[w] # {}
    <3>1. (lost \union {p \in Play : Evicted(p)})' = lost \union {p \in Play : Evicted(p)}
      BY <2>1 DEF Evicted, Oldest
    <3>2. batch[w] \in SUBSET Play
      BY DEF TypeOK, JobType
    <3>3. \A p \in batch[w] : totals'[p] <= Cardinality(SyncWorker)
      BY <3>2, CreditBounded
    <3>4. Ledger!RecordEstimates(batch[w])
      BY <2>1, <2>3, <3>1, <3>3 DEF Ledger!RecordEstimates, Ledger!Recorded, Stored
    <3>5. QED
      BY <3>2, <3>4 DEF Ledger!LedgerNext
  <2>4. QED
    BY <2>2, <2>3
<1>4. ASSUME NEW w \in SyncWorker, Mark(w)
      PROVE  Ledger!LedgerNext \/ UNCHANGED <<events, totals, lastIngested>>
  <2>1. /\ lastIngested' = lastIngested \/ lastIngested' = newest[w]
        /\ lastIngested' # lastIngested => newest[w] # 0
        /\ UNCHANGED <<events, totals, lost, now>>
    BY <1>4 DEF Mark
  <2>2. (lost \union {p \in Play : Evicted(p)})' = lost \union {p \in Play : Evicted(p)}
    BY <2>1 DEF Evicted, Oldest
  <2>3. CASE lastIngested' # lastIngested
    <3>1. lastIngested' \in Play
      BY <2>1, <2>3 DEF TypeOK, JobType, Mark0
    <3>2. \A p \in Play : p <= lastIngested' =>
            Stored(p) \/ p \in lost \union {q \in Play : Evicted(q)}
      BY <2>1 DEF NoGapBelowLastIngested, Settled, Stored, Evicted, Oldest
    <3>3. Ledger!Settle(lastIngested')
      BY <2>1, <2>2, <3>2 DEF Ledger!Settle, Ledger!Recorded, Stored
    <3>4. QED
      BY <3>1, <3>3 DEF Ledger!LedgerNext
  <2>4. QED
    BY <2>1, <2>3
<1>5. CASE ImportCreate
  <2> DEFINE S == {p \in Play : icreate[p] > 0 /\ ~Stored(p)}
  <2>1. /\ events' = [p \in Play |->
                        IF icreate[p] > 0 /\ ~Stored(p) THEN "actual" ELSE events[p]]
        /\ UNCHANGED <<totals, lastIngested, lost, now>>
    BY <1>5 DEF ImportCreate
  <2>2. CASE S = {}
    <3>1. events' = events
      BY <2>1, <2>2 DEF TypeOK, DatabaseType
    <3>2. QED
      BY <1>2, <1>5, <2>1, <3>1 DEF Next, ImportStep
  <2>3. CASE S # {}
    <3>1. (lost \union {p \in Play : Evicted(p)})' = lost \union {p \in Play : Evicted(p)}
      BY <2>1 DEF Evicted, Oldest
    <3>2. Ledger!RecordActuals(S)
      BY <2>1, <2>3, <3>1 DEF Ledger!RecordActuals
    <3>3. QED
      BY <3>2 DEF Ledger!LedgerNext
  <2>4. QED
    BY <2>2, <2>3
<1>6. ASSUME NEW q \in Play, ImportUpdate(q)
      PROVE  Ledger!LedgerNext
  <2>1. events' = [events EXCEPT ![q] = "actual"] /\ UNCHANGED <<totals, lastIngested, lost, now>>
    BY <1>6 DEF ImportUpdate
  <2>2. (lost \union {p \in Play : Evicted(p)})' = lost \union {p \in Play : Evicted(p)}
    BY <2>1 DEF Evicted, Oldest
  <2>3. events' = [p \in Play |-> IF p \in {q} THEN "actual" ELSE events[p]]
    BY <2>1 DEF TypeOK, DatabaseType
  <2>4. Ledger!RecordActuals({q})
    BY <2>1, <2>2, <2>3 DEF Ledger!RecordActuals
  <2>5. QED
    BY <2>4 DEF Ledger!LedgerNext
<1>7. ASSUME Next, ~ImportCreate, ~\E q \in Play : ImportUpdate(q),
             ~\E w \in SyncWorker : Commit(w) \/ Mark(w)
      PROVE  UNCHANGED <<events, totals, lastIngested>>
  <2>1. ASSUME NEW w \in SyncWorker, SyncStep(w) \/ SyncFailure(w), ~Commit(w), ~Mark(w)
        PROVE  UNCHANGED <<events, totals, lastIngested>>
    BY <2>1 DEF SyncStep, SyncFailure, Start, FetchPage, Lookup, Aggregate,
                SwallowedInsertError, Abort, AggregateFails, database
  <2>2. ASSUME NEW reps, NEW corrects, ImportLookup(reps, corrects)
        PROVE  UNCHANGED <<events, totals, lastIngested>>
    BY <2>2 DEF ImportLookup, database
  <2>3. CASE ImportStep \/ ImportAborts \/ ImportAggregateFails \/ Crash \/ Listen
    BY <1>7, <2>3 DEF ImportStep, ImportAggregate, ImportBatchDone, ImportAborts,
                      ImportAggregateFails, Crash, Listen, database
  <2>4. QED
    BY <1>7, <2>1, <2>2, <2>3 DEF Next
<1>8. QED
  BY <1>1, <1>2, <1>3, <1>4, <1>5, <1>6, <1>7

(* The sync jobs and the import, with their pages, transactions, races and *)
(* failures, implement the ledger: every step of theirs is a step of it,   *)
(* or none.                                                                *)
THEOREM ImplementsLedgerCorrect == Spec => ImplementsLedger
<1>1. Spec => []OvercountBounded /\ []NoGapBelowLastIngested /\ []TypeOK
  BY OvercountBoundedCorrect, NoGapCorrect, TypeCorrect, PTL
<1>2. QED
  BY <1>1, LedgerStart, LedgerStep, PTL DEF Spec, ImplementsLedger, Ledger!LedgerSpec
=============================================================================
