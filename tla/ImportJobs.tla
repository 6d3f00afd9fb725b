----------------------------- MODULE ImportJobs -----------------------------
(***************************************************************************)
(* The life of import jobs: the upload that creates the row and the job    *)
(* (routes/import.ts), the worker that reads the file, one job at a time   *)
(* (workers/import-worker.ts, services/import.ts,                          *)
(* services/basic-import.ts), what BullMQ does with attempts that fail or  *)
(* stall, and the cleanup of rows that stay PENDING (routes/cron.ts).      *)
(*                                                                         *)
(* Abstractions.  A file is the set of the plays in it that parse and, in  *)
(* the basic format, resolve to a track; it may be empty.  A batch is one  *)
(* play: how a batch is inserted is in ListeningIngestion.  Both formats   *)
(* write the row and the progress at the same points.  Of progress only    *)
(* the status matters, and an update in the middle changes nothing.        *)
(***************************************************************************)
EXTENDS Integers, FiniteSets

CONSTANTS
  Upload,       \* files of one user that are uploaded
  Record,       \* plays that files may hold
  None,         \* no job
  MaxAttempts,  \* attempts of importQueue (3)
  MaxStalls,    \* maxStalledCount, BullMQ's default (1)
  MaxFaults     \* bound: statements that fail and processes that die

ASSUME ImportAssumption ==
  /\ None \notin Upload
  /\ MaxAttempts \in Nat \ {0}
  /\ MaxStalls \in Nat
  /\ MaxFaults \in Nat

VARIABLES
  file,         \* what each upload holds
  readable,     \* uploads whose format is recognised
  request,      \* where each upload request is
  \* Postgres
  row,          \* status in import_jobs
  aged,         \* rows created more than 5 minutes ago
  stored,       \* plays of the user that have a row
  \* Redis: the status in import_progress
  progress,
  \* BullMQ
  queue, failures, stalls,
  \* the worker
  job,          \* the upload it works on
  step,
  todo,         \* plays of the file it has not inserted
  added,        \* some play of the file had no row
  faults

upload   == <<file, readable, request>>
database == <<row, aged, stored>>
bull     == <<queue, failures, stalls>>
worker   == <<job, step, todo, added>>
vars     == <<upload, database, progress, bull, worker, faults>>

Init ==
  /\ file \in [Upload -> SUBSET Record]
  /\ readable \in SUBSET Upload
  /\ \A u \in Upload \ readable : file[u] = {}
  /\ request = [u \in Upload |-> "create"]
  /\ row = [u \in Upload |-> "none"]
  /\ aged = {}
  /\ stored = {}
  /\ progress = [u \in Upload |-> "none"]
  /\ queue = [u \in Upload |-> "none"]
  /\ failures = [u \in Upload |-> 0]
  /\ stalls = [u \in Upload |-> 0]
  /\ job = None
  /\ step = "idle"
  /\ todo = {}
  /\ added = FALSE
  /\ faults = 0

Fault == faults < MaxFaults /\ faults' = faults + 1

-----------------------------------------------------------------------------
(* The upload request.                                                     *)

CreateRow(u) ==
  /\ request[u] = "create"
  /\ request' = [request EXCEPT ![u] = "add"]
  /\ row' = [row EXCEPT ![u] = "PENDING"]
  /\ UNCHANGED <<file, readable, aged, stored, progress, bull, worker, faults>>

AddJob(u) ==
  /\ request[u] = "add"
  /\ request' = [request EXCEPT ![u] = "queued"]
  /\ queue' = [queue EXCEPT ![u] = "waiting"]
  /\ UNCHANGED <<file, readable, database, progress, failures, stalls, worker, faults>>

(* The queue does not answer; the job may be in it all the same.           *)
AddJobFails(u) ==
  /\ request[u] = "add"
  /\ Fault
  /\ request' = [request EXCEPT ![u] = "unqueued"]
  /\ \/ queue' = [queue EXCEPT ![u] = "waiting"]
     \/ UNCHANGED queue
  /\ UNCHANGED <<file, readable, database, progress, failures, stalls, worker>>

FailRow(u) ==
  /\ request[u] = "unqueued"
  /\ request' = [request EXCEPT ![u] = "error"]
  /\ row' = [row EXCEPT ![u] = "FAILED"]
  /\ UNCHANGED <<file, readable, aged, stored, progress, bull, worker, faults>>

FailRowFails(u) ==
  /\ request[u] = "unqueued"
  /\ Fault
  /\ request' = [request EXCEPT ![u] = "error"]
  /\ UNCHANGED <<file, readable, database, progress, bull, worker>>

(* Five minutes pass, which only matters to a PENDING row.                 *)
Age(u) ==
  /\ row[u] = "PENDING"
  /\ u \notin aged
  /\ aged' = aged \union {u}
  /\ UNCHANGED <<upload, row, stored, progress, bull, worker, faults>>

Stale == {u \in aged : row[u] = "PENDING"}

\* Mutant: the cleanup looks for rows in progress.
CleanupProcessing ==
  LET stale == {u \in aged : row[u] = "PROCESSING"} IN
  /\ stale # {}
  /\ row' = [u \in Upload |-> IF u \in stale THEN "FAILED" ELSE row[u]]
  /\ UNCHANGED <<upload, aged, stored, progress, bull, worker, faults>>

\* Mutant: the cleanup does not look at the status.
CleanupAll ==
  /\ aged # {}
  /\ row' = [u \in Upload |-> IF u \in aged THEN "FAILED" ELSE row[u]]
  /\ UNCHANGED <<upload, aged, stored, progress, bull, worker, faults>>

(* The cron job takes an old PENDING row for an upload that was            *)
(* interrupted, also when the queue is merely behind.                      *)
Cleanup ==
  /\ Stale # {}
  /\ row' = [u \in Upload |-> IF u \in Stale THEN "FAILED" ELSE row[u]]
  /\ UNCHANGED <<upload, aged, stored, progress, bull, worker, faults>>

-----------------------------------------------------------------------------
(* The worker.                                                             *)

Take(u) ==
  /\ job = None
  /\ queue[u] = "waiting"
  /\ queue' = [queue EXCEPT ![u] = "active"]
  /\ job' = u
  /\ step' = "detect"
  /\ UNCHANGED <<upload, database, progress, failures, stalls, todo, added, faults>>

(* The format is recognised, or the attempt fails before it has begun.     *)
Detect ==
  /\ step = "detect"
  /\ step' = IF job \in readable THEN "begin" ELSE "mark"
  /\ UNCHANGED <<upload, database, progress, bull, job, todo, added, faults>>

BeginImport ==
  /\ step = "begin"
  /\ step' = "announce"
  /\ row' = [row EXCEPT ![job] = "PROCESSING"]
  /\ todo' = file[job]
  /\ added' = FALSE
  /\ UNCHANGED <<upload, aged, stored, progress, bull, job, faults>>

Announce ==
  /\ step = "announce"
  /\ step' = "insert"
  /\ progress' = [progress EXCEPT ![job] = "PROCESSING"]
  /\ UNCHANGED <<upload, database, bull, job, todo, added, faults>>

Insert(r) ==
  /\ step = "insert"
  /\ r \in todo
  /\ todo' = todo \ {r}
  /\ added' = (added \/ r \notin stored)
  /\ stored' = stored \union {r}
  /\ UNCHANGED <<upload, row, aged, progress, bull, job, step, faults>>

\* Mutant: what is left in the batch when the file ends is forgotten.
EndOfFileForgetsBatch ==
  /\ step = "insert"
  /\ Cardinality(todo) <= 1
  /\ step' = "announceEnd"
  /\ todo' = {}
  /\ UNCHANGED <<upload, database, progress, bull, job, added, faults>>

EndOfFile ==
  /\ step = "insert"
  /\ todo = {}
  /\ step' = "announceEnd"
  /\ UNCHANGED <<upload, database, progress, bull, job, todo, added, faults>>

(* An attempt that has added nothing is taken for one with a wrong format  *)
(* (totalRecords is not 0: a file that is recognised holds a record).      *)
Outcome == IF added THEN "COMPLETED" ELSE "FAILED"

\* Mutant: the check for no added records is made for the row only.
AnnounceEndUnchecked ==
  /\ step = "announceEnd"
  /\ step' = "recordEnd"
  /\ progress' = [progress EXCEPT ![job] = "COMPLETED"]
  /\ UNCHANGED <<upload, database, bull, job, todo, added, faults>>

AnnounceEnd ==
  /\ step = "announceEnd"
  /\ step' = "recordEnd"
  /\ progress' = [progress EXCEPT ![job] = Outcome]
  /\ UNCHANGED <<upload, database, bull, job, todo, added, faults>>

RecordEnd ==
  /\ step = "recordEnd"
  /\ step' = "return"
  /\ row' = [row EXCEPT ![job] = Outcome]
  /\ UNCHANGED <<upload, aged, stored, progress, bull, job, todo, added, faults>>

LetGo ==
  /\ job' = None
  /\ step' = "idle"
  /\ todo' = {}
  /\ added' = FALSE

(* The attempt returns, also one that has set the row to FAILED.           *)
Return ==
  /\ step = "return"
  /\ queue' = [queue EXCEPT ![job] = "completed"]
  /\ LetGo
  /\ UNCHANGED <<upload, database, progress, failures, stalls, faults>>

(* Errors: inside its try (which holds the first announcement in the basic *)
(* format only) the import sends the status to Redis and then to the row,  *)
(* and processImport writes the row once more; any of these writes may     *)
(* fail too, and the attempt is over in any case.                          *)
AttemptFails ==
  /\ \/ /\ step \in {"announce", "insert", "announceEnd", "recordEnd"}
        /\ step' = "announceFailure"
     \/ /\ step \in {"begin", "announce", "announceFailure", "recordFailure"}
        /\ step' = "mark"
     \/ /\ step = "mark"
        /\ step' = "throw"
  /\ Fault
  /\ todo' = {}
  /\ added' = FALSE
  /\ UNCHANGED <<upload, database, progress, bull, job>>

AnnounceFailure ==
  /\ step = "announceFailure"
  /\ step' = "recordFailure"
  /\ progress' = [progress EXCEPT ![job] = "FAILED"]
  /\ UNCHANGED <<upload, database, bull, job, todo, added, faults>>

RecordFailure ==
  /\ step \in {"recordFailure", "mark"}
  /\ step' = IF step = "mark" THEN "throw" ELSE "mark"
  /\ row' = [row EXCEPT ![job] = "FAILED"]
  /\ UNCHANGED <<upload, aged, stored, progress, bull, job, todo, added, faults>>

Throw ==
  /\ step = "throw"
  /\ failures' = [failures EXCEPT ![job] = @ + 1]
  /\ queue' = [queue EXCEPT ![job] =
                 IF failures[job] + 1 < MaxAttempts THEN "waiting" ELSE "failed"]
  /\ LetGo
  /\ UNCHANGED <<upload, database, progress, stalls, faults>>

-----------------------------------------------------------------------------
(* The environment.                                                        *)

(* A sync job, or another device's import, stores a play first.            *)
OthersStore(r) ==
  /\ r \notin stored
  /\ stored' = stored \union {r}
  /\ UNCHANGED <<upload, row, aged, progress, bull, worker, faults>>

(* The process dies: requests are lost, and the job it worked on keeps its *)
(* lock for up to an hour.                                                 *)
Crash ==
  /\ Fault
  /\ request' = [u \in Upload |->
                   IF request[u] \in {"add", "unqueued"} THEN "error" ELSE request[u]]
  /\ LetGo
  /\ UNCHANGED <<file, readable, database, progress, bull>>

(* The lock has expired: BullMQ gives the job to a worker again, but fails *)
(* one that stalls too often, without a word to the row.                   *)
Recover(u) ==
  /\ queue[u] = "active"
  /\ job # u
  /\ stalls' = [stalls EXCEPT ![u] = @ + 1]
  /\ queue' = [queue EXCEPT ![u] = IF stalls[u] < MaxStalls THEN "waiting" ELSE "failed"]
  /\ UNCHANGED <<upload, database, progress, failures, worker, faults>>

-----------------------------------------------------------------------------
Serve(u) ==
  \/ CreateRow(u) \/ AddJob(u) \/ AddJobFails(u) \/ FailRow(u) \/ FailRowFails(u)

Work ==
  \/ Detect \/ BeginImport \/ Announce \/ \E r \in Record : Insert(r)
  \/ EndOfFile \/ AnnounceEnd \/ RecordEnd \/ Return
  \/ AnnounceFailure \/ RecordFailure \/ Throw

Next ==
  \/ \E u \in Upload : Serve(u) \/ Age(u) \/ Take(u) \/ Recover(u)
  \/ Work \/ AttemptFails
  \/ Cleanup
  \/ \E r \in Record : OthersStore(r)
  \/ Crash

Spec == Init /\ [][Next]_vars

(* The worker goes on, BullMQ notices stalled jobs, time passes, and the   *)
(* cron job comes round.  Requests need not be carried through.            *)
FairSpec ==
  /\ Spec
  /\ WF_vars(Work)
  /\ WF_vars(\E u \in Upload : Take(u))
  /\ WF_vars(Cleanup)
  /\ \A u \in Upload : WF_vars(Recover(u)) /\ WF_vars(Age(u))

-----------------------------------------------------------------------------
(* Properties.                                                             *)

Status == {"PENDING", "PROCESSING", "COMPLETED", "FAILED"}
Ended  == {"COMPLETED", "FAILED"}

TypeOK ==
  /\ file \in [Upload -> SUBSET Record]
  /\ readable \in SUBSET Upload
  /\ request \in [Upload -> {"create", "add", "queued", "unqueued", "error"}]
  /\ row \in [Upload -> Status \union {"none"}]
  /\ aged \in SUBSET Upload
  /\ stored \in SUBSET Record
  /\ progress \in [Upload -> (Status \ {"PENDING"}) \union {"none"}]
  /\ queue \in [Upload -> {"none", "waiting", "active", "completed", "failed"}]
  /\ failures \in [Upload -> 0..MaxAttempts]
  /\ stalls \in [Upload -> Nat]
  /\ job \in Upload \union {None}
  /\ step \in {"idle", "detect", "begin", "announce", "insert", "announceEnd",
               "recordEnd", "return", "announceFailure", "recordFailure", "mark",
               "throw"}
  /\ todo \in SUBSET Record
  /\ added \in BOOLEAN
  /\ faults \in 0..MaxFaults

(* Whoever says that an import is through - the row, the progress the user *)
(* polls, or BullMQ, also for a job whose row says FAILED because its last *)
(* attempt found nothing to add - every play of the file is in the         *)
(* database, whatever failed or stalled on the way.                        *)
DoneMeansStored ==
  \A u \in Upload :
    row[u] = "COMPLETED" \/ progress[u] = "COMPLETED" \/ queue[u] = "completed" =>
      file[u] \subseteq stored

(* When a job is through, the progress in Redis and the row tell the same  *)
(* end, though each is written on its own - unless the upload request,     *)
(* which had no answer from the queue, fails the row behind the worker's   *)
(* back (routes/import.ts 76-87).                                          *)
ProgressAgrees ==
  \A u \in Upload :
    queue[u] = "completed" /\ request[u] = "queued" =>
      row[u] \in Ended /\ progress[u] = row[u]

(* A completed import stays so: neither the cleanup nor a late failure     *)
(* touches it.  It takes a process that dies before BullMQ knows of the    *)
(* end to run the job again (and then to fail it, as nothing is added).    *)
CompletedStays ==
  [][\A u \in Upload :
       row[u] = "COMPLETED" /\ request[u] = "queued" /\ stalls[u] = 0 =>
         row'[u] = "COMPLETED"]_vars

(* No row waits or is in progress for ever, whether its request, its       *)
(* attempts or its process died - but for a job BullMQ has failed, which   *)
(* may have left its row as it was.                                        *)
RowEnds ==
  \A u \in Upload :
    row[u] \in {"PENDING", "PROCESSING"} ~> (row[u] \in Ended \/ queue[u] = "failed")
=============================================================================
