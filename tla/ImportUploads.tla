---------------------------- MODULE ImportUploads ----------------------------
(***************************************************************************)
(* The list of uploads in the window for importing history: files are      *)
(* queued, posted in parallel, told apart by their place in the list, and  *)
(* polled for the status of their import until it has ended.               *)
(*                                                                         *)
(* An import is named by the file it was made from.                        *)
(***************************************************************************)
EXTENDS Naturals, FiniteSets, SequencesExt

CONSTANTS
    Files,
    NoJob,
    MaxFailures      \* bound on requests and attempts that fail, or stall

ASSUME UploadsAssumption == NoJob \notin Files /\ MaxFailures \in Nat

Statuses == {"PENDING", "PROCESSING", "COMPLETED", "FAILED"}
isTerminalStatus(status) == status \in {"COMPLETED", "FAILED"}

VARIABLES
    uploadQueue,   \* files that wait for the button
    baseUploads,   \* the list: file, job and status of each upload
    startedJobIds,
    isUploading,
    batches,       \* posts under way, a sequence of [file, answer] for each click
    poll,          \* the poll under way: what each job has answered
    import,        \* what the server says of each import, and how far it is
    failed

uploadsVars ==
    <<uploadQueue, baseUploads, startedJobIds, isUploading, batches, poll, import, failed>>
listVars == <<uploadQueue, baseUploads, startedJobIds, isUploading>>

Fails == failed < MaxFailures /\ failed' = failed + 1
Listed(f) == \E i \in DOMAIN baseUploads : baseUploads[i].file = f
\* An import: the status its endpoint tells, where its job is, and whether its completion
\* has ever been told.
Made(status, at) == [status |-> status, at |-> at, done |-> FALSE]
NoImport == Made("none", "none")
NoPoll == [j \in {} |-> "waiting"]

\* Jobs that have been confirmed and have not ended, as far as the list knows.
activeJobIds == {j \in startedJobIds : \E i \in DOMAIN baseUploads :
                    baseUploads[i].job = j /\ ~isTerminalStatus(baseUploads[i].status)}

UploadsInit ==
    /\ uploadQueue = <<>> /\ baseUploads = <<>> /\ startedJobIds = {} /\ isUploading = FALSE
    /\ batches = <<>> /\ poll = NoPoll
    /\ import = [f \in Files |-> NoImport]
    /\ failed = 0

-----------------------------------------------------------------------------
\* The window.

addFiles(f) ==
    /\ import[f].status = "none" /\ ~Listed(f) /\ ~Contains(uploadQueue, f)
    /\ uploadQueue' = Append(uploadQueue, f)
    /\ UNCHANGED <<baseUploads, startedJobIds, isUploading, batches, poll, import, failed>>

removeFromQueue(i) ==
    /\ uploadQueue' = RemoveAt(uploadQueue, i)
    /\ UNCHANGED <<baseUploads, startedJobIds, isUploading, batches, poll, import, failed>>

\* Mutant: the button works while files are on their way.
startUploadAgain ==
    /\ uploadQueue # <<>>
    /\ isUploading' = TRUE
    /\ baseUploads' = baseUploads \o
         [i \in DOMAIN uploadQueue |-> [file |-> uploadQueue[i], job |-> NoJob, status |-> "PENDING"]]
    /\ batches' = Append(batches,
         [i \in DOMAIN uploadQueue |-> [file |-> uploadQueue[i], answer |-> "waiting"]])
    /\ uploadQueue' = <<>>
    /\ UNCHANGED <<startedJobIds, poll, import, failed>>

startUpload ==
    /\ uploadQueue # <<>> /\ ~isUploading
    /\ isUploading' = TRUE
    /\ baseUploads' = baseUploads \o
         [i \in DOMAIN uploadQueue |-> [file |-> uploadQueue[i], job |-> NoJob, status |-> "PENDING"]]
    /\ batches' = Append(batches,
         [i \in DOMAIN uploadQueue |-> [file |-> uploadQueue[i], answer |-> "waiting"]])
    /\ uploadQueue' = <<>>
    /\ UNCHANGED <<startedJobIds, poll, import, failed>>

\* The uploads at the places in K, in the order of the list.
Only(K) ==
    [n \in 1 .. Cardinality(K) |->
        baseUploads[CHOOSE i \in K : Cardinality(K \cap (1 .. i)) = n]]

\* The button is there for an upload that has ended, and does nothing without a job.
removeUpload(i) ==
    /\ isTerminalStatus(baseUploads[i].status) /\ baseUploads[i].job # NoJob
    /\ baseUploads' = Only({k \in DOMAIN baseUploads : baseUploads[k].job # baseUploads[i].job})
    /\ startedJobIds' = startedJobIds \ {baseUploads[i].job}
    /\ UNCHANGED <<uploadQueue, isUploading, batches, poll, import, failed>>

clearCompleted ==
    /\ \E i \in DOMAIN baseUploads : isTerminalStatus(baseUploads[i].status)
    /\ baseUploads' = Only({k \in DOMAIN baseUploads : ~isTerminalStatus(baseUploads[k].status)})
    /\ UNCHANGED <<uploadQueue, startedJobIds, isUploading, batches, poll, import, failed>>

\* Mutant: only imports that are known to run keep the list.
handleCloseWhileUploading ==
    /\ activeJobIds = {}
    /\ uploadQueue' = <<>> /\ baseUploads' = <<>> /\ startedJobIds' = {}
    /\ UNCHANGED <<isUploading, batches, poll, import, failed>>

\* Closing resets the list unless something is under way; then it only hides it.
handleClose ==
    /\ activeJobIds = {} /\ ~isUploading
    /\ uploadQueue' = <<>> /\ baseUploads' = <<>> /\ startedJobIds' = {}
    /\ UNCHANGED <<isUploading, batches, poll, import, failed>>

-----------------------------------------------------------------------------
\* The posts of a batch, answered in any order, and all of them together.

Answers(b, i, answer) == batches' = [batches EXCEPT ![b][i].answer = answer]

\* Row, job and answer; or an error, which may leave a row, pending or failed, and a
\* job in the queue.  The window never asks for an import it got an error for.
Post(b, i) ==
    LET f == batches[b][i].file IN
    /\ batches[b][i].answer = "waiting"
    /\ \/ /\ import' = [import EXCEPT ![f] = Made("PENDING", "waiting")]
          /\ Answers(b, i, "job")
          /\ UNCHANGED failed
       \/ /\ Fails
          /\ \/ UNCHANGED import
             \/ \E status \in {"PENDING", "FAILED"}, at \in {"none", "waiting"} :
                   import' = [import EXCEPT ![f] = Made(status, at)]
          /\ Answers(b, i, "error")
    /\ UNCHANGED <<listVars, poll>>

Result(u, r) == IF r.answer = "job" THEN [u EXCEPT !.job = r.file, !.status = "PROCESSING"]
                ELSE [u EXCEPT !.status = "FAILED"]

\* Mutant: places are counted from the front.
PlacedInFront(batch) ==
    [i \in DOMAIN baseUploads |->
       IF i \in DOMAIN batch THEN Result(baseUploads[i], batch[i]) ELSE baseUploads[i]]

\* A batch's results, each at its place counted from the end of the list.
Placed(batch) ==
    LET start == Len(baseUploads) - Len(batch) IN
    [i \in DOMAIN baseUploads |->
       IF i > start THEN Result(baseUploads[i], batch[i - start]) ELSE baseUploads[i]]

JobsOf(batch) == {batch[i].file : i \in {k \in DOMAIN batch : batch[k].answer = "job"}}

\* Mutant: the new jobs are not polled.
BatchDoneForgetsJobs(b) ==
    /\ \A i \in DOMAIN batches[b] : batches[b][i].answer # "waiting"
    /\ baseUploads' = Placed(batches[b])
    /\ isUploading' = FALSE
    /\ batches' = RemoveAt(batches, b)
    /\ UNCHANGED <<uploadQueue, startedJobIds, poll, import, failed>>

BatchDone(b) ==
    /\ \A i \in DOMAIN batches[b] : batches[b][i].answer # "waiting"
    /\ baseUploads' = Placed(batches[b])
    /\ startedJobIds' = startedJobIds \cup JobsOf(batches[b])
    /\ isUploading' = FALSE
    /\ batches' = RemoveAt(batches, b)
    /\ UNCHANGED <<uploadQueue, poll, import, failed>>

-----------------------------------------------------------------------------
\* The poll.  A change of the jobs that are active begins another.

Poll ==
    /\ activeJobIds # {} /\ DOMAIN poll # activeJobIds
    /\ poll' = [j \in activeJobIds |-> "waiting"]
    /\ UNCHANGED <<listVars, batches, import, failed>>

\* An answer that fails for any reason counts as a failed import.
PollAnswer(j) ==
    /\ poll[j] = "waiting"
    /\ \/ poll' = [poll EXCEPT ![j] = import[j].status] /\ UNCHANGED failed
       \/ Fails /\ poll' = [poll EXCEPT ![j] = "FAILED"]
    /\ UNCHANGED <<listVars, batches, import>>

\* Only the ends of imports are written to the list; the answers to a poll for other
\* jobs than those that are active by now are dropped.
handleStatusUpdate ==
    /\ DOMAIN poll # {} /\ \A j \in DOMAIN poll : poll[j] # "waiting"
    /\ poll' = NoPoll
    /\ baseUploads' =
         IF DOMAIN poll # activeJobIds THEN baseUploads
         ELSE [i \in DOMAIN baseUploads |->
                 LET u == baseUploads[i] IN
                 IF u.job \in DOMAIN poll /\ isTerminalStatus(poll[u.job])
                 THEN [u EXCEPT !.status = poll[u.job]] ELSE u]
    /\ UNCHANGED <<uploadQueue, startedJobIds, isUploading, batches, import, failed>>

-----------------------------------------------------------------------------
\* The import, as its status tells; module ImportJobs has it in detail.  The status is
\* the progress in Redis and, without one, the row.

Imports(f, new) == import' = [import EXCEPT ![f] = new] /\ UNCHANGED <<listVars, batches, poll>>

\* An attempt begins, tells an end - FAILED when it has added nothing - and returns.
ImportGoesOn(f) ==
    LET m == import[f] IN
    /\ \/ m.at = "waiting" /\ Imports(f, [m EXCEPT !.at = "active", !.status = "PROCESSING"])
       \/ /\ m.at = "active"
          /\ \/ Imports(f, [m EXCEPT !.at = "ending", !.status = "COMPLETED", !.done = TRUE])
             \/ Imports(f, [m EXCEPT !.at = "ending", !.status = "FAILED"])
       \/ m.at = "ending" /\ Imports(f, [m EXCEPT !.at = "over"])
    /\ UNCHANGED failed

\* An attempt fails, before it has begun or even after it has told its end, and says so
\* unless that fails too; or it stalls, and nothing is said.  BullMQ gives the job out
\* again, or gives it up.
ImportFails(f) ==
    LET m == import[f] IN
    /\ m.at \in {"waiting", "active", "ending"}
    /\ Fails
    /\ \E status \in {"FAILED", m.status}, at \in {"waiting", "failed"} :
         Imports(f, [m EXCEPT !.status = status, !.at = at])

\* The cron job fails a row that stays pending.
CleanedUp(f) ==
    /\ import[f].status = "PENDING" /\ Imports(f, [import[f] EXCEPT !.status = "FAILED"])
    /\ UNCHANGED failed

Window == \/ \E f \in Files : addFiles(f)
          \/ \E i \in DOMAIN uploadQueue : removeFromQueue(i)
          \/ \E i \in DOMAIN baseUploads : removeUpload(i)
          \/ startUpload \/ clearCompleted \/ handleClose
Posts == \E b \in DOMAIN batches : BatchDone(b) \/ \E i \in DOMAIN batches[b] : Post(b, i)
Polling == Poll \/ handleStatusUpdate \/ \E j \in DOMAIN poll : PollAnswer(j)

UploadsNext == \/ Window \/ Posts \/ Polling
               \/ \E f \in Files : ImportGoesOn(f) \/ ImportFails(f) \/ CleanedUp(f)

UploadsSpec == UploadsInit /\ [][UploadsNext]_uploadsVars

\* Requests are answered or fail, the poll repeats, the import goes on while it has a
\* job in the queue, and the cron job comes round.
FairUploadsSpec ==
    /\ UploadsSpec /\ WF_uploadsVars(Posts) /\ WF_uploadsVars(Polling)
    /\ \A f \in Files : WF_uploadsVars(ImportGoesOn(f)) /\ WF_uploadsVars(CleanedUp(f))

-----------------------------------------------------------------------------
\* Every variable has its type; the window has one batch under way while it is
\* uploading, and none otherwise (use-import.ts:151, 231).
UploadsTypeOK ==
    /\ uploadQueue \in Seq(Files)
    /\ baseUploads \in Seq([file : Files, job : Files \cup {NoJob}, status : Statuses])
    /\ startedJobIds \subseteq Files
    /\ isUploading \in BOOLEAN
    /\ batches \in Seq(Seq([file : Files, answer : {"waiting", "job", "error"}]))
    /\ Len(batches) = IF isUploading THEN 1 ELSE 0
    /\ \E S \in SUBSET Files : poll \in [S -> {"waiting"} \cup Statuses]
    /\ import \in [Files -> [status : {"none"} \cup Statuses,
                             at : {"none", "waiting", "active", "ending", "over", "failed"},
                             done : BOOLEAN]]
    /\ failed \in 0 .. MaxFailures

\* An upload never gets the import of another file, or its end, whatever is removed
\* from the list while the files are on their way (use-import.ts:193): one that is shown
\* as completed has an import that has been told completed - which a failure behind
\* it, or a second run after a stall, may yet take back (services/import.ts:133-147).
JobsMatchFiles ==
    \A i \in DOMAIN baseUploads :
        LET u == baseUploads[i] IN
        /\ u.job \in {NoJob, u.file}
        /\ u.status = "COMPLETED" => import[u.file].done

\* Neither closing nor clearing the list takes an upload out of it that has not ended
\* (ImportHistoryModal.tsx:366, use-import.ts:238).
UnendedStays ==
    [][\A i \in DOMAIN baseUploads :
          ~isTerminalStatus(baseUploads[i].status) =>
              \E k \in DOMAIN baseUploads' : baseUploads'[k].file = baseUploads[i].file]_uploadsVars

\* BullMQ has given up the job of an import that is told to be in progress.
Abandoned(f) == import[f].at = "failed" /\ import[f].status = "PROCESSING"

\* No upload is shown as running for ever: when nobody takes it from the list it is
\* shown to have ended (use-import.ts:41, 57) - unless its job was failed by BullMQ
\* behind a row that says PROCESSING (import-worker.ts:188 only logs).
UploadsSettle ==
    \A f \in Files :
        (\E i \in DOMAIN baseUploads :
            baseUploads[i].file = f /\ ~isTerminalStatus(baseUploads[i].status))
        ~> \/ \A i \in DOMAIN baseUploads :
                baseUploads[i].file = f => isTerminalStatus(baseUploads[i].status)
           \/ Abandoned(f)

=============================================================================
