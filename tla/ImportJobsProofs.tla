-------------------------- MODULE ImportJobsProofs --------------------------
(***************************************************************************)
(* What ImportJobs guarantees for any number of uploads, plays, attempts   *)
(* and failures, and what ImportUploads, the browser's side of an import,  *)
(* guarantees for any number of files.                                     *)
(*                                                                         *)
(* The argument for ImportJobs: the job the worker holds is the active one (Held), so the *)
(* worker's position says what is stored of its file (Reading), that the   *)
(* progress is ahead of the row by one write at most (Announced), and that *)
(* a completed row belongs to a job that only has to return (Through).     *)
(*                                                                         *)
(* The argument for ImportUploads: the posts under way are those of the    *)
(* last uploads of the list (PostsInv), which only lose uploads in front   *)
(* of them since those of a post have not ended; so a result addressed     *)
(* from the end of the list finds its own upload.  UploadsInv has the rest.*)
(***************************************************************************)
EXTENDS ImportJobs, ImportUploads, FiniteSetTheorems, SequenceTheorems, TLAPS

USE DEF vars, upload, database, bull, worker

(* The worker and the queue agree on the job, a request that has not       *)
(* reached the queue has left no trace in it, and only a job that still    *)
(* has an attempt is in the queue.                                         *)
Held ==
  /\ step = "idle" <=> job = None
  /\ job # None => queue[job] = "active"
  /\ \A u \in Upload :
       request[u] \in {"create", "add"} => queue[u] = "none" /\ row[u] # "COMPLETED"
  /\ \A u \in Upload :
       queue[u] \notin {"completed", "failed"} => failures[u] < MaxAttempts

(* The worker's file is stored but for what it has still to insert.        *)
Reading ==
  /\ DoneMeansStored
  /\ step \in {"announce", "insert"} => file[job] \ todo \subseteq stored
  /\ step \in {"announceEnd", "recordEnd", "return"} => file[job] \subseteq stored

(* The end the worker announces is the one it records.                     *)
Announced ==
  /\ ProgressAgrees
  /\ step \in {"recordEnd", "return"} => progress[job] = Outcome
  /\ step = "return" /\ request[job] = "queued" => row[job] = Outcome

(* The job of a completed row is about to return, or has.                  *)
Through ==
  \A u \in Upload :
    row[u] = "COMPLETED" /\ request[u] = "queued" /\ stalls[u] = 0 =>
      queue[u] \in {"active", "completed"} /\ (job = u => step = "return")

-----------------------------------------------------------------------------
(* Type correctness.                                                       *)

TypeInv == TypeOK /\ Held

LEMMA TypeInit == Init => TypeInv
<1> SUFFICES ASSUME Init PROVE TypeInv
  OBVIOUS
<1> USE ImportAssumption DEF Init
<1>1. /\ file \in [Upload -> SUBSET Record] /\ readable \in SUBSET Upload
      /\ request \in [Upload -> {"create", "add", "queued", "unqueued", "error"}]
      /\ row \in [Upload -> Status \union {"none"}]
      /\ aged \in SUBSET Upload /\ stored \in SUBSET Record
  OBVIOUS
<1>2. /\ progress \in [Upload -> (Status \ {"PENDING"}) \union {"none"}]
      /\ queue \in [Upload -> {"none", "waiting", "active", "completed", "failed"}]
      /\ failures \in [Upload -> 0..MaxAttempts] /\ stalls \in [Upload -> Nat]
      /\ faults \in 0..MaxFaults
  OBVIOUS
<1>3. Held
  BY DEF Held
<1>4. QED
  BY <1>1, <1>2, <1>3 DEF TypeInv, TypeOK

LEMMA TypeQueue ==
  ASSUME TypeInv, NEW u \in Upload,
         Serve(u) \/ Age(u) \/ Take(u) \/ Recover(u)
  PROVE  TypeInv'
<1> USE ImportAssumption DEF TypeInv, TypeOK, Held, Status
<1>1. CASE CreateRow(u)
  BY <1>1 DEF CreateRow
<1>2. CASE AddJob(u)
  BY <1>2 DEF AddJob
<1>3. CASE AddJobFails(u)
  BY <1>3 DEF AddJobFails, Fault
<1>4. CASE FailRow(u)
  BY <1>4 DEF FailRow
<1>5. CASE FailRowFails(u)
  BY <1>5 DEF FailRowFails, Fault
<1>6. CASE Age(u)
  BY <1>6 DEF Age
<1>7. CASE Take(u)
  BY <1>7 DEF Take
<1>8. CASE Recover(u)
  BY <1>8 DEF Recover
<1>9. QED
  BY <1>1, <1>2, <1>3, <1>4, <1>5, <1>6, <1>7, <1>8 DEF Serve

LEMMA TypeWork ==
  ASSUME TypeInv, Work \/ AttemptFails
  PROVE  TypeInv'
<1> USE ImportAssumption DEF TypeInv, TypeOK, Held, Status
<1>1. CASE Detect
  BY <1>1 DEF Detect
<1>2. CASE BeginImport
  BY <1>2 DEF BeginImport
<1>3. CASE Announce
  BY <1>3 DEF Announce
<1>4. ASSUME NEW r \in Record, Insert(r) PROVE TypeInv'
  BY <1>4 DEF Insert
<1>5. CASE EndOfFile
  BY <1>5 DEF EndOfFile
<1>6. CASE AnnounceEnd
  BY <1>6 DEF AnnounceEnd, Outcome
<1>7. CASE RecordEnd
  BY <1>7 DEF RecordEnd, Outcome
<1>8. CASE Return
  BY <1>8 DEF Return, LetGo
<1>9. CASE AnnounceFailure
  BY <1>9 DEF AnnounceFailure
<1>10. CASE RecordFailure
  BY <1>10 DEF RecordFailure
<1>11. CASE Throw
  <2>1. /\ job \in Upload
        /\ failures[job] \in Nat
        /\ failures[job] < MaxAttempts
    BY <1>11 DEF Throw
  <2>2. /\ failures[job] + 1 \in 0..MaxAttempts
        /\ failures[job] + 1 < MaxAttempts \/ queue'[job] = "failed"
    BY <1>11, <2>1 DEF Throw
  <2>3. TypeOK'
    BY <1>11, <2>1, <2>2 DEF Throw, LetGo
  <2>4. Held'
    BY <1>11, <2>1, <2>2 DEF Throw, LetGo
  <2>5. QED
    BY <2>3, <2>4 DEF TypeInv
<1>12. CASE AttemptFails
  <2>1. /\ step # "idle"
        /\ step' \in {"announceFailure", "mark", "throw"}
    BY <1>12 DEF AttemptFails
  <2>2. faults' \in 0..MaxFaults
    BY <1>12 DEF AttemptFails, Fault
  <2>3. QED
    BY <1>12, <2>1, <2>2 DEF AttemptFails
<1> HIDE DEF TypeInv, TypeOK, Held
<1>13. QED
  BY <1>1, <1>2, <1>3, <1>4, <1>5, <1>6, <1>7, <1>8, <1>9, <1>10, <1>11, <1>12 DEF Work

LEMMA TypeEnvironment ==
  ASSUME TypeInv, Cleanup \/ (\E r \in Record : OthersStore(r)) \/ Crash
  PROVE  TypeInv'
<1> USE ImportAssumption DEF TypeInv, TypeOK, Held, Status
<1>1. CASE Cleanup
  BY <1>1 DEF Cleanup, Stale
<1>2. ASSUME NEW r \in Record, OthersStore(r) PROVE TypeInv'
  BY <1>2 DEF OthersStore
<1>3. CASE Crash
  <2>1. /\ request' \in [Upload -> {"create", "add", "queued", "unqueued", "error"}]
        /\ \A u \in Upload : request'[u] \in {"create", "add"} =>
             request[u] \in {"create", "add"}
    BY <1>3 DEF Crash
  <2>2. faults' \in 0..MaxFaults
    BY <1>3 DEF Crash, Fault
  <2>3. QED
    BY <1>3, <2>1, <2>2 DEF Crash, LetGo
<1>4. QED
  BY <1>1, <1>2, <1>3

LEMMA TypeInvNext == TypeInv /\ [Next]_vars => TypeInv'
<1>1. ASSUME TypeInv, UNCHANGED vars PROVE TypeInv'
  BY <1>1 DEF TypeInv, TypeOK, Held
<1>2. QED
  BY <1>1, TypeQueue, TypeWork, TypeEnvironment DEF Next

LEMMA TypeInvCorrect == Spec => []TypeInv
  BY TypeInit, TypeInvNext, PTL DEF Spec

(* Every variable keeps its type.                                          *)
THEOREM TypeCorrect == Spec => []TypeOK
<1>1. TypeInv => TypeOK
  BY DEF TypeInv
<1>2. QED
  BY <1>1, TypeInvCorrect, PTL

-----------------------------------------------------------------------------
(* Nothing is left out.                                                    *)

LEMMA StoredQueue ==
  ASSUME TypeInv, Reading, NEW u \in Upload,
         Serve(u) \/ Age(u) \/ Take(u) \/ Recover(u)
  PROVE  Reading'
<1> USE ImportAssumption DEF TypeInv, TypeOK, Held, Reading, DoneMeansStored
<1>1. CASE CreateRow(u)
  BY <1>1 DEF CreateRow
<1>2. CASE AddJob(u)
  BY <1>2 DEF AddJob
<1>3. CASE AddJobFails(u)
  BY <1>3 DEF AddJobFails, Fault
<1>4. CASE FailRow(u)
  BY <1>4 DEF FailRow
<1>5. CASE FailRowFails(u)
  BY <1>5 DEF FailRowFails, Fault
<1>6. CASE Age(u)
  BY <1>6 DEF Age
<1>7. CASE Take(u)
  BY <1>7 DEF Take
<1>8. CASE Recover(u)
  BY <1>8 DEF Recover
<1>9. QED
  BY <1>1, <1>2, <1>3, <1>4, <1>5, <1>6, <1>7, <1>8 DEF Serve

LEMMA StoredWork ==
  ASSUME TypeInv, Reading, Work \/ AttemptFails
  PROVE  Reading'
<1> USE ImportAssumption DEF TypeInv, TypeOK, Held, Reading, DoneMeansStored
<1>1. CASE Detect
  BY <1>1 DEF Detect
<1>2. CASE BeginImport
  BY <1>2 DEF BeginImport
<1>3. CASE Announce
  BY <1>3 DEF Announce
<1>4. ASSUME NEW r \in Record, Insert(r) PROVE Reading'
  <2>1. stored \subseteq stored' /\ UNCHANGED <<file, row, progress, queue, job, step>>
    BY <1>4 DEF Insert
  <2>2. ASSUME NEW u \in Upload,
               row'[u] = "COMPLETED" \/ progress'[u] = "COMPLETED"
                 \/ queue'[u] = "completed"
        PROVE  file'[u] \subseteq stored'
    <3>1. file[u] \subseteq stored
      BY <2>1, <2>2
    <3>2. QED
      BY <2>1, <3>1
  <2>3. step = "insert" /\ file[job] \ todo' \subseteq stored'
    BY <1>4 DEF Insert
  <2>4. QED
    BY <2>1, <2>2, <2>3 DEF Reading
<1>5. CASE EndOfFile
  BY <1>5 DEF EndOfFile
<1>6. CASE AnnounceEnd
  BY <1>6 DEF AnnounceEnd, Outcome
<1>7. CASE RecordEnd
  BY <1>7 DEF RecordEnd, Outcome
<1>8. CASE Return
  BY <1>8 DEF Return, LetGo
<1>9. CASE AnnounceFailure
  BY <1>9 DEF AnnounceFailure
<1>10. CASE RecordFailure
  BY <1>10 DEF RecordFailure
<1>11. CASE Throw
  BY <1>11 DEF Throw, LetGo
<1>12. CASE AttemptFails
  BY <1>12 DEF AttemptFails, Fault
<1>13. QED
  BY <1>1, <1>2, <1>3, <1>4, <1>5, <1>6, <1>7, <1>8, <1>9, <1>10, <1>11, <1>12 DEF Work

LEMMA StoredEnvironment ==
  ASSUME TypeInv, Reading,
         Cleanup \/ (\E r \in Record : OthersStore(r)) \/ Crash
  PROVE  Reading'
<1> USE ImportAssumption DEF TypeInv, TypeOK, Held, Reading, DoneMeansStored
<1>1. CASE Cleanup
  BY <1>1 DEF Cleanup, Stale
<1>2. ASSUME NEW r \in Record, OthersStore(r) PROVE Reading'
  BY <1>2 DEF OthersStore
<1>3. CASE Crash
  BY <1>3 DEF Crash, Fault, LetGo
<1>4. QED
  BY <1>1, <1>2, <1>3

LEMMA ReadingNext == TypeInv /\ Reading /\ [Next]_vars => Reading'
<1>1. ASSUME Reading, UNCHANGED vars PROVE Reading'
  BY <1>1 DEF Reading, DoneMeansStored
<1>2. QED
  BY <1>1, StoredQueue, StoredWork, StoredEnvironment DEF Next

(* Whoever says an import is through, all of its file is stored.           *)
THEOREM DoneMeansStoredCorrect == Spec => []DoneMeansStored
<1>1. Init => Reading
  BY DEF Init, Reading, DoneMeansStored
<1>2. Reading => DoneMeansStored
  BY DEF Reading
<1>3. QED
  BY <1>1, <1>2, TypeInvCorrect, ReadingNext, PTL DEF Spec

-----------------------------------------------------------------------------
(* Progress and row.                                                       *)

LEMMA ToldQueue ==
  ASSUME TypeInv, Announced, NEW u \in Upload,
         Serve(u) \/ Age(u) \/ Take(u) \/ Recover(u)
  PROVE  Announced'
<1> USE ImportAssumption DEF TypeInv, TypeOK, Held, Announced, ProgressAgrees, Ended,
              Outcome
<1>1. CASE CreateRow(u)
  BY <1>1 DEF CreateRow
<1>2. CASE AddJob(u)
  BY <1>2 DEF AddJob
<1>3. CASE AddJobFails(u)
  BY <1>3 DEF AddJobFails, Fault
<1>4. CASE FailRow(u)
  BY <1>4 DEF FailRow
<1>5. CASE FailRowFails(u)
  BY <1>5 DEF FailRowFails, Fault
<1>6. CASE Age(u)
  BY <1>6 DEF Age
<1>7. CASE Take(u)
  BY <1>7 DEF Take
<1>8. CASE Recover(u)
  BY <1>8 DEF Recover
<1>9. QED
  BY <1>1, <1>2, <1>3, <1>4, <1>5, <1>6, <1>7, <1>8 DEF Serve

LEMMA ToldWork ==
  ASSUME TypeInv, Announced, Work \/ AttemptFails
  PROVE  Announced'
<1> USE ImportAssumption DEF TypeInv, TypeOK, Held, Announced, ProgressAgrees, Ended,
              Outcome
<1>1. CASE Detect
  BY <1>1 DEF Detect
<1>2. CASE BeginImport
  BY <1>2 DEF BeginImport
<1>3. CASE Announce
  BY <1>3 DEF Announce
<1>4. ASSUME NEW r \in Record, Insert(r) PROVE Announced'
  BY <1>4 DEF Insert
<1>5. CASE EndOfFile
  BY <1>5 DEF EndOfFile
<1>6. CASE AnnounceEnd
  BY <1>6 DEF AnnounceEnd, Outcome
<1>7. CASE RecordEnd
  BY <1>7 DEF RecordEnd, Outcome
<1>8. CASE Return
  BY <1>8 DEF Return, LetGo
<1>9. CASE AnnounceFailure
  BY <1>9 DEF AnnounceFailure
<1>10. CASE RecordFailure
  BY <1>10 DEF RecordFailure
<1>11. CASE Throw
  BY <1>11 DEF Throw, LetGo
<1>12. CASE AttemptFails
  BY <1>12 DEF AttemptFails, Fault
<1>13. QED
  BY <1>1, <1>2, <1>3, <1>4, <1>5, <1>6, <1>7, <1>8, <1>9, <1>10, <1>11, <1>12 DEF Work

LEMMA ToldEnvironment ==
  ASSUME TypeInv, Announced,
         Cleanup \/ (\E r \in Record : OthersStore(r)) \/ Crash
  PROVE  Announced'
<1> USE ImportAssumption DEF TypeInv, TypeOK, Held, Announced, ProgressAgrees, Ended,
              Outcome
<1>1. CASE Cleanup
  BY <1>1 DEF Cleanup, Stale
<1>2. ASSUME NEW r \in Record, OthersStore(r) PROVE Announced'
  BY <1>2 DEF OthersStore
<1>3. CASE Crash
  BY <1>3 DEF Crash, Fault, LetGo
<1>4. QED
  BY <1>1, <1>2, <1>3

LEMMA AnnouncedNext == TypeInv /\ Announced /\ [Next]_vars => Announced'
<1>1. ASSUME Announced, UNCHANGED vars PROVE Announced'
  BY <1>1 DEF Announced, ProgressAgrees, Outcome
<1>2. QED
  BY <1>1, ToldQueue, ToldWork, ToldEnvironment DEF Next

(* When a job is through, progress and row tell the same end.              *)
THEOREM ProgressAgreesCorrect == Spec => []ProgressAgrees
<1>1. Init => Announced
  BY DEF Init, Announced, ProgressAgrees
<1>2. Announced => ProgressAgrees
  BY DEF Announced
<1>3. QED
  BY <1>1, <1>2, TypeInvCorrect, AnnouncedNext, PTL DEF Spec

-----------------------------------------------------------------------------
(* Completed imports.                                                      *)

LEMMA KeptQueue ==
  ASSUME TypeInv, Through, NEW u \in Upload,
         Serve(u) \/ Age(u) \/ Take(u) \/ Recover(u)
  PROVE  Through'
<1> USE ImportAssumption DEF TypeInv, TypeOK, Held, Through
<1>1. CASE CreateRow(u)
  BY <1>1 DEF CreateRow
<1>2. CASE AddJob(u)
  BY <1>2 DEF AddJob
<1>3. CASE AddJobFails(u)
  BY <1>3 DEF AddJobFails, Fault
<1>4. CASE FailRow(u)
  BY <1>4 DEF FailRow
<1>5. CASE FailRowFails(u)
  BY <1>5 DEF FailRowFails, Fault
<1>6. CASE Age(u)
  BY <1>6 DEF Age
<1>7. CASE Take(u)
  BY <1>7 DEF Take
<1>8. CASE Recover(u)
  BY <1>8 DEF Recover
<1>9. QED
  BY <1>1, <1>2, <1>3, <1>4, <1>5, <1>6, <1>7, <1>8 DEF Serve

LEMMA KeptWork ==
  ASSUME TypeInv, Through, Work \/ AttemptFails
  PROVE  Through'
<1> USE ImportAssumption DEF TypeInv, TypeOK, Held, Through
<1>1. CASE Detect
  BY <1>1 DEF Detect
<1>2. CASE BeginImport
  BY <1>2 DEF BeginImport
<1>3. CASE Announce
  BY <1>3 DEF Announce
<1>4. ASSUME NEW r \in Record, Insert(r) PROVE Through'
  BY <1>4 DEF Insert
<1>5. CASE EndOfFile
  BY <1>5 DEF EndOfFile
<1>6. CASE AnnounceEnd
  BY <1>6 DEF AnnounceEnd, Outcome
<1>7. CASE RecordEnd
  BY <1>7 DEF RecordEnd, Outcome
<1>8. CASE Return
  BY <1>8 DEF Return, LetGo
<1>9. CASE AnnounceFailure
  BY <1>9 DEF AnnounceFailure
<1>10. CASE RecordFailure
  BY <1>10 DEF RecordFailure
<1>11. CASE Throw
  BY <1>11 DEF Throw, LetGo
<1>12. CASE AttemptFails
  BY <1>12 DEF AttemptFails, Fault
<1>13. QED
  BY <1>1, <1>2, <1>3, <1>4, <1>5, <1>6, <1>7, <1>8, <1>9, <1>10, <1>11, <1>12 DEF Work

LEMMA KeptEnvironment ==
  ASSUME TypeInv, Through,
         Cleanup \/ (\E r \in Record : OthersStore(r)) \/ Crash
  PROVE  Through'
<1> USE ImportAssumption DEF TypeInv, TypeOK, Held, Through
<1>1. CASE Cleanup
  BY <1>1 DEF Cleanup, Stale
<1>2. ASSUME NEW r \in Record, OthersStore(r) PROVE Through'
  BY <1>2 DEF OthersStore
<1>3. CASE Crash
  BY <1>3 DEF Crash, Fault, LetGo
<1>4. QED
  BY <1>1, <1>2, <1>3

LEMMA ThroughNext == TypeInv /\ Through /\ [Next]_vars => Through'
<1>1. ASSUME Through, UNCHANGED vars PROVE Through'
  BY <1>1 DEF Through
<1>2. QED
  BY <1>1, KeptQueue, KeptWork, KeptEnvironment DEF Next

(* Only a process that dies before BullMQ knows of the end of an import    *)
(* makes a completed one be anything else.                                 *)
THEOREM CompletedStaysCorrect == Spec => CompletedStays
<1>1. Init => Through
  BY DEF Init, Through
<1>2. ASSUME TypeInv, Through, [Next]_vars, NEW u \in Upload,
             row[u] = "COMPLETED", request[u] = "queued", stalls[u] = 0
      PROVE  row'[u] = "COMPLETED"
  <2>1. job = u => step = "return"
    BY <1>2 DEF Through
  <2>2. CASE UNCHANGED row
    BY <1>2, <2>2
  <2>3. ASSUME NEW v \in Upload, CreateRow(v) \/ FailRow(v) PROVE row'[u] = row[u]
    BY <1>2, <2>3 DEF CreateRow, FailRow, TypeInv, TypeOK
  <2>4. CASE Cleanup
    BY <1>2, <2>4 DEF Cleanup, Stale, TypeInv, TypeOK
  <2>5. CASE BeginImport \/ RecordEnd \/ RecordFailure
    BY <1>2, <2>1, <2>5 DEF BeginImport, RecordEnd, RecordFailure, TypeInv, TypeOK
  <2>6. QED
    BY <1>2, <2>2, <2>3, <2>4, <2>5
    DEF Next, Serve, Work, AddJob, AddJobFails, FailRowFails, Age, Take, Recover,
        Detect, Announce, Insert, EndOfFile, AnnounceEnd, Return, AnnounceFailure,
        Throw, AttemptFails, OthersStore, Crash
<1>3. TypeInv /\ Through /\ [Next]_vars =>
        [\A u \in Upload :
           row[u] = "COMPLETED" /\ request[u] = "queued" /\ stalls[u] = 0 =>
             row'[u] = "COMPLETED"]_vars
  BY <1>2
<1>4. QED
  BY <1>1, <1>3, TypeInvCorrect, ThroughNext, PTL DEF Spec, CompletedStays

-----------------------------------------------------------------------------
(* The list of uploads in the window: what is left of it when some are     *)
(* taken out.                                                              *)

\* How many of the places in K are among the first i, and the place of the n-th.
Rank(K, i) == Cardinality(K \cap (1 .. i))
Place(K, n) == CHOOSE i \in K : Rank(K, i) = n

LEMMA Ranks ==
  ASSUME NEW m \in Nat, NEW K \in SUBSET (1 .. m)
  PROVE  /\ IsFiniteSet(K) /\ Cardinality(K) \in Nat
         /\ \A i \in K : Rank(K, i) \in 1 .. Cardinality(K)
         /\ \A i, k \in K : i < k => Rank(K, i) < Rank(K, k)
<1>1. IsFiniteSet(K) /\ Cardinality(K) \in Nat
  <2>1. IsFiniteSet(1 .. m)
    BY FS_Interval
  <2>2. IsFiniteSet(K)
    BY <2>1, FS_Subset
  <2>3. QED
    BY <2>2, FS_CardinalityType
<1>2. \A i : /\ IsFiniteSet(K \cap (1 .. i)) /\ Rank(K, i) \in Nat
             /\ Rank(K, i) <= Cardinality(K)
  BY <1>1, FS_Intersection, FS_CardinalityType DEF Rank
<1>3. ASSUME NEW i \in K PROVE Rank(K, i) # 0
  <2>1. i \in K \cap (1 .. i)
    OBVIOUS
  <2>2. QED
    BY <2>1, <1>2, FS_EmptySet DEF Rank
<1>4. ASSUME NEW i \in K, NEW k \in K, i < k PROVE Rank(K, i) < Rank(K, k)
  <2>1. K \cap (1 .. i) \in SUBSET (K \cap (1 .. k))
    BY <1>4
  <2>2. k \in K \cap (1 .. k) /\ k \notin K \cap (1 .. i)
    BY <1>4
  <2>3. IsFiniteSet(K \cap (1 .. k))
    BY <1>2
  <2>4. /\ Cardinality(K \cap (1 .. i)) <= Cardinality(K \cap (1 .. k))
        /\ Cardinality(K \cap (1 .. k)) = Cardinality(K \cap (1 .. i)) =>
             K \cap (1 .. k) = K \cap (1 .. i)
    BY <2>1, <2>3, FS_Subset
  <2>5. Rank(K, i) # Rank(K, k)
    BY <2>2, <2>4 DEF Rank
  <2>6. QED
    <3>1. Rank(K, i) <= Rank(K, k)
      BY <2>4 DEF Rank
    <3>2. Rank(K, i) \in Nat /\ Rank(K, k) \in Nat
      BY <1>2
    <3>3. QED
      BY <2>5, <3>1, <3>2
<1>5. ASSUME NEW i \in K PROVE Rank(K, i) \in 1 .. Cardinality(K)
  <2>1. Rank(K, i) \in Nat /\ Rank(K, i) <= Cardinality(K)
    BY <1>2
  <2>2. Rank(K, i) # 0
    BY <1>3
  <2>3. QED
    BY <1>1, <2>1, <2>2
<1>6. QED
  BY <1>1, <1>4, <1>5

\* Every rank up to their number is the rank of one of the places.
LEMMA Places ==
  ASSUME NEW m \in Nat, NEW K \in SUBSET (1 .. m)
  PROVE  /\ \A n \in 1 .. Cardinality(K) : Place(K, n) \in K /\ Rank(K, Place(K, n)) = n
         /\ \A i \in K : Place(K, Rank(K, i)) = i
<1> DEFINE N == Cardinality(K)
           rank == [i \in K |-> Rank(K, i)]
<1>1. IsFiniteSet(K) /\ N \in Nat
  BY Ranks
<1>2. \A i, k \in K : i # k => Rank(K, i) # Rank(K, k)
  <2>1. \A i, k \in K : i < k => Rank(K, i) < Rank(K, k)
    BY Ranks
  <2>2. \A i \in K : i \in Nat /\ Rank(K, i) \in Nat
    BY <1>1, Ranks
  <2>3. QED
    BY <2>1, <2>2
<1>3. rank \in Injection(K, 1 .. N)
  <2>1. rank \in [K -> 1 .. N]
    BY Ranks
  <2>2. QED
    <3>1. \A i, k \in K : rank[i] = rank[k] => i = k
      BY <1>2
    <3> HIDE DEF rank
    <3>2. QED
      BY <2>1, <3>1 DEF Injection, IsInjective
<1>4. IsFiniteSet(1 .. N) /\ Cardinality(1 .. N) = N
  BY <1>1, FS_Interval
<1>5. rank \in Surjection(K, 1 .. N)
  BY <1>3, <1>4, FS_Injection
<1>6. \A n \in 1 .. N : \E i \in K : Rank(K, i) = n
  BY <1>5 DEF Surjection
<1>7. \A n \in 1 .. N : Place(K, n) \in K /\ Rank(K, Place(K, n)) = n
  BY <1>6 DEF Place
<1>8. QED
  BY <1>2, <1>7, Ranks

\* The last of the places, when the list ends with them, have the last ranks.
LEMMA LastRanks ==
  ASSUME NEW m \in Nat, NEW K \in SUBSET (1 .. m), NEW d \in 0 .. m, m - d + 1 .. m \subseteq K
  PROVE  /\ d <= Cardinality(K)
         /\ \A i \in m - d + 1 .. m : Rank(K, i) = Cardinality(K) - (m - i)
<1>1. IsFiniteSet(K) /\ Cardinality(K) \in Nat
  BY Ranks
<1>2. d <= Cardinality(K)
  <2>1. Cardinality(m - d + 1 .. m) = d
    <3>1. m - d + 1 \in Int /\ m \in Int
      OBVIOUS
    <3>2. Cardinality(m - d + 1 .. m) = IF m - d + 1 > m THEN 0 ELSE m - (m - d + 1) + 1
      BY <3>1, FS_Interval
    <3>3. QED
      BY <3>2
  <2>2. QED
    BY <1>1, <2>1, FS_Subset
<1>3. ASSUME NEW i \in m - d + 1 .. m PROVE Rank(K, i) = Cardinality(K) - (m - i)
  <2>1. K = (K \cap (1 .. i)) \cup (i + 1 .. m) /\ (K \cap (1 .. i)) \cap (i + 1 .. m) = {}
    <3>1. \A k \in i + 1 .. m : k \in K
      OBVIOUS
    <3>2. \A k \in K : k \in 1 .. i \/ k \in i + 1 .. m
      OBVIOUS
    <3>3. \A k \in i + 1 .. m : k \notin 1 .. i
      OBVIOUS
    <3>4. QED
      BY <3>1, <3>2, <3>3
  <2>2. IsFiniteSet(K \cap (1 .. i)) /\ Rank(K, i) \in Nat
    BY <1>1, FS_Intersection, FS_CardinalityType DEF Rank
  <2>0. i \in 1 .. m
    OBVIOUS
  <2>3. IsFiniteSet(i + 1 .. m) /\ Cardinality(i + 1 .. m) = m - i
    <3>1. i + 1 \in Int /\ m \in Int
      BY <2>0
    <3>2. /\ IsFiniteSet(i + 1 .. m)
          /\ Cardinality(i + 1 .. m) = IF i + 1 > m THEN 0 ELSE m - (i + 1) + 1
      BY <3>1, FS_Interval
    <3>3. QED
      BY <2>0, <3>2
  <2>4. Cardinality(K) = Rank(K, i) + (m - i) - 0
    <3> DEFINE low == K \cap (1 .. i)
               high == i + 1 .. m
    <3>1. K = low \cup high /\ low \cap high = {} /\ IsFiniteSet(low) /\ IsFiniteSet(high)
      BY <2>1, <2>2, <2>3
    <3>2. Cardinality(low) = Rank(K, i) /\ Cardinality(high) = m - i
      BY <2>3 DEF Rank
    <3> HIDE DEF low, high
    <3>3. Cardinality(low \cup high) =
            Cardinality(low) + Cardinality(high) - Cardinality(low \cap high)
      BY <3>1, FS_Union
    <3>4. Cardinality(low \cap high) = 0
      BY <3>1, FS_EmptySet
    <3>5. QED
      BY <3>1, <3>2, <3>3, <3>4
  <2>5. QED
    BY <1>1, <2>2, <2>4
<1>4. QED
  BY <1>2, <1>3

\* What is kept of the list keeps its order, and its end when that is kept.
LEMMA OnlyKept ==
  ASSUME NEW S, baseUploads \in Seq(S), NEW K \in SUBSET (DOMAIN baseUploads)
  PROVE  /\ Only(K) \in Seq(S) /\ Len(Only(K)) = Cardinality(K)
         /\ \A n \in DOMAIN Only(K) : Place(K, n) \in K /\ Only(K)[n] = baseUploads[Place(K, n)]
         /\ \A n, k \in DOMAIN Only(K) : n # k => Place(K, n) # Place(K, k)
         /\ \A i \in K : \E n \in DOMAIN Only(K) : Place(K, n) = i
         /\ \A d \in 0 .. Len(baseUploads) :
              Len(baseUploads) - d + 1 .. Len(baseUploads) \subseteq K =>
                /\ d <= Len(Only(K))
                /\ \A n \in Len(Only(K)) - d + 1 .. Len(Only(K)) :
                     Place(K, n) = Len(baseUploads) - (Len(Only(K)) - n)
<1> DEFINE m == Len(baseUploads)
           N == Cardinality(K)
<1>1. m \in Nat /\ K \in SUBSET (1 .. m) /\ \A i \in 1 .. m : baseUploads[i] \in S
  BY LenProperties, ElementOfSeq
<1>2. N \in Nat
  BY <1>1, Ranks
<1> HIDE DEF m, N
<1>3. \A n \in 1 .. N : Place(K, n) \in K /\ Rank(K, Place(K, n)) = n
  BY <1>1, Places DEF N
<1>4. \A i \in K : Rank(K, i) \in 1 .. N /\ Place(K, Rank(K, i)) = i
  BY <1>1, Places, Ranks DEF N
<1>5. Only(K) = [n \in 1 .. N |-> baseUploads[Place(K, n)]]
  BY DEF Only, Place, Rank, N
<1>6. Only(K) \in [1 .. N -> S]
  BY <1>1, <1>3, <1>5
<1>7. Only(K) \in Seq(S) /\ Len(Only(K)) = N /\ DOMAIN Only(K) = 1 .. N
  BY <1>2, <1>5, <1>6
<1>8. ASSUME NEW d \in 0 .. m, m - d + 1 .. m \subseteq K
      PROVE  /\ d <= N
             /\ \A n \in N - d + 1 .. N : Place(K, n) = m - (N - n)
  <2>1. d <= N /\ \A i \in m - d + 1 .. m : Rank(K, i) = N - (m - i)
    BY <1>1, <1>8, LastRanks DEF N
  <2>2. ASSUME NEW n \in N - d + 1 .. N PROVE Place(K, n) = m - (N - n)
    <3>1. m - (N - n) \in m - d + 1 .. m
      BY <1>1, <1>2, <2>1
    <3>2. Rank(K, m - (N - n)) = n
      BY <1>1, <1>2, <2>1, <3>1
    <3>3. QED
      BY <1>4, <1>8, <3>1, <3>2
  <2>3. QED
    BY <2>1, <2>2
<1>9. ASSUME NEW n \in 1 .. N, NEW k \in 1 .. N, n # k PROVE Place(K, n) # Place(K, k)
  BY <1>3, <1>9
<1>10. \A n \in 1 .. N : Only(K)[n] = baseUploads[Place(K, n)]
  BY <1>5
<1>11. \A i \in K : \E n \in 1 .. N : Place(K, n) = i
  BY <1>4
<1>12. /\ Only(K) \in Seq(S) /\ Len(Only(K)) = Cardinality(K)
       /\ \A n \in DOMAIN Only(K) : Place(K, n) \in K /\ Only(K)[n] = baseUploads[Place(K, n)]
  BY <1>3, <1>7, <1>10 DEF N
<1>13. QED
  BY <1>7, <1>8, <1>9, <1>11, <1>12 DEF m

-----------------------------------------------------------------------------
(* The list of uploads: what holds of it in every state.                   *)

Upload1 == [file : Files, job : Files \cup {NoJob}, status : Statuses]
Post1 == [file : Files, answer : {"waiting", "job", "error"}]
Import1 == [status : {"none"} \cup Statuses,
            at : {"none", "waiting", "active", "ending", "over", "failed"}, done : BOOLEAN]

Posting == batches[1]
Ahead == Len(baseUploads) - Len(Posting)
Over(i) == isTerminalStatus(baseUploads[i].status)

\* The posts under way are those of the last uploads of the list, which wait for
\* their results; there is an import once a post has been answered with its job.
PostsInv ==
  isUploading =>
    /\ Len(Posting) <= Len(baseUploads)
    /\ \A i \in DOMAIN Posting :
         /\ baseUploads[Ahead + i] = [file |-> Posting[i].file, job |-> NoJob, status |-> "PENDING"]
         /\ Posting[i].answer = "waiting" => import[Posting[i].file].status = "none"
         /\ Posting[i].answer = "job" => import[Posting[i].file].status # "none"

\* An upload that has not ended is on its way, or its job is known.
UnendedInv ==
  \A i \in DOMAIN baseUploads : ~Over(i) =>
    IF baseUploads[i].job = NoJob THEN isUploading /\ i > Ahead
    ELSE baseUploads[i].job \in startedJobIds

\* A file is in the list or the queue once; one in the queue has no import.
FilesInv ==
  /\ \A i, k \in DOMAIN baseUploads : baseUploads[i].file = baseUploads[k].file => i = k
  /\ \A i, k \in DOMAIN uploadQueue : uploadQueue[i] = uploadQueue[k] => i = k
  /\ \A i \in DOMAIN baseUploads, k \in DOMAIN uploadQueue : baseUploads[i].file # uploadQueue[k]
  /\ \A k \in DOMAIN uploadQueue : import[uploadQueue[k]].status = "none"

\* An import with a job has a status, and one told as completed stays known as such.
Told(m) ==
  /\ m.at # "none" \/ m.done => m.status # "none"
  /\ m.status = "COMPLETED" => m.done

\* A poll is for imports that exist, and has made up no end.
PollInv ==
  /\ \A j \in startedJobIds \cup DOMAIN poll : import[j].status # "none"
  /\ \A j \in DOMAIN poll : poll[j] = "COMPLETED" => import[j].done
  /\ \A f \in Files : Told(import[f])

UploadsInv ==
  UploadsTypeOK /\ JobsMatchFiles /\ PostsInv /\ UnendedInv /\ FilesInv /\ PollInv

\* No upload that has not ended leaves the list.
NoneLost ==
  \A i \in DOMAIN baseUploads :
    ~isTerminalStatus(baseUploads[i].status) =>
      \E k \in DOMAIN baseUploads' : baseUploads'[k].file = baseUploads[i].file

PollType ==
  DOMAIN poll \subseteq Files /\ poll \in [DOMAIN poll -> {"waiting"} \cup Statuses]

LEMMA UploadFacts ==
  ASSUME UploadsTypeOK
  PROVE  /\ uploadQueue \in Seq(Files) /\ Len(uploadQueue) \in Nat
         /\ DOMAIN uploadQueue = 1 .. Len(uploadQueue)
         /\ \A i \in DOMAIN uploadQueue : uploadQueue[i] \in Files
         /\ baseUploads \in Seq(Upload1) /\ Len(baseUploads) \in Nat
         /\ DOMAIN baseUploads = 1 .. Len(baseUploads)
         /\ \A i \in DOMAIN baseUploads : baseUploads[i] \in Upload1
         /\ startedJobIds \subseteq Files /\ isUploading \in BOOLEAN
         /\ PollType /\ import \in [Files -> Import1] /\ failed \in 0 .. MaxFailures
         /\ Fails => failed' \in 0 .. MaxFailures
<1>1. /\ uploadQueue \in Seq(Files) /\ baseUploads \in Seq(Upload1)
      /\ startedJobIds \subseteq Files /\ isUploading \in BOOLEAN
      /\ PollType /\ import \in [Files -> Import1] /\ failed \in 0 .. MaxFailures
  BY DEF UploadsTypeOK, Upload1, Import1, PollType
<1>2. Fails => failed' \in 0 .. MaxFailures
  BY <1>1, UploadsAssumption DEF Fails, UploadsAssumption
<1>3. QED
  BY <1>1, <1>2, LenProperties, ElementOfSeq

LEMMA Upload1Fields ==
  \A u \in Upload1 : u.file \in Files /\ u.job \in Files \cup {NoJob} /\ u.status \in Statuses
  BY DEF Upload1

LEMMA Post1Fields ==
  \A r \in Post1 : r.file \in Files /\ r.answer \in {"waiting", "job", "error"}
  BY DEF Post1

\* While files are on their way there is one batch of them.
LEMMA OneBatch ==
  ASSUME UploadsTypeOK
  PROVE  /\ batches \in Seq(Seq(Post1))
         /\ isUploading => /\ Len(batches) = 1 /\ DOMAIN batches = {1}
                           /\ Posting \in Seq(Post1) /\ Len(Posting) \in Nat
                           /\ DOMAIN Posting = 1 .. Len(Posting)
                           /\ \A i \in DOMAIN Posting : Posting[i] \in Post1
         /\ ~isUploading => Len(batches) = 0 /\ DOMAIN batches = {}
<1>1. /\ batches \in Seq(Seq(Post1)) /\ Len(batches) = IF isUploading THEN 1 ELSE 0
      /\ DOMAIN batches = 1 .. Len(batches)
  BY LenProperties DEF UploadsTypeOK, Post1
<1>2. CASE isUploading
  <2>1. Len(batches) = 1 /\ DOMAIN batches = {1}
    BY <1>1, <1>2
  <2>2. Posting \in Seq(Post1)
    BY <1>1, <2>1, ElementOfSeq DEF Posting
  <2>3. QED
    BY <1>1, <1>2, <2>1, <2>2, LenProperties, ElementOfSeq
<1>3. CASE ~isUploading
  BY <1>1, <1>3
<1>4. QED
  BY <1>2, <1>3

\* Every variable has its type again when those that are assigned have theirs.
LEMMA TypedAgain ==
  ASSUME uploadQueue' \in Seq(Files), baseUploads' \in Seq(Upload1), startedJobIds' \subseteq Files,
         isUploading' \in BOOLEAN, batches' \in Seq(Seq(Post1)),
         Len(batches') = IF isUploading' THEN 1 ELSE 0, PollType',
         import' \in [Files -> Import1], failed' \in 0 .. MaxFailures
  PROVE  UploadsTypeOK'
  BY DEF UploadsTypeOK, Upload1, Post1, Import1, PollType

\* What the server says of the imports stays in step with what has been told of it.
Steady ==
  \A f \in Files :
    /\ import'[f].status = "none" <=> import[f].status = "none"
    /\ import[f].done => import'[f].done

\* Steps that leave list, queue and posts alone.
LEMMA ListStays ==
  ASSUME UploadsInv, UNCHANGED <<listVars, batches>>, Steady
  PROVE  JobsMatchFiles' /\ PostsInv' /\ UnendedInv' /\ FilesInv' /\ NoneLost
<1>1. UNCHANGED <<uploadQueue, baseUploads, startedJobIds, isUploading, batches>>
  BY DEF listVars
<1>2. \A i \in DOMAIN baseUploads : baseUploads[i].file \in Files
  BY UploadFacts, Upload1Fields DEF UploadsInv
<1>3. JobsMatchFiles'
  BY <1>1, <1>2 DEF UploadsInv, JobsMatchFiles, Steady
<1>4. isUploading => \A i \in DOMAIN Posting : Posting[i].file \in Files
  BY OneBatch, Post1Fields DEF UploadsInv
<1>5. PostsInv'
  BY <1>1, <1>4 DEF UploadsInv, PostsInv, Posting, Ahead, Steady
<1>6. UnendedInv'
  BY <1>1 DEF UploadsInv, UnendedInv, Posting, Ahead, Over
<1>7. FilesInv'
  BY <1>1, UploadFacts DEF UploadsInv, FilesInv, Steady
<1>8. NoneLost
  BY <1>1 DEF NoneLost
<1>9. QED
  BY <1>3, <1>5, <1>6, <1>7, <1>8

-----------------------------------------------------------------------------
(* The steps of the window, its posts and its poll.                        *)

LEMMA PollSteps ==
  ASSUME UploadsInv, Poll \/ \E j \in DOMAIN poll : PollAnswer(j)
  PROVE  UploadsInv' /\ NoneLost
<1>0. UNCHANGED <<listVars, batches, import>>
  BY DEF Poll, PollAnswer
<1>1. UNCHANGED <<uploadQueue, baseUploads, startedJobIds, isUploading>>
  BY <1>0 DEF listVars
<1>2. JobsMatchFiles' /\ PostsInv' /\ UnendedInv' /\ FilesInv' /\ NoneLost
  BY <1>0, ListStays DEF Steady
<1>3. PollType /\ PollInv /\ import \in [Files -> Import1]
  BY UploadFacts DEF UploadsInv
<1>4. CASE Poll
  <2>1. poll' = [j \in activeJobIds |-> "waiting"] /\ failed' = failed
    BY <1>4 DEF Poll
  <2>2. activeJobIds \subseteq startedJobIds
    BY DEF activeJobIds
  <2>3. PollType'
    BY <2>1, <2>2, UploadFacts DEF PollType, UploadsInv
  <2>4. PollInv'
    BY <1>0, <1>1, <1>3, <2>1, <2>2 DEF PollInv
  <2>5. failed' \in 0 .. MaxFailures
    BY <2>1, UploadFacts DEF UploadsInv
  <2>6. QED
    BY <2>3, <2>4, <2>5
    , <1>0, <1>1, <1>2, UploadFacts, OneBatch, TypedAgain DEF UploadsInv, UploadsTypeOK, Post1
<1>5. CASE \E j \in DOMAIN poll : PollAnswer(j)
  <2>1. PICK j \in DOMAIN poll : PollAnswer(j)
    BY <1>5
  <2>2. /\ poll' = [poll EXCEPT ![j] = import[j].status] \/ poll' = [poll EXCEPT ![j] = "FAILED"]
        /\ failed' = failed \/ Fails
    BY <2>1 DEF PollAnswer
  <2>3. j \in Files /\ import[j].status \in Statuses /\ Told(import[j])
    <3>1. j \in Files /\ import[j] \in Import1 /\ import[j].status # "none" /\ Told(import[j])
      BY <1>3 DEF PollType, PollInv
    <3>2. QED
      BY <3>1 DEF Import1
  <2>4. PollType'
    BY <1>3, <2>2, <2>3 DEF PollType, Statuses
  <2>5. DOMAIN poll' = DOMAIN poll /\ \A k \in DOMAIN poll \ {j} : poll'[k] = poll[k]
    BY <1>3, <2>2 DEF PollType
  <2>6. poll'[j] = import[j].status \/ poll'[j] = "FAILED"
    BY <1>3, <2>2 DEF PollType
  <2>7. PollInv'
    BY <1>0, <1>1, <1>3, <2>3, <2>5, <2>6 DEF PollInv, Told
  <2>8. failed' \in 0 .. MaxFailures
    BY <2>2, UploadFacts DEF UploadsInv
  <2>9. QED
    BY <1>0, <1>1, <1>2, <2>4, <2>7, <2>8, UploadFacts, OneBatch, TypedAgain
    DEF UploadsInv, UploadsTypeOK, Post1
<1>6. QED
  BY <1>4, <1>5

\* What a step makes of an import keeps it told of what it was told.
LEMMA ImportMoves ==
  ASSUME UploadsInv, NEW f \in Files, ImportGoesOn(f) \/ ImportFails(f) \/ CleanedUp(f)
  PROVE  /\ UNCHANGED <<listVars, batches, poll>> /\ (failed' = failed \/ Fails)
         /\ \E new \in Import1 :
              /\ import' = [import EXCEPT ![f] = new]
              /\ import[f].status # "none" /\ new.status # "none"
              /\ import[f].done => new.done
              /\ Told(new)
<1> DEFINE m == import[f]
<1>1. m \in Import1 /\ Told(m)
  BY UploadFacts DEF UploadsInv, PollInv
<1>2. m.status \in {"none"} \cup Statuses /\ m.done \in BOOLEAN
  BY <1>1 DEF Import1
<1>3. CASE ImportGoesOn(f)
  <2>1. m.at # "none" /\ m.status # "none"
    BY <1>1, <1>3 DEF ImportGoesOn, Told
  <2>2. UNCHANGED <<listVars, batches, poll>> /\ failed' = failed
    BY <1>3 DEF ImportGoesOn, Imports
  <2>3. PICK new : /\ import' = [import EXCEPT ![f] = new]
                   /\ \/ new = [m EXCEPT !.at = "active", !.status = "PROCESSING"]
                      \/ new = [m EXCEPT !.at = "ending", !.status = "COMPLETED", !.done = TRUE]
                      \/ new = [m EXCEPT !.at = "ending", !.status = "FAILED"]
                      \/ new = [m EXCEPT !.at = "over"]
    BY <1>3 DEF ImportGoesOn, Imports
  <2> HIDE DEF m
  <2>4. new \in Import1 /\ new.status # "none" /\ (m.done => new.done) /\ Told(new)
    BY <1>1, <2>1, <2>3 DEF Import1, Statuses, Told
  <2>5. QED
    BY <2>1, <2>2, <2>3, <2>4 DEF m
<1>4. CASE ImportFails(f)
  <2>1. m.at # "none" /\ m.status # "none"
    BY <1>1, <1>4 DEF ImportFails, Told
  <2>2. UNCHANGED <<listVars, batches, poll>> /\ Fails
    BY <1>4 DEF ImportFails, Imports
  <2>3. PICK status \in {"FAILED", m.status}, at \in {"waiting", "failed"} :
          import' = [import EXCEPT ![f] = [m EXCEPT !.status = status, !.at = at]]
    BY <1>4 DEF ImportFails, Imports
  <2> DEFINE new == [m EXCEPT !.status = status, !.at = at]
  <2> HIDE DEF m
  <2>4. new \in Import1 /\ new.status # "none" /\ (m.done => new.done) /\ Told(new)
    BY <1>1, <2>1, <2>3 DEF Import1, Statuses, Told
  <2>5. QED
    BY <2>1, <2>2, <2>3, <2>4 DEF m
<1>5. CASE CleanedUp(f)
  <2>1. /\ UNCHANGED <<listVars, batches, poll>> /\ failed' = failed
        /\ m.status = "PENDING" /\ import' = [import EXCEPT ![f] = [m EXCEPT !.status = "FAILED"]]
    BY <1>5 DEF CleanedUp, Imports
  <2> DEFINE new == [m EXCEPT !.status = "FAILED"]
  <2> HIDE DEF m
  <2>2. new \in Import1 /\ new.status # "none" /\ (m.done => new.done) /\ Told(new)
    BY <1>1, <2>1 DEF Import1, Statuses, Told
  <2>3. QED
    BY <2>1, <2>2 DEF m
<1>6. QED
  BY <1>3, <1>4, <1>5

LEMMA ImportSteps ==
  ASSUME UploadsInv, NEW f \in Files, ImportGoesOn(f) \/ ImportFails(f) \/ CleanedUp(f)
  PROVE  UploadsInv' /\ NoneLost
<1>0. UNCHANGED <<listVars, batches, poll>> /\ (failed' = failed \/ Fails)
  BY ImportMoves
<1>1. UNCHANGED <<uploadQueue, baseUploads, startedJobIds, isUploading>>
  BY <1>0 DEF listVars
<1>2. import \in [Files -> Import1]
  BY UploadFacts DEF UploadsInv
<1>3. PICK new \in Import1 : /\ import' = [import EXCEPT ![f] = new]
                             /\ import[f].status # "none" /\ new.status # "none"
                             /\ import[f].done => new.done
                             /\ Told(new)
  BY ImportMoves
<1>4. import' \in [Files -> Import1] /\ import'[f] = new
  BY <1>2, <1>3
<1>5. \A g \in Files \ {f} : import'[g] = import[g]
  BY <1>2, <1>3
<1>6. Steady
  BY <1>3, <1>4, <1>5 DEF Steady
<1>7. JobsMatchFiles' /\ PostsInv' /\ UnendedInv' /\ FilesInv' /\ NoneLost
  BY <1>0, <1>6, ListStays
<1>8. \A g \in Files : Told(import'[g])
  BY <1>3, <1>4, <1>5 DEF UploadsInv, PollInv
<1>9. PollInv'
  BY <1>0, <1>1, <1>6, <1>8, UploadFacts DEF UploadsInv, PollInv, PollType, Steady
<1>10. PollType' /\ failed' \in 0 .. MaxFailures
  BY <1>0, UploadFacts DEF UploadsInv, PollType
<1>11. QED
  BY <1>0, <1>1, <1>4, <1>7, <1>9, <1>10, UploadFacts, OneBatch, TypedAgain
  DEF UploadsInv, UploadsTypeOK, Post1

\* Steps of the queue alone.
LEMMA QueueSteps ==
  ASSUME UploadsInv, uploadQueue' \in Seq(Files),
         UNCHANGED <<baseUploads, startedJobIds, isUploading, batches, poll, import, failed>>,
         \A i, k \in DOMAIN uploadQueue' : uploadQueue'[i] = uploadQueue'[k] => i = k,
         \A i \in DOMAIN baseUploads, k \in DOMAIN uploadQueue' :
           baseUploads[i].file # uploadQueue'[k],
         \A k \in DOMAIN uploadQueue' : import[uploadQueue'[k]].status = "none"
  PROVE  UploadsInv' /\ NoneLost
<1>1. UploadsTypeOK'
  BY DEF UploadsInv, UploadsTypeOK
<1>2. JobsMatchFiles' /\ PostsInv' /\ UnendedInv' /\ PollInv'
  BY DEF UploadsInv, JobsMatchFiles, PostsInv, UnendedInv, PollInv, Posting, Ahead, Over
<1>3. FilesInv'
  BY DEF UploadsInv, FilesInv
<1>4. NoneLost
  BY DEF NoneLost
<1>5. QED
  BY <1>1, <1>2, <1>3, <1>4 DEF UploadsInv

LEMMA AddStep ==
  ASSUME UploadsInv, NEW f \in Files, addFiles(f)
  PROVE  UploadsInv' /\ NoneLost
<1> DEFINE n == Len(uploadQueue)
<1>0. /\ uploadQueue \in Seq(Files) /\ n \in Nat /\ DOMAIN uploadQueue = 1 .. n
  BY UploadFacts DEF UploadsInv
<1>1. /\ uploadQueue' = Append(uploadQueue, f)
      /\ UNCHANGED <<baseUploads, startedJobIds, isUploading, batches, poll, import, failed>>
      /\ import[f].status = "none" /\ \A i \in DOMAIN baseUploads : baseUploads[i].file # f
      /\ \A k \in DOMAIN uploadQueue : uploadQueue[k] # f
  BY <1>0 DEF addFiles, Listed, Contains
<1>2. /\ uploadQueue' \in Seq(Files) /\ Len(uploadQueue') = n + 1
      /\ \A k \in 1 .. n : uploadQueue'[k] = uploadQueue[k]
      /\ uploadQueue'[n + 1] = f
  BY <1>0, <1>1, AppendProperties
<1>3. DOMAIN uploadQueue' = 1 .. n + 1
  BY <1>2, LenProperties
<1> HIDE DEF n
<1>4. \A k \in 1 .. n + 1 : k \in 1 .. n \/ k = n + 1
  BY <1>0
<1>5. \A k \in 1 .. n : uploadQueue'[k] # f
  BY <1>0, <1>1, <1>2
<1>6. \A i, k \in 1 .. n + 1 : uploadQueue'[i] = uploadQueue'[k] => i = k
  BY <1>0, <1>2, <1>4, <1>5 DEF UploadsInv, FilesInv
<1>7. \A i \in DOMAIN baseUploads, k \in 1 .. n + 1 : baseUploads[i].file # uploadQueue'[k]
  BY <1>0, <1>1, <1>2, <1>4 DEF UploadsInv, FilesInv
<1>8. \A k \in 1 .. n + 1 : import[uploadQueue'[k]].status = "none"
  BY <1>0, <1>1, <1>2, <1>4 DEF UploadsInv, FilesInv
<1>9. QED
  BY <1>1, <1>2, <1>3, <1>6, <1>7, <1>8, QueueSteps

\* What is left of a sequence without its element at place i.
LEMMA TakenOut ==
  ASSUME NEW S, NEW s \in Seq(S), NEW i \in 1 .. Len(s)
  PROVE  /\ RemoveAt(s, i) \in Seq(S) /\ Len(RemoveAt(s, i)) = Len(s) - 1
         /\ \A k \in 1 .. Len(s) - 1 :
              RemoveAt(s, i)[k] = s[IF k < i THEN k ELSE k + 1]
<1> DEFINE front == SubSeq(s, 1, i - 1)
           rest == SubSeq(s, i + 1, Len(s))
<1>0. Len(s) \in Nat
  BY LenProperties
<1>1. /\ front \in Seq(S) /\ Len(front) = i - 1
      /\ \A k \in 1 .. i - 1 : front[k] = s[k]
  <2>1. \A k \in 1 .. i - 1 : s[k] \in S
    BY <1>0, ElementOfSeq
  <2>2. 1 \in Int /\ i - 1 \in Int
    BY <1>0
  <2>3. QED
    BY <2>1, <2>2, <1>0, SubSeqProperties
<1>2. /\ rest \in Seq(S) /\ Len(rest) = Len(s) - i
      /\ \A k \in 1 .. Len(s) - i : rest[k] = s[i + k]
  <2>1. \A k \in i + 1 .. Len(s) : s[k] \in S
    BY <1>0, ElementOfSeq
  <2>2. i + 1 \in Int /\ Len(s) \in Int
    BY <1>0
  <2>3. QED
    BY <2>1, <2>2, <1>0, SubSeqProperties
<1>3. RemoveAt(s, i) = front \o rest
  BY DEF RemoveAt
<1> HIDE DEF front, rest
<1>4. /\ front \o rest \in Seq(S) /\ Len(front \o rest) = Len(front) + Len(rest)
      /\ \A k \in 1 .. Len(front) + Len(rest) : (front \o rest)[k] =
           IF k <= Len(front) THEN front[k] ELSE rest[k - Len(front)]
  BY <1>1, <1>2, ConcatProperties
<1>5. ASSUME NEW k \in 1 .. Len(s) - 1
      PROVE  (front \o rest)[k] = s[IF k < i THEN k ELSE k + 1]
  <2>1. CASE k < i
    BY <2>1, <1>0, <1>1, <1>2, <1>4
  <2>2. CASE ~(k < i)
    <3>1. k - (i - 1) \in 1 .. Len(s) - i /\ i + (k - (i - 1)) = k + 1
      BY <2>2, <1>0
    <3>2. rest[k - (i - 1)] = s[k + 1]
      BY <3>1, <1>2
    <3>3. QED
      BY <2>2, <3>2, <1>0, <1>1, <1>2, <1>4
  <2>3. QED
    BY <2>1, <2>2
<1>6. Len(front) + Len(rest) = Len(s) - 1
  BY <1>0, <1>1, <1>2
<1> HIDE DEF RemoveAt
<1>7. QED
  BY <1>3, <1>4, <1>5, <1>6

LEMMA RemoveStep ==
  ASSUME UploadsInv, NEW i \in DOMAIN uploadQueue, removeFromQueue(i)
  PROVE  UploadsInv' /\ NoneLost
<1> DEFINE n == Len(uploadQueue)
           From(k) == IF k < i THEN k ELSE k + 1
<1>0. uploadQueue \in Seq(Files) /\ n \in Nat /\ DOMAIN uploadQueue = 1 .. n
  BY UploadFacts DEF UploadsInv
<1>1. /\ uploadQueue' = RemoveAt(uploadQueue, i)
      /\ UNCHANGED <<baseUploads, startedJobIds, isUploading, batches, poll, import, failed>>
  BY DEF removeFromQueue
<1>2. /\ uploadQueue' \in Seq(Files) /\ Len(uploadQueue') = n - 1
      /\ \A k \in 1 .. n - 1 : uploadQueue'[k] = uploadQueue[From(k)]
  BY <1>0, <1>1, TakenOut
<1>3. DOMAIN uploadQueue' = 1 .. n - 1
  BY <1>2, LenProperties
<1>4. \A k \in 1 .. n - 1 : From(k) \in 1 .. n
  BY <1>0
<1>5. \A k, m \in 1 .. n - 1 : From(k) = From(m) => k = m
  BY <1>0
<1> HIDE DEF n, From
<1>6. \A k, m \in 1 .. n - 1 : uploadQueue'[k] = uploadQueue'[m] => k = m
  BY <1>0, <1>2, <1>4, <1>5 DEF UploadsInv, FilesInv
<1>7. \A m \in DOMAIN baseUploads, k \in 1 .. n - 1 : baseUploads[m].file # uploadQueue'[k]
  BY <1>0, <1>2, <1>4 DEF UploadsInv, FilesInv
<1>8. \A k \in 1 .. n - 1 : import[uploadQueue'[k]].status = "none"
  BY <1>0, <1>2, <1>4 DEF UploadsInv, FilesInv
<1>9. QED
  BY <1>1, <1>2, <1>3, <1>6, <1>7, <1>8, QueueSteps

\* Uploads are taken from the list, and none that has not ended is among them.
LEMMA Thinned ==
  ASSUME UploadsInv, NEW K \in SUBSET (DOMAIN baseUploads), baseUploads' = Only(K),
         UNCHANGED <<uploadQueue, isUploading, batches, poll, import, failed>>,
         startedJobIds' \subseteq startedJobIds,
         \A i \in DOMAIN baseUploads : ~Over(i) =>
           i \in K /\ (baseUploads[i].job # NoJob => baseUploads[i].job \in startedJobIds')
  PROVE  UploadsInv' /\ NoneLost
<1> DEFINE m == Len(baseUploads)
           N == Len(baseUploads')
           d == Len(Posting)
           at(n) == Place(K, n)
<1>1. /\ baseUploads \in Seq(Upload1) /\ m \in Nat /\ DOMAIN baseUploads = 1 .. m
      /\ \A i \in 1 .. m : baseUploads[i] \in Upload1
  BY UploadFacts DEF UploadsInv
<1>2. /\ baseUploads' \in Seq(Upload1)
      /\ \A n \in DOMAIN baseUploads' : at(n) \in K /\ baseUploads'[n] = baseUploads[at(n)]
      /\ \A n, k \in DOMAIN baseUploads' : n # k => at(n) # at(k)
      /\ \A i \in K : \E n \in DOMAIN baseUploads' : at(n) = i
  BY <1>1, OnlyKept
<1>3. N \in Nat /\ DOMAIN baseUploads' = 1 .. N
  BY <1>2, LenProperties
<1>4. isUploading => d \in 0 .. m /\ DOMAIN Posting = 1 .. d
  BY <1>1, OneBatch DEF UploadsInv, PostsInv
<1>5. isUploading => m - d + 1 .. m \subseteq K
  <2> SUFFICES ASSUME isUploading, NEW i \in m - d + 1 .. m PROVE i \in K
    OBVIOUS
  <2>1. i - (m - d) \in 1 .. d /\ i \in 1 .. m /\ (m - d) + (i - (m - d)) = i
    BY <1>1, <1>4
  <2>2. ASSUME NEW q \in 1 .. d PROVE baseUploads[Ahead + q].status = "PENDING"
    <3>1. q \in DOMAIN Posting
      BY <1>4
    <3>2. baseUploads[Ahead + q] = [file |-> Posting[q].file, job |-> NoJob, status |-> "PENDING"]
      BY <3>1 DEF UploadsInv, PostsInv
    <3>3. QED
      BY <3>2
  <2>3. Ahead + (i - (m - d)) = i
    BY <2>1 DEF Ahead
  <2>4. baseUploads[i].status = "PENDING"
    BY <2>1, <2>2, <2>3
  <2>5. QED
    BY <1>1, <2>1, <2>4 DEF Over, isTerminalStatus
<1>6. isUploading => d <= N /\ \A n \in N - d + 1 .. N : at(n) = m - (N - n)
  BY <1>1, <1>4, <1>5, OnlyKept
<1> HIDE DEF m, N, d, at
<1>7. UploadsTypeOK'
  BY <1>2, UploadFacts, OneBatch, TypedAgain DEF UploadsInv, UploadsTypeOK, PollType, Post1
<1>8. JobsMatchFiles'
  <2> SUFFICES ASSUME NEW n \in DOMAIN baseUploads'
               PROVE  /\ baseUploads'[n].job \in {NoJob, baseUploads'[n].file}
                      /\ baseUploads'[n].status = "COMPLETED" =>
                           import[baseUploads'[n].file].done
    BY DEF JobsMatchFiles
  <2>1. at(n) \in DOMAIN baseUploads /\ baseUploads'[n] = baseUploads[at(n)]
    BY <1>2
  <2>2. QED
    BY <2>1 DEF UploadsInv, JobsMatchFiles
<1>9. PostsInv'
  <2> SUFFICES ASSUME isUploading
               PROVE  /\ d <= N
                      /\ \A q \in DOMAIN Posting :
                           /\ baseUploads'[N - d + q] =
                                [file |-> Posting[q].file, job |-> NoJob, status |-> "PENDING"]
                           /\ Posting[q].answer = "waiting" => import[Posting[q].file].status = "none"
                           /\ Posting[q].answer = "job" => import[Posting[q].file].status # "none"
    BY DEF PostsInv, Posting, Ahead, N, d
  <2>1. ASSUME NEW q \in 1 .. d
        PROVE  baseUploads'[N - d + q] =
                 [file |-> Posting[q].file, job |-> NoJob, status |-> "PENDING"]
    <3>1. N - d + q \in N - d + 1 .. N /\ N - d + q \in 1 .. N /\ m - (N - (N - d + q)) = m - d + q
      BY <1>1, <1>3, <1>4, <1>6
    <3>2. baseUploads'[N - d + q] = baseUploads[m - d + q]
      BY <1>2, <1>3, <1>6, <3>1
    <3>3. QED
      BY <1>4, <3>2 DEF UploadsInv, PostsInv, Ahead, m, d
  <2>2. QED
    BY <1>4, <1>6, <2>1 DEF UploadsInv, PostsInv
<1>10. UnendedInv'
  <2> SUFFICES ASSUME NEW n \in DOMAIN baseUploads', ~isTerminalStatus(baseUploads'[n].status)
               PROVE  IF baseUploads'[n].job = NoJob THEN isUploading /\ n > N - d
                      ELSE baseUploads'[n].job \in startedJobIds'
    BY DEF UnendedInv, Posting, Ahead, Over, N, d
  <2>1. /\ at(n) \in DOMAIN baseUploads /\ baseUploads'[n] = baseUploads[at(n)]
        /\ ~Over(at(n))
    BY <1>2 DEF Over
  <2>2. CASE baseUploads'[n].job # NoJob
    BY <2>1, <2>2
  <2>3. CASE baseUploads'[n].job = NoJob
    <3>1. isUploading /\ at(n) > m - d
      BY <2>1, <2>3 DEF UploadsInv, UnendedInv, Ahead, m, d
    <3>2. SUFFICES ASSUME n <= N - d PROVE FALSE
      BY <1>3, <1>4, <2>3, <3>1
    <3> DEFINE k == N - (m - at(n))
    <3>3. k \in N - d + 1 .. N /\ k \in 1 .. N /\ n # k /\ m - (N - k) = at(n)
      BY <1>1, <1>3, <1>4, <1>6, <2>1, <3>1, <3>2
    <3>4. at(k) = at(n)
      BY <1>6, <3>1, <3>3
    <3>5. QED
      BY <1>2, <1>3, <3>3, <3>4
  <2>4. QED
    BY <2>2, <2>3
<1>11. FilesInv'
  <2>1. ASSUME NEW n \in DOMAIN baseUploads', NEW k \in DOMAIN baseUploads',
               baseUploads'[n].file = baseUploads'[k].file
        PROVE  n = k
    BY <1>2, <2>1 DEF UploadsInv, FilesInv
  <2>2. \A n \in DOMAIN baseUploads', k \in DOMAIN uploadQueue :
          baseUploads'[n].file # uploadQueue[k]
    BY <1>2 DEF UploadsInv, FilesInv
  <2>3. QED
    BY <2>1, <2>2 DEF UploadsInv, FilesInv
<1>12. PollInv'
  BY DEF UploadsInv, PollInv
<1>13. NoneLost
  <2> SUFFICES ASSUME NEW i \in DOMAIN baseUploads, ~isTerminalStatus(baseUploads[i].status)
               PROVE  \E k \in DOMAIN baseUploads' : baseUploads'[k].file = baseUploads[i].file
    BY DEF NoneLost
  <2>1. PICK n \in DOMAIN baseUploads' : at(n) = i
    BY <1>2 DEF Over
  <2>2. QED
    BY <1>2, <2>1
<1>14. QED
  BY <1>7, <1>8, <1>9, <1>10, <1>11, <1>12, <1>13 DEF UploadsInv

LEMMA RemoveUploadStep ==
  ASSUME UploadsInv, NEW i \in DOMAIN baseUploads, removeUpload(i)
  PROVE  UploadsInv' /\ NoneLost
<1> DEFINE K == {k \in DOMAIN baseUploads : baseUploads[k].job # baseUploads[i].job}
<1>1. /\ Over(i) /\ baseUploads[i].job # NoJob /\ baseUploads' = Only(K)
      /\ startedJobIds' = startedJobIds \ {baseUploads[i].job}
      /\ UNCHANGED <<uploadQueue, isUploading, batches, poll, import, failed>>
  BY DEF removeUpload, Over
<1>2. ASSUME NEW k \in DOMAIN baseUploads, ~Over(k)
      PROVE  /\ k \in K
             /\ baseUploads[k].job # NoJob => baseUploads[k].job \in startedJobIds'
  <2>1. baseUploads[k].job # baseUploads[i].job
    <3> SUFFICES ASSUME baseUploads[k].job = baseUploads[i].job PROVE FALSE
      OBVIOUS
    <3>1. baseUploads[k].file = baseUploads[i].file
      BY <1>1 DEF UploadsInv, JobsMatchFiles
    <3>2. k = i
      BY <3>1 DEF UploadsInv, FilesInv
    <3>3. QED
      BY <1>1, <1>2, <3>2
  <2>2. baseUploads[k].job # NoJob => baseUploads[k].job \in startedJobIds
    BY <1>2 DEF UploadsInv, UnendedInv
  <2>3. QED
    BY <1>1, <2>1, <2>2
<1>3. K \in SUBSET (DOMAIN baseUploads)
  OBVIOUS
<1> HIDE DEF K
<1>4. QED
  BY <1>1, <1>2, <1>3, Thinned

LEMMA ClearStep ==
  ASSUME UploadsInv, clearCompleted
  PROVE  UploadsInv' /\ NoneLost
<1> DEFINE K == {k \in DOMAIN baseUploads : ~isTerminalStatus(baseUploads[k].status)}
<1>1. /\ baseUploads' = Only(K) /\ startedJobIds' = startedJobIds
      /\ UNCHANGED <<uploadQueue, isUploading, batches, poll, import, failed>>
  BY DEF clearCompleted
<1>2. \A k \in DOMAIN baseUploads : ~Over(k) =>
        k \in K /\ (baseUploads[k].job # NoJob => baseUploads[k].job \in startedJobIds')
  BY <1>1 DEF UploadsInv, UnendedInv, Over
<1>3. K \in SUBSET (DOMAIN baseUploads)
  OBVIOUS
<1> HIDE DEF K
<1>4. QED
  BY <1>1, <1>2, <1>3, Thinned

LEMMA CloseStep ==
  ASSUME UploadsInv, handleClose
  PROVE  UploadsInv' /\ NoneLost
<1>1. /\ uploadQueue' = <<>> /\ baseUploads' = <<>> /\ startedJobIds' = {}
      /\ UNCHANGED <<isUploading, batches, poll, import, failed>>
      /\ activeJobIds = {} /\ ~isUploading
  BY DEF handleClose
<1>2. \A i \in DOMAIN baseUploads : Over(i)
  BY <1>1 DEF UploadsInv, UnendedInv, activeJobIds, Over
<1>3. NoneLost
  BY <1>2 DEF NoneLost, Over
<1>4. DOMAIN uploadQueue' = {} /\ DOMAIN baseUploads' = {}
  BY <1>1
<1>5. /\ uploadQueue' \in Seq(Files) /\ baseUploads' \in Seq(Upload1)
  BY <1>1
<1>6. UploadsTypeOK'
  BY <1>1, <1>5, UploadFacts, OneBatch, TypedAgain DEF UploadsInv, UploadsTypeOK, PollType, Post1
<1>7. JobsMatchFiles' /\ PostsInv' /\ UnendedInv' /\ FilesInv' /\ PollInv'
  BY <1>1, <1>4 DEF UploadsInv, JobsMatchFiles, PostsInv, UnendedInv, FilesInv, PollInv
<1>8. QED
  BY <1>3, <1>6, <1>7 DEF UploadsInv

LEMMA StartStep ==
  ASSUME UploadsInv, startUpload
  PROVE  UploadsInv' /\ NoneLost
<1> DEFINE m == Len(baseUploads)
           p == Len(uploadQueue)
           more == [i \in DOMAIN uploadQueue |->
                      [file |-> uploadQueue[i], job |-> NoJob, status |-> "PENDING"]]
           posts == [i \in DOMAIN uploadQueue |-> [file |-> uploadQueue[i], answer |-> "waiting"]]
<1>1. /\ baseUploads \in Seq(Upload1) /\ m \in Nat /\ DOMAIN baseUploads = 1 .. m
      /\ p \in Nat /\ DOMAIN uploadQueue = 1 .. p /\ \A i \in 1 .. p : uploadQueue[i] \in Files
  BY UploadFacts DEF UploadsInv
<1>2. /\ ~isUploading /\ isUploading' = TRUE /\ baseUploads' = baseUploads \o more
      /\ batches' = Append(batches, posts) /\ uploadQueue' = <<>>
      /\ UNCHANGED <<startedJobIds, poll, import, failed>>
  BY DEF startUpload
<1>3. \A i \in 1 .. p :
        /\ more[i] = [file |-> uploadQueue[i], job |-> NoJob, status |-> "PENDING"]
        /\ more[i] \in Upload1
        /\ posts[i] = [file |-> uploadQueue[i], answer |-> "waiting"] /\ posts[i] \in Post1
  BY <1>1 DEF Upload1, Post1, Statuses
<1>0. \A i \in 1 .. p : /\ more[i].file = uploadQueue[i] /\ more[i].job = NoJob
                        /\ more[i].status = "PENDING"
                        /\ posts[i].file = uploadQueue[i] /\ posts[i].answer = "waiting"
  <2> SUFFICES ASSUME NEW i \in 1 .. p
               PROVE  /\ more[i].file = uploadQueue[i] /\ more[i].job = NoJob
                      /\ more[i].status = "PENDING"
                      /\ posts[i].file = uploadQueue[i] /\ posts[i].answer = "waiting"
    OBVIOUS
  <2>1. more[i] = [file |-> uploadQueue[i], job |-> NoJob, status |-> "PENDING"]
    BY <1>3
  <2>2. posts[i] = [file |-> uploadQueue[i], answer |-> "waiting"]
    BY <1>3
  <2> HIDE DEF more, posts
  <2>3. QED
    BY <2>1, <2>2
<1>4. more \in Seq(Upload1) /\ Len(more) = p /\ posts \in Seq(Post1) /\ Len(posts) = p
  <2>1. more \in [1 .. p -> Upload1] /\ posts \in [1 .. p -> Post1]
    BY <1>1, <1>3
  <2>2. QED
    BY <1>1, <2>1
<1> HIDE DEF m, p, more, posts
<1>5. /\ baseUploads' \in Seq(Upload1) /\ Len(baseUploads') = m + p
      /\ \A i \in 1 .. m + p : baseUploads'[i] = IF i <= m THEN baseUploads[i] ELSE more[i - m]
  <2> DEFINE list == baseUploads
             both == list \o more
  <2>1. list \in Seq(Upload1) /\ more \in Seq(Upload1) /\ Len(list) = m /\ Len(more) = p
    BY <1>1, <1>4 DEF m
  <2> HIDE DEF list
  <2>2. both \in Seq(Upload1) /\ Len(both) = m + p
    BY <2>1, ConcatProperties
  <2>3. \A i \in 1 .. m + p : both[i] = IF i <= m THEN list[i] ELSE more[i - m]
    BY <2>1, ConcatProperties
  <2> HIDE DEF both
  <2>4. both = baseUploads'
    BY <1>2 DEF both, list
  <2>5. QED
    BY <2>2, <2>3, <2>4 DEF list
<1>6. DOMAIN baseUploads' = 1 .. m + p
  BY <1>1, <1>5, LenProperties
<1>7. \A i \in 1 .. m : i \in 1 .. m + p /\ baseUploads'[i] = baseUploads[i]
  BY <1>1, <1>5
<1>8. \A i \in 1 .. p : m + i \in 1 .. m + p /\ baseUploads'[m + i] = more[i]
  BY <1>1, <1>5
<1>9. \A i \in 1 .. m + p : i \in 1 .. m \/ \E k \in 1 .. p : i = m + k
  <2> SUFFICES ASSUME NEW i \in 1 .. m + p, i \notin 1 .. m PROVE \E k \in 1 .. p : i = m + k
    OBVIOUS
  <2>1. i - m \in 1 .. p /\ i = m + (i - m)
    BY <1>1
  <2>2. QED
    BY <2>1
<1>10. /\ batches' \in Seq(Seq(Post1)) /\ Len(batches') = 1 /\ batches'[1] = posts
  <2>1. batches \in Seq(Seq(Post1)) /\ Len(batches) = 0
    BY <1>2, OneBatch DEF UploadsInv
  <2>2. QED
    BY <1>2, <1>4, <2>1, AppendProperties
<1>11. Posting' = posts /\ Ahead' = m /\ DOMAIN posts = 1 .. p
  BY <1>1, <1>4, <1>5, <1>10, LenProperties DEF Posting, Ahead
<1>12. UploadsTypeOK'
  <2>1. uploadQueue' \in Seq(Files)
    BY <1>2
  <2>2. QED
    BY <1>2, <1>5, <1>10, <2>1, UploadFacts, TypedAgain DEF UploadsInv, PollType
<1>13. JobsMatchFiles'
  <2> SUFFICES ASSUME NEW i \in 1 .. m + p
               PROVE  /\ baseUploads'[i].job \in {NoJob, baseUploads'[i].file}
                      /\ baseUploads'[i].status = "COMPLETED" =>
                           import[baseUploads'[i].file].done
    BY <1>2, <1>6 DEF JobsMatchFiles
  <2>1. CASE i \in 1 .. m
    BY <1>1, <1>7, <2>1 DEF UploadsInv, JobsMatchFiles
  <2>2. CASE \E k \in 1 .. p : i = m + k
    BY <1>0, <1>8, <2>2
  <2>3. QED
    BY <1>9, <2>1, <2>2
<1>14. PostsInv'
  <2>1. Len(posts) <= Len(baseUploads')
    BY <1>1, <1>4, <1>5
  <2>2. ASSUME NEW i \in 1 .. p
        PROVE  /\ baseUploads'[m + i] =
                    [file |-> posts[i].file, job |-> NoJob, status |-> "PENDING"]
               /\ posts[i].answer = "waiting" /\ import[posts[i].file].status = "none"
    <3>1. posts[i].file = uploadQueue[i] /\ posts[i].answer = "waiting"
      BY <1>0
    <3>2. import[uploadQueue[i]].status = "none"
      BY <1>1 DEF UploadsInv, FilesInv
    <3>3. baseUploads'[m + i] = [file |-> uploadQueue[i], job |-> NoJob, status |-> "PENDING"]
      BY <1>3, <1>8
    <3>4. QED
      BY <3>1, <3>2, <3>3
  <2>3. QED
    BY <1>2, <1>11, <2>1, <2>2 DEF PostsInv
<1>15. UnendedInv'
  <2> SUFFICES ASSUME NEW i \in 1 .. m + p, ~isTerminalStatus(baseUploads'[i].status)
               PROVE  IF baseUploads'[i].job = NoJob THEN i > m
                      ELSE baseUploads'[i].job \in startedJobIds
    BY <1>2, <1>6, <1>11 DEF UnendedInv, Over
  <2>1. CASE i \in 1 .. m
    BY <1>1, <1>2, <1>7, <2>1 DEF UploadsInv, UnendedInv, Over
  <2>2. CASE \E k \in 1 .. p : i = m + k
    <3>1. PICK k \in 1 .. p : i = m + k
      BY <2>2
    <3>2. baseUploads'[i].job = NoJob
      BY <1>0, <1>8, <3>1
    <3>3. QED
      BY <1>1, <3>1, <3>2
  <2>3. QED
    BY <1>9, <2>1, <2>2
<1>16. FilesInv'
  <2>1. ASSUME NEW i \in 1 .. m + p, NEW k \in 1 .. m + p,
               baseUploads'[i].file = baseUploads'[k].file
        PROVE  i = k
    <3>1. CASE i \in 1 .. m /\ k \in 1 .. m
      BY <1>1, <1>7, <2>1, <3>1 DEF UploadsInv, FilesInv
    <3>2. ASSUME NEW n \in 1 .. p PROVE baseUploads'[m + n].file = uploadQueue[n]
      BY <1>0, <1>8
    <3>3. ASSUME NEW a \in 1 .. m, NEW n \in 1 .. p
          PROVE  baseUploads'[a].file # baseUploads'[m + n].file
      <4>1. baseUploads[a].file # uploadQueue[n]
        BY <1>1 DEF UploadsInv, FilesInv, m
      <4>2. QED
        BY <1>7, <3>2, <4>1
    <3>4. CASE i \notin 1 .. m /\ k \notin 1 .. m
      <4>1. PICK a \in 1 .. p : i = m + a
        BY <1>9, <3>4
      <4>2. PICK n \in 1 .. p : k = m + n
        BY <1>9, <3>4
      <4>3. uploadQueue[a] = uploadQueue[n]
        BY <2>1, <3>2, <4>1, <4>2
      <4>4. QED
        BY <1>1, <4>1, <4>2, <4>3 DEF UploadsInv, FilesInv
    <3>5. QED
      BY <1>9, <2>1, <3>1, <3>3, <3>4
  <2>2. DOMAIN uploadQueue' = {}
    BY <1>2
  <2>3. QED
    BY <1>6, <2>1, <2>2 DEF FilesInv
<1>17. PollInv'
  BY <1>2 DEF UploadsInv, PollInv
<1>18. NoneLost
  BY <1>1, <1>6, <1>7 DEF NoneLost
<1>19. QED
  BY <1>12, <1>13, <1>14, <1>15, <1>16, <1>17, <1>18 DEF UploadsInv

LEMMA MadeFacts ==
  ASSUME NEW status \in {"PENDING", "FAILED"}, NEW at \in {"none", "waiting"}
  PROVE  Made(status, at) \in Import1 /\ Made(status, at).status = status /\ Told(Made(status, at))
  BY DEF Made, Import1, Statuses, Told

LEMMA PostStep ==
  ASSUME UploadsInv, NEW b \in DOMAIN batches, NEW i \in DOMAIN batches[b], Post(b, i)
  PROVE  UploadsInv' /\ NoneLost
<1> DEFINE f == Posting[i].file
           d == Len(Posting)
<1>1. /\ isUploading /\ b = 1 /\ batches[b] = Posting
      /\ batches \in Seq(Seq(Post1)) /\ Len(batches) = 1 /\ DOMAIN batches = {1}
      /\ Posting \in Seq(Post1) /\ d \in Nat /\ DOMAIN Posting = 1 .. d
      /\ \A k \in 1 .. d : Posting[k] \in Post1
  BY OneBatch DEF UploadsInv, Posting
<1>2. i \in 1 .. d /\ f \in Files
  BY <1>1, Post1Fields
<1> DEFINE New(status, at) == import' = [import EXCEPT ![f] = Made(status, at)]
<1>3. PICK answer : /\ answer = "job" \/ answer = "error"
                    /\ batches' = [batches EXCEPT ![1][i].answer = answer]
                    /\ answer = "job" => New("PENDING", "waiting")
                    /\ \/ import' = import
                       \/ \E status \in {"PENDING", "FAILED"}, at \in {"none", "waiting"} :
                            New(status, at)
                    /\ failed' = failed \/ Fails
  BY <1>1 DEF Post, Answers
<1>4. /\ Posting[i].answer = "waiting"
      /\ UNCHANGED <<uploadQueue, baseUploads, startedJobIds, isUploading, poll>>
  BY <1>1 DEF Post, listVars
<1> HIDE DEF f, d
<1>5. import[f].status = "none"
  BY <1>1, <1>2, <1>4 DEF UploadsInv, PostsInv, f
<1>6. import \in [Files -> Import1] /\ import[f] \in Import1
  BY <1>2, UploadFacts DEF UploadsInv
<1>7. /\ import' \in [Files -> Import1]
      /\ \A g \in Files \ {f} : import'[g] = import[g]
      /\ answer = "job" => import'[f].status = "PENDING"
      /\ Told(import'[f])
  <2>1. ASSUME NEW status \in {"PENDING", "FAILED"}, NEW at \in {"none", "waiting"}
        PROVE  Made(status, at) \in Import1 /\ Made(status, at).status = status /\ Told(Made(status, at))
    BY MadeFacts
  <2>2. Told(import[f])
    BY <1>2 DEF UploadsInv, PollInv
  <2>3. CASE import' = import /\ answer # "job"
    BY <1>6, <2>2, <2>3
  <2>4. ASSUME NEW status \in {"PENDING", "FAILED"}, NEW at \in {"none", "waiting"}, New(status, at)
        PROVE  /\ import' \in [Files -> Import1] /\ import'[f] = Made(status, at)
               /\ \A g \in Files \ {f} : import'[g] = import[g]
    BY <1>2, <1>6, <2>1, <2>4
  <2> HIDE DEF New
  <2>5. QED
    BY <1>3, <2>1, <2>3, <2>4
<1>8. /\ Posting' = [Posting EXCEPT ![i] = [Posting[i] EXCEPT !.answer = answer]]
      /\ Len(batches') = 1 /\ batches' \in Seq(Seq(Post1))
  <2>1. batches' = [batches EXCEPT ![1] = [Posting EXCEPT ![i] = [Posting[i] EXCEPT !.answer = answer]]]
    BY <1>3 DEF Posting
  <2>2. [Posting[i] EXCEPT !.answer = answer] \in Post1
    BY <1>1, <1>2, <1>3 DEF Post1
  <2>3. [Posting EXCEPT ![i] = [Posting[i] EXCEPT !.answer = answer]] \in Seq(Post1)
    BY <1>1, <1>2, <2>2, ExceptSeq
  <2>4. 1 \in 1 .. Len(batches)
    BY <1>1
  <2>5. batches' \in Seq(Seq(Post1)) /\ Len(batches') = Len(batches)
    <3> DEFINE e == [Posting EXCEPT ![i] = [Posting[i] EXCEPT !.answer = answer]]
               S == Seq(Post1)
    <3>1. e \in S /\ batches \in Seq(S) /\ batches' = [batches EXCEPT ![1] = e]
      BY <1>1, <2>1, <2>3
    <3> HIDE DEF e, S
    <3>2. batches' \in Seq(S) /\ Len(batches') = Len(batches)
      BY <2>4, <3>1, ExceptSeq
    <3>3. QED
      BY <3>2 DEF S
  <2>6. batches'[1] = [Posting EXCEPT ![i] = [Posting[i] EXCEPT !.answer = answer]]
    BY <1>1, <2>1
  <2>7. QED
    BY <1>1, <2>5, <2>6 DEF Posting
<1>9. /\ Posting' \in Seq(Post1) /\ Len(Posting') = d /\ DOMAIN Posting' = 1 .. d
      /\ \A k \in 1 .. d : Posting'[k].file = Posting[k].file
      /\ \A k \in 1 .. d \ {i} : Posting'[k] = Posting[k]
      /\ Posting'[i].answer = answer
  <2>1. /\ DOMAIN Posting' = 1 .. d /\ \A k \in 1 .. d \ {i} : Posting'[k] = Posting[k]
        /\ Posting'[i] = [Posting[i] EXCEPT !.answer = answer]
    BY <1>1, <1>2, <1>8
  <2>2. Posting'[i].file = Posting[i].file /\ Posting'[i].answer = answer
    BY <1>1, <1>2, <2>1 DEF Post1
  <2>3. Posting' \in Seq(Post1) /\ Len(Posting') = d
    <3>1. Posting[i] \in Post1 /\ answer \in {"waiting", "job", "error"}
      BY <1>1, <1>2, <1>3
    <3>2. [Posting[i] EXCEPT !.answer = answer] \in Post1
      BY <3>1 DEF Post1
    <3>3. Posting' \in Seq(Post1)
      BY <1>1, <1>2, <1>8, <3>2, ExceptSeq
    <3>4. QED
      BY <1>1, <2>1, <3>3, LenProperties
  <2>4. QED
    BY <2>1, <2>2, <2>3
<1>10. UploadsTypeOK'
  BY <1>1, <1>3, <1>4, <1>7, <1>8, UploadFacts, TypedAgain DEF UploadsInv, PollType
<1>11. Ahead' = Ahead
  BY <1>4, <1>9 DEF Ahead, d
<1>12. \A k \in 1 .. d : Ahead + k \in DOMAIN baseUploads /\ baseUploads[Ahead + k].file = Posting[k].file
  <2>1. /\ Len(baseUploads) \in Nat /\ DOMAIN baseUploads = 1 .. Len(baseUploads)
        /\ d <= Len(baseUploads)
    BY <1>1, UploadFacts DEF UploadsInv, PostsInv, d
  <2>2. \A k \in 1 .. d : Ahead + k \in DOMAIN baseUploads
    BY <1>1, <2>1 DEF Ahead, d
  <2>3. ASSUME NEW k \in 1 .. d PROVE baseUploads[Ahead + k].file = Posting[k].file
    <3>1. baseUploads[Ahead + k] = [file |-> Posting[k].file, job |-> NoJob, status |-> "PENDING"]
      BY <1>1 DEF UploadsInv, PostsInv
    <3>2. QED
      BY <3>1
  <2>4. QED
    BY <2>2, <2>3
<1>13. \A k \in 1 .. d \ {i} : Posting[k].file # f
  <2> SUFFICES ASSUME NEW k \in 1 .. d, k # i, Posting[k].file = Posting[i].file PROVE FALSE
    BY DEF f
  <2>1. Ahead + k = Ahead + i
    BY <1>2, <1>12 DEF UploadsInv, FilesInv
  <2>2. Ahead \in Int
    BY <1>1, UploadFacts DEF UploadsInv, Ahead, d
  <2>3. QED
    BY <1>2, <2>1, <2>2
<1>14. JobsMatchFiles'
  <2>1. \A k \in DOMAIN baseUploads : baseUploads[k].file \in Files
    BY UploadFacts, Upload1Fields DEF UploadsInv
  <2>2. ~import[f].done
    BY <1>2, <1>5 DEF UploadsInv, PollInv, Told
  <2>3. QED
    BY <1>4, <1>7, <2>1, <2>2 DEF UploadsInv, JobsMatchFiles
<1>15. PostsInv'
  <2>1. Len(Posting') <= Len(baseUploads')
    BY <1>1, <1>4, <1>9 DEF UploadsInv, PostsInv, d
  <2>2. ASSUME NEW k \in 1 .. d
        PROVE  /\ baseUploads[Ahead + k] =
                    [file |-> Posting'[k].file, job |-> NoJob, status |-> "PENDING"]
               /\ Posting'[k].answer = "waiting" => import'[Posting'[k].file].status = "none"
               /\ Posting'[k].answer = "job" => import'[Posting'[k].file].status # "none"
    <3>1. baseUploads[Ahead + k] = [file |-> Posting'[k].file, job |-> NoJob, status |-> "PENDING"]
      BY <1>1, <1>9 DEF UploadsInv, PostsInv
    <3>2. CASE k = i
      BY <1>3, <1>7, <1>9, <3>1, <3>2 DEF f
    <3>3. CASE k # i
      <4>1. Posting'[k] = Posting[k] /\ Posting[k].file \in Files \ {f}
        BY <1>1, <1>9, <1>13, <3>3, Post1Fields
      <4>2. QED
        BY <1>1, <1>7, <3>1, <4>1 DEF UploadsInv, PostsInv
    <3>4. QED
      BY <3>2, <3>3
  <2>3. QED
    BY <1>4, <1>9, <1>11, <2>1, <2>2 DEF PostsInv
<1>16. UnendedInv'
  BY <1>4, <1>11 DEF UploadsInv, UnendedInv, Over
<1>17. FilesInv'
  <2>1. ASSUME NEW k \in DOMAIN uploadQueue PROVE import'[uploadQueue[k]].status = "none"
    <3>1. uploadQueue[k] # f
      BY <1>2, <1>12 DEF UploadsInv, FilesInv, f
    <3>2. uploadQueue[k] \in Files
      BY UploadFacts DEF UploadsInv
    <3>3. QED
      BY <1>7, <3>1, <3>2 DEF UploadsInv, FilesInv
  <2>2. QED
    BY <1>4, <2>1 DEF UploadsInv, FilesInv
<1>18. PollInv'
  <2>1. \A j \in startedJobIds \cup DOMAIN poll : j \in Files \ {f}
    BY <1>5, UploadFacts DEF UploadsInv, PollInv, PollType
  <2>2. \A g \in Files : Told(import'[g])
    BY <1>7 DEF UploadsInv, PollInv
  <2>3. QED
    BY <1>4, <1>7, <2>1, <2>2 DEF UploadsInv, PollInv
<1>19. NoneLost
  BY <1>4 DEF NoneLost
<1>20. QED
  BY <1>10, <1>14, <1>15, <1>16, <1>17, <1>18, <1>19 DEF UploadsInv

\* What a result makes of the upload it is for.
LEMMA Results ==
  ASSUME NEW r \in Post1, NEW u, u = [file |-> r.file, job |-> NoJob, status |-> "PENDING"]
  PROVE  /\ Result(u, r) \in Upload1 /\ Result(u, r).file = r.file
         /\ IF r.answer = "job"
            THEN Result(u, r).job = r.file /\ Result(u, r).status = "PROCESSING"
            ELSE Result(u, r).job = NoJob /\ Result(u, r).status = "FAILED"
<1>1. r.file \in Files
  BY Post1Fields
<1>2. CASE r.answer = "job"
  <2>1. Result(u, r) = [file |-> r.file, job |-> r.file, status |-> "PROCESSING"]
    BY <1>2 DEF Result
  <2>2. QED
    BY <1>1, <1>2, <2>1 DEF Upload1, Statuses
<1>3. CASE r.answer # "job"
  <2>1. Result(u, r) = [file |-> r.file, job |-> NoJob, status |-> "FAILED"]
    BY <1>3 DEF Result
  <2>2. QED
    BY <1>1, <1>3, <2>1 DEF Upload1, Statuses
<1>4. QED
  BY <1>2, <1>3

LEMMA BatchStep ==
  ASSUME UploadsInv, NEW b \in DOMAIN batches, BatchDone(b)
  PROVE  UploadsInv' /\ NoneLost
<1> DEFINE m == Len(baseUploads)
           d == Len(Posting)
<1>1. /\ isUploading /\ b = 1 /\ batches[b] = Posting
      /\ batches \in Seq(Seq(Post1)) /\ Len(batches) = 1
      /\ d \in Nat /\ DOMAIN Posting = 1 .. d /\ \A q \in 1 .. d : Posting[q] \in Post1
  BY OneBatch DEF UploadsInv, Posting
<1>2. /\ baseUploads \in Seq(Upload1) /\ m \in Nat /\ DOMAIN baseUploads = 1 .. m
      /\ \A i \in 1 .. m : baseUploads[i] \in Upload1
      /\ d <= m /\ Ahead = m - d
  BY <1>1, UploadFacts DEF UploadsInv, PostsInv, Ahead
<1>3. /\ \A q \in 1 .. d : Posting[q].answer # "waiting"
      /\ baseUploads' = Placed(Posting) /\ startedJobIds' = startedJobIds \cup JobsOf(Posting)
      /\ isUploading' = FALSE /\ batches' = RemoveAt(batches, 1)
      /\ UNCHANGED <<uploadQueue, poll, import, failed>>
  BY <1>1 DEF BatchDone
<1> HIDE DEF m, d
<1>4. /\ DOMAIN baseUploads' = 1 .. m
      /\ \A i \in 1 .. m :
           baseUploads'[i] = IF i > Ahead THEN Result(baseUploads[i], Posting[i - Ahead])
                             ELSE baseUploads[i]
  BY <1>2, <1>3 DEF Placed, Ahead
<1>5. ASSUME NEW i \in 1 .. m, i > Ahead
      PROVE  /\ i - Ahead \in 1 .. d
             /\ baseUploads[i] = [file |-> Posting[i - Ahead].file, job |-> NoJob,
                                  status |-> "PENDING"]
  <2>1. i - Ahead \in 1 .. d /\ Ahead + (i - Ahead) = i
    BY <1>1, <1>2, <1>5
  <2>2. baseUploads[Ahead + (i - Ahead)] =
          [file |-> Posting[i - Ahead].file, job |-> NoJob, status |-> "PENDING"]
    BY <1>1, <2>1 DEF UploadsInv, PostsInv
  <2>3. QED
    BY <2>1, <2>2
<1>6. ASSUME NEW i \in 1 .. m
      PROVE  /\ baseUploads'[i] \in Upload1 /\ baseUploads'[i].file = baseUploads[i].file
             /\ i > Ahead =>
                  LET r == Posting[i - Ahead] IN
                  /\ r \in Post1 /\ baseUploads[i].file = r.file
                  /\ IF r.answer = "job"
                     THEN baseUploads'[i].job = r.file /\ baseUploads'[i].status = "PROCESSING"
                     ELSE baseUploads'[i].job = NoJob /\ baseUploads'[i].status = "FAILED"
             /\ ~(i > Ahead) => baseUploads'[i] = baseUploads[i]
  <2>1. CASE i > Ahead
    <3> DEFINE r == Posting[i - Ahead]
    <3>1. /\ r \in Post1
          /\ baseUploads[i] = [file |-> r.file, job |-> NoJob, status |-> "PENDING"]
          /\ baseUploads'[i] = Result(baseUploads[i], r)
      BY <1>1, <1>4, <1>5, <2>1
    <3> HIDE DEF r
    <3>2. baseUploads[i].file = r.file
      BY <3>1
    <3>3. /\ baseUploads'[i] \in Upload1 /\ baseUploads'[i].file = r.file
          /\ IF r.answer = "job"
             THEN baseUploads'[i].job = r.file /\ baseUploads'[i].status = "PROCESSING"
             ELSE baseUploads'[i].job = NoJob /\ baseUploads'[i].status = "FAILED"
      BY <3>1, Results
    <3>4. QED
      BY <2>1, <3>1, <3>2, <3>3 DEF r
  <2>2. CASE ~(i > Ahead)
    BY <1>2, <1>4, <2>2
  <2>3. QED
    BY <2>1, <2>2
<1>7. ASSUME NEW g \in JobsOf(Posting)
      PROVE  g \in Files /\ import[g].status # "none"
  <2>1. PICK q \in 1 .. d : Posting[q].answer = "job" /\ g = Posting[q].file
    BY <1>1, <1>7 DEF JobsOf
  <2>2. QED
    BY <1>1, <2>1, Post1Fields DEF UploadsInv, PostsInv
<1>8. UploadsTypeOK'
  <2>1. baseUploads' \in Seq(Upload1)
    <3>1. baseUploads' \in [1 .. m -> Upload1]
      BY <1>2, <1>3, <1>4, <1>6 DEF Placed
    <3>2. QED
      BY <1>2, <3>1
  <2>2. batches' \in Seq(Seq(Post1)) /\ Len(batches') = 0
    <3>1. 1 \in 1 .. Len(batches)
      BY <1>1
    <3>2. RemoveAt(batches, 1) \in Seq(Seq(Post1)) /\ Len(RemoveAt(batches, 1)) = Len(batches) - 1
      BY <1>1, <3>1, TakenOut
    <3>3. QED
      BY <1>1, <1>3, <3>2
  <2>3. startedJobIds' \subseteq Files
    BY <1>3, <1>7, UploadFacts DEF UploadsInv
  <2>4. QED
    BY <1>3, <2>1, <2>2, <2>3, UploadFacts, TypedAgain DEF UploadsInv, PollType
<1>9. JobsMatchFiles'
  <2> SUFFICES ASSUME NEW i \in 1 .. m
               PROVE  /\ baseUploads'[i].job \in {NoJob, baseUploads'[i].file}
                      /\ baseUploads'[i].status = "COMPLETED" =>
                           import[baseUploads'[i].file].done
    BY <1>3, <1>4 DEF JobsMatchFiles
  <2>1. CASE i > Ahead
    BY <1>6, <2>1
  <2>2. CASE ~(i > Ahead)
    BY <1>2, <1>6, <2>2 DEF UploadsInv, JobsMatchFiles
  <2>3. QED
    BY <2>1, <2>2
<1>10. UnendedInv'
  <2> SUFFICES ASSUME NEW i \in 1 .. m, ~isTerminalStatus(baseUploads'[i].status)
               PROVE  baseUploads'[i].job # NoJob /\ baseUploads'[i].job \in startedJobIds'
    BY <1>4 DEF UnendedInv, Over
  <2>1. CASE i > Ahead
    <3>1. Posting[i - Ahead].answer = "job" /\ baseUploads'[i].job = Posting[i - Ahead].file
      BY <1>6, <2>1 DEF isTerminalStatus
    <3>2. baseUploads'[i].job \in JobsOf(Posting)
      BY <1>1, <1>5, <2>1, <3>1 DEF JobsOf
    <3>3. QED
      BY <1>3, <1>7, <3>2, UploadsAssumption DEF UploadsAssumption
  <2>2. CASE ~(i > Ahead)
    BY <1>2, <1>3, <1>6, <2>2 DEF UploadsInv, UnendedInv, Over
  <2>3. QED
    BY <2>1, <2>2
<1>11. FilesInv'
  BY <1>2, <1>3, <1>4, <1>6 DEF UploadsInv, FilesInv
<1>12. PostsInv' /\ PollInv'
  BY <1>3, <1>7 DEF UploadsInv, PostsInv, PollInv
<1>13. NoneLost
  BY <1>2, <1>4, <1>6 DEF NoneLost
<1>14. QED
  BY <1>8, <1>9, <1>10, <1>11, <1>12, <1>13 DEF UploadsInv

LEMMA StatusStep ==
  ASSUME UploadsInv, handleStatusUpdate
  PROVE  UploadsInv' /\ NoneLost
<1> DEFINE m == Len(baseUploads)
           told(u) == u.job \in DOMAIN poll /\ isTerminalStatus(poll[u.job])
<1>1. /\ baseUploads \in Seq(Upload1) /\ m \in Nat /\ DOMAIN baseUploads = 1 .. m
      /\ \A i \in 1 .. m : baseUploads[i] \in Upload1
      /\ PollType
  BY UploadFacts DEF UploadsInv
<1>2. /\ poll' = NoPoll
      /\ UNCHANGED <<uploadQueue, startedJobIds, isUploading, batches, import, failed>>
      /\ \/ baseUploads' = baseUploads
         \/ baseUploads' = [i \in DOMAIN baseUploads |->
              IF told(baseUploads[i])
              THEN [baseUploads[i] EXCEPT !.status = poll[baseUploads[i].job]]
              ELSE baseUploads[i]]
  BY DEF handleStatusUpdate
<1> HIDE DEF m, told
<1>3. /\ DOMAIN baseUploads' = 1 .. m
      /\ \A i \in 1 .. m :
           \/ baseUploads'[i] = baseUploads[i]
           \/ /\ told(baseUploads[i])
              /\ baseUploads'[i] = [baseUploads[i] EXCEPT !.status = poll[baseUploads[i].job]]
  BY <1>1, <1>2
<1>4. ASSUME NEW i \in 1 .. m
      PROVE  /\ baseUploads'[i] \in Upload1
             /\ baseUploads'[i].file = baseUploads[i].file
             /\ baseUploads'[i].job = baseUploads[i].job
             /\ \/ baseUploads'[i] = baseUploads[i]
                \/ /\ baseUploads[i].job \in DOMAIN poll
                   /\ baseUploads'[i].status = poll[baseUploads[i].job]
                   /\ isTerminalStatus(baseUploads'[i].status)
  <2>1. CASE baseUploads'[i] = baseUploads[i]
    BY <1>1, <2>1
  <2>2. CASE /\ told(baseUploads[i])
             /\ baseUploads'[i] = [baseUploads[i] EXCEPT !.status = poll[baseUploads[i].job]]
    <3> DEFINE u == baseUploads[i]
               status == poll[u.job]
    <3>1. u.job \in DOMAIN poll /\ status \in Statuses
      BY <1>1, <2>2 DEF told, isTerminalStatus, Statuses
    <3>2. isTerminalStatus(status) /\ u \in Upload1 /\ baseUploads'[i] = [u EXCEPT !.status = status]
      BY <1>1, <2>2 DEF told
    <3> HIDE DEF u, status
    <3>3. /\ baseUploads'[i] \in Upload1 /\ baseUploads'[i].file = u.file
          /\ baseUploads'[i].job = u.job /\ baseUploads'[i].status = status
      BY <3>1, <3>2 DEF Upload1
    <3>4. QED
      BY <3>1, <3>2, <3>3 DEF u, status
  <2>3. QED
    BY <1>3, <2>1, <2>2
<1>5. Len(baseUploads') = m /\ baseUploads' \in Seq(Upload1)
  <2>1. baseUploads' \in [1 .. m -> Upload1]
    <3>1. baseUploads \in [1 .. m -> Upload1]
      BY <1>1, LenProperties DEF m
    <3>2. \A i \in 1 .. m : baseUploads'[i] \in Upload1
      BY <1>4
    <3>3. QED
      BY <1>1, <1>2, <1>3, <3>1, <3>2
  <2>2. QED
    BY <1>1, <2>1
<1>6. UploadsTypeOK'
  <2>1. PollType'
    BY <1>2 DEF PollType, NoPoll
  <2>2. QED
    BY <1>2, <1>5, <2>1, UploadFacts, OneBatch, TypedAgain DEF UploadsInv, UploadsTypeOK, Post1
<1>7. JobsMatchFiles'
  <2> SUFFICES ASSUME NEW i \in 1 .. m
               PROVE  /\ baseUploads'[i].job \in {NoJob, baseUploads'[i].file}
                      /\ baseUploads'[i].status = "COMPLETED" =>
                           import[baseUploads'[i].file].done
    BY <1>2, <1>3 DEF JobsMatchFiles
  <2>1. /\ baseUploads[i].job \in {NoJob, baseUploads[i].file}
        /\ baseUploads[i].status = "COMPLETED" => import[baseUploads[i].file].done
    BY <1>1 DEF UploadsInv, JobsMatchFiles
  <2>2. baseUploads[i].job \in DOMAIN poll => baseUploads[i].job = baseUploads[i].file
    BY <1>1, <2>1, UploadsAssumption DEF PollType, UploadsAssumption
  <2>3. QED
    BY <1>4, <2>1, <2>2 DEF UploadsInv, PollInv
<1>8. PostsInv'
  <2> SUFFICES ASSUME isUploading PROVE PostsInv'
    BY <1>2 DEF PostsInv
  <2>1. Posting' = Posting /\ Ahead' = Ahead
    BY <1>2, <1>5 DEF Posting, Ahead, m
  <2>2. ASSUME NEW q \in DOMAIN Posting PROVE baseUploads'[Ahead + q] = baseUploads[Ahead + q]
    <3>1. Ahead + q \in 1 .. m
      BY <1>1, OneBatch DEF UploadsInv, PostsInv, Ahead, m
    <3>2. baseUploads[Ahead + q] = [file |-> Posting[q].file, job |-> NoJob, status |-> "PENDING"]
      BY DEF UploadsInv, PostsInv
    <3>3. baseUploads[Ahead + q].job = NoJob
      BY <3>2
    <3>4. NoJob \notin DOMAIN poll
      BY <1>1, UploadsAssumption DEF PollType, UploadsAssumption
    <3>5. QED
      BY <1>4, <3>1, <3>3, <3>4
  <2>3. QED
    BY <1>2, <1>5, <2>1, <2>2 DEF UploadsInv, PostsInv, m
<1>9. UnendedInv'
  <2>1. isUploading => Posting' = Posting /\ Ahead' = Ahead
    BY <1>2, <1>5 DEF Posting, Ahead, m
  <2> SUFFICES ASSUME NEW i \in 1 .. m, ~isTerminalStatus(baseUploads'[i].status)
               PROVE  IF baseUploads'[i].job = NoJob THEN isUploading /\ i > Ahead'
                      ELSE baseUploads'[i].job \in startedJobIds
    BY <1>2, <1>3 DEF UnendedInv, Over
  <2>2. baseUploads'[i] = baseUploads[i]
    BY <1>4
  <2>3. QED
    BY <1>1, <2>1, <2>2 DEF UploadsInv, UnendedInv, Over
<1>10. FilesInv'
  BY <1>1, <1>2, <1>3, <1>4 DEF UploadsInv, FilesInv
<1>11. PollInv'
  BY <1>2 DEF UploadsInv, PollInv, NoPoll
<1>12. NoneLost
  BY <1>1, <1>3, <1>4 DEF NoneLost
<1>13. QED
  BY <1>6, <1>7, <1>8, <1>9, <1>10, <1>11, <1>12 DEF UploadsInv

-----------------------------------------------------------------------------
(* What the window guarantees.                                             *)

LEMMA UploadsBegin == UploadsInit => UploadsInv
<1> SUFFICES ASSUME UploadsInit PROVE UploadsInv
  OBVIOUS
<1>1. /\ uploadQueue = <<>> /\ baseUploads = <<>> /\ startedJobIds = {} /\ isUploading = FALSE
      /\ batches = <<>> /\ poll = NoPoll /\ DOMAIN poll = {} /\ failed = 0
      /\ import = [f \in Files |-> NoImport]
  BY DEF UploadsInit, NoPoll
<1>2. UploadsTypeOK
  <2>1. NoImport \in Import1
    BY DEF NoImport, Made, Import1
  <2>2. import \in [Files -> Import1] /\ failed \in 0 .. MaxFailures
    BY <1>1, <2>1, UploadsAssumption DEF UploadsAssumption
  <2>3. PollType
    BY <1>1 DEF PollType, NoPoll
  <2>4. /\ uploadQueue \in Seq(Files) /\ baseUploads \in Seq(Upload1)
        /\ batches \in Seq(Seq(Post1)) /\ Len(batches) = 0
    BY <1>1
  <2>5. \E S \in SUBSET Files : poll \in [S -> {"waiting"} \cup Statuses]
    BY <2>3 DEF PollType
  <2>6. /\ startedJobIds \subseteq Files /\ isUploading \in BOOLEAN
        /\ Len(batches) = IF isUploading THEN 1 ELSE 0
    <3>1. ~isUploading /\ isUploading \in BOOLEAN /\ startedJobIds \subseteq Files
      BY <1>1
    <3>2. QED
      BY <2>4, <3>1
  <2>7. QED
    BY <2>2, <2>4, <2>5, <2>6 DEF UploadsTypeOK, Upload1, Post1, Import1
<1>3. DOMAIN uploadQueue = {} /\ DOMAIN baseUploads = {}
  BY <1>1
<1>4. Told(NoImport)
  BY DEF NoImport, Made, Told
<1>5. JobsMatchFiles /\ PostsInv /\ UnendedInv /\ FilesInv /\ PollInv
  BY <1>1, <1>3, <1>4 DEF JobsMatchFiles, PostsInv, UnendedInv, FilesInv, PollInv
<1>6. QED
  BY <1>2, <1>5 DEF UploadsInv

LEMMA UploadsStep ==
  UploadsInv /\ [UploadsNext]_uploadsVars => UploadsInv' /\ NoneLost
<1> SUFFICES ASSUME UploadsInv, [UploadsNext]_uploadsVars PROVE UploadsInv' /\ NoneLost
  OBVIOUS
<1>1. CASE Window
  BY <1>1, AddStep, RemoveStep, RemoveUploadStep, StartStep, ClearStep, CloseStep DEF Window
<1>2. CASE Posts
  BY <1>2, BatchStep, PostStep DEF Posts
<1>3. CASE Polling
  BY <1>3, PollSteps, StatusStep DEF Polling
<1>4. CASE \E f \in Files : ImportGoesOn(f) \/ ImportFails(f) \/ CleanedUp(f)
  BY <1>4, ImportSteps
<1>5. CASE UNCHANGED uploadsVars
  <2>1. UNCHANGED <<uploadQueue, baseUploads, startedJobIds, isUploading, batches, poll, import, failed>>
    BY <1>5 DEF uploadsVars
  <2>2. QED
    BY <2>1, QueueSteps, UploadFacts DEF UploadsInv, FilesInv
<1>6. QED
  BY <1>1, <1>2, <1>3, <1>4, <1>5 DEF UploadsNext

LEMMA UploadsHold == UploadsSpec => []UploadsInv
  BY UploadsBegin, UploadsStep, PTL DEF UploadsSpec

\* For any number of files and failures every variable has its type, and the window has
\* one batch of posts under way while it is uploading, and none otherwise
\* (use-import.ts:151, 231).
THEOREM UploadsTypeCorrect == UploadsSpec => []UploadsTypeOK
<1>1. UploadsInv => UploadsTypeOK
  BY DEF UploadsInv
<1>2. QED
  BY <1>1, UploadsHold, PTL

\* Whatever is added to the list, removed from it and cleared while files are on their
\* way, no upload gets the import of another file, or its end, and none is shown as
\* completed whose import was never told to be (use-import.ts:193), however it fails,
\* stalls or runs again.
THEOREM JobsMatchFilesCorrect == UploadsSpec => []JobsMatchFiles
<1>1. UploadsInv => JobsMatchFiles
  BY DEF UploadsInv
<1>2. QED
  BY <1>1, UploadsHold, PTL

\* Neither closing, clearing nor removing takes an upload out of the list that has not
\* ended (ImportHistoryModal.tsx:366, use-import.ts:238).
THEOREM UnendedStaysCorrect == UploadsSpec => UnendedStays
<1>1. UploadsInv /\ [UploadsNext]_uploadsVars =>
        [\A i \in DOMAIN baseUploads :
           ~isTerminalStatus(baseUploads[i].status) =>
             \E k \in DOMAIN baseUploads' : baseUploads'[k].file = baseUploads[i].file]_uploadsVars
  BY UploadsStep DEF NoneLost
<1>2. QED
  BY <1>1, UploadsHold, PTL DEF UploadsSpec, UnendedStays
=============================================================================
