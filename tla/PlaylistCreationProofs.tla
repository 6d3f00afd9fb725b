----------------------- MODULE PlaylistCreationProofs -----------------------
(***************************************************************************)
(* What PlaylistCreation guarantees for any number of tracks, size of a    *)
(* batch, number of attempts and of faults.                                *)
(*                                                                         *)
(* FlowInv gives the types: attempts are paid for by faults, and a body    *)
(* that adds tracks has a playlist and a batch to add.  As long as no      *)
(* attempt has timed out, Alone says that only the current attempt has a   *)
(* body, so that the row cannot change under it; Progress then relates the *)
(* row, what the body holds in its variables, and the playlist on Spotify; *)
(* Returned the row and BullMQ's view of the job; and Cost the length of   *)
(* the playlist, the batch to resume at, the number of attempts and that   *)
(* of requests repeated within an attempt.                                 *)
(***************************************************************************)
EXTENDS PlaylistCreation, FiniteSetTheorems, TLAPS

LEMMA Division ==
  ASSUME NEW x \in Nat, NEW d \in Nat \ {0}
  PROVE  /\ x \div d \in Nat
         /\ d * (x \div d) <= x
         /\ x < d * (x \div d) + d
OBVIOUS

LEMMA Scale ==
  ASSUME NEW d \in Nat \ {0}, NEW m \in Int, NEW n \in Int, m <= n
  PROVE  d * m <= d * n
OBVIOUS

LEMMA Unscale ==
  ASSUME NEW d \in Nat \ {0}, NEW m \in Int, NEW n \in Int, d * m < d * n
  PROVE  m < n
OBVIOUS

(* The batches cover the tracks, and none is empty.                        *)
LEMMA Batches ==
  /\ NumBatches \in Nat \ {0}
  /\ Tracks <= BatchSize * NumBatches
  /\ \A b \in Batch : b \in Nat /\ b < NumBatches /\ BatchSize * b < Tracks
<1> DEFINE x == Tracks + BatchSize - 1
<1>1. x \in Nat /\ BatchSize \in Nat \ {0} /\ Tracks \in Nat \ {0}
  BY CreationAssumption DEF CreationAssumption
<1>2. /\ NumBatches \in Nat /\ BatchSize * NumBatches <= x
      /\ x < BatchSize * NumBatches + BatchSize
  BY <1>1, Division DEF NumBatches
<1>3. Tracks <= BatchSize * NumBatches
  BY <1>1, <1>2
<1>4. NumBatches # 0
  BY <1>1, <1>3
<1>5. ASSUME NEW b \in Batch PROVE b \in Nat /\ b < NumBatches /\ BatchSize * b < Tracks
  <2>1. b \in Nat /\ b <= NumBatches - 1 /\ b < NumBatches
    BY <1>2, <1>5 DEF Batch
  <2>2. BatchSize * b <= BatchSize * (NumBatches - 1)
    BY <1>1, <1>2, <2>1, Scale
  <2>3. BatchSize * (NumBatches - 1) = BatchSize * NumBatches - BatchSize
    BY <1>1, <1>2
  <2>4. BatchSize * b \in Int /\ BatchSize * NumBatches \in Int
    BY <1>1, <1>2, <2>1
  <2> QED
    BY <1>1, <1>2, <2>1, <2>2, <2>3, <2>4
<1> QED
  BY <1>2, <1>3, <1>4, <1>5

-----------------------------------------------------------------------------
(* Types.                                                                  *)

Turn ==
  /\ attempt <= faults + 1
  /\ queue = "waiting" => attempt <= faults
  /\ handler \in {"catch", "catchFinal", "throw", "throwFinal"} => attempt <= faults
  /\ handler # "idle" => queue = "active"
  /\ route = "enqueue" => queue = "none" /\ attempt = 0

BodyInv(a) ==
  /\ step[a] \in {"record", "reuse", "add", "save"} => target[a] \in Attempt
  /\ step[a] \in {"add", "save"} => next[a] < NumBatches

FlowInv == TypeOK /\ Turn /\ \A a \in Attempt : BodyInv(a)

LEMMA Attempts == ASSUME TypeOK PROVE faults \in Nat /\ attempt \in Nat /\ MaxFaults \in Nat
BY CreationAssumption DEF CreationAssumption, TypeOK, Attempt

LEMMA FlowInit == Init => FlowInv
<1> SUFFICES ASSUME Init PROVE FlowInv
  OBVIOUS
<1>1. 0 \in 0..Tracks /\ 0 \in 0..MaxFaults /\ 0 \in Try
  BY CreationAssumption DEF CreationAssumption, Try
<1>2. TypeOK
  BY <1>1 DEF Init, TypeOK, Step
<1>3. Turn
  BY DEF Init, Turn
<1>4. \A a \in Attempt : BodyInv(a)
  BY DEF Init, BodyInv
<1> QED
  BY <1>2, <1>3, <1>4 DEF FlowInv

LEMMA FlowRequest == ASSUME FlowInv, Request PROVE FlowInv'
<1> USE DEF FlowInv, row, bull, bodies, spotify, requests, history, noted
<1>1. TypeOK'
  <2>1. CASE ~EnqueueFails
    BY <2>1
       DEF Request, Enqueue, CancelRead, CancelRemove, CancelUpdate, TypeOK
  <2>2. CASE EnqueueFails
    BY <2>2, Attempts DEF EnqueueFails, Fault, TypeOK
  <2> QED
    BY <2>1, <2>2
<1>2. Turn'
  BY Attempts
     DEF Request, Enqueue, EnqueueFails, CancelRead, CancelRemove, CancelUpdate, Fault, Turn
<1>3. \A a \in Attempt : BodyInv(a)'
  BY DEF Request, Enqueue, EnqueueFails, CancelRead, CancelRemove, CancelUpdate, BodyInv
<1> QED
  BY <1>1, <1>2, <1>3

LEMMA FlowBegin == ASSUME FlowInv, Begin PROVE FlowInv'
<1> USE DEF FlowInv, row, bull, bodies, spotify, requests, history, noted
<1>1. attempt + 1 \in Attempt
  BY Attempts DEF Begin, Turn, Attempt, TypeOK
<1>2. TypeOK'
  BY <1>1 DEF Begin, TypeOK, Step
<1>3. Turn'
  BY Attempts DEF Begin, Turn
<1>4. \A a \in Attempt : BodyInv(a)'
  BY <1>1 DEF Begin, BodyInv, TypeOK
<1> QED
  BY <1>2, <1>3, <1>4

LEMMA FlowBody == ASSUME FlowInv, NEW a \in Attempt, Body(a) PROVE FlowInv'
<1> USE DEF FlowInv, row, bull, bodies, spotify, requests, history, noted
<1>1. CASE SetCreating(a)
  BY <1>1 DEF SetCreating, Goto, TypeOK, Step, InProgress, Turn, BodyInv
<1>2. CASE Resolve(a)
  BY <1>2 DEF Resolve, Goto, TypeOK, Step, Turn, BodyInv
<1>3. CASE Load(a)
  <2>1. addedTracks \div BatchSize \in Nat
    BY Division, CreationAssumption DEF CreationAssumption, TypeOK
  <2>2. TypeOK'
    BY <1>3, <2>1 DEF Load, Goto, TypeOK, Step
  <2>3. Turn' /\ \A b \in Attempt : BodyInv(b)'
    BY <1>3 DEF Load, Goto, TypeOK, Turn, BodyInv
  <2> QED
    BY <2>2, <2>3
<1>4. CASE CreatePlaylist(a)
  BY <1>4 DEF CreatePlaylist, Goto, TypeOK, Step, Turn, BodyInv
<1>5. CASE Record(a)
  <2>1. TypeOK'
    BY <1>5 DEF Record, Goto, FromBatch, TypeOK, Step, InProgress, BodyInv
  <2>2. Turn' /\ \A b \in Attempt : BodyInv(b)'
    BY <1>5 DEF Record, Goto, FromBatch, TypeOK, Turn, BodyInv
  <2> QED
    BY <2>1, <2>2
<1>6. CASE AddTracks(a)
  <2>1. target[a] \in Attempt /\ next[a] \in Batch /\ tries[a] \in Try /\ 0 \in Try
    BY <1>6, Batches, CreationAssumption
       DEF AddTracks, BodyInv, TypeOK, Batch, Try, CreationAssumption
  <2>2. TypeOK'
    BY <1>6, <2>1 DEF AddTracks, WithBatch, Goto, TypeOK, Step
  <2>3. Turn' /\ \A b \in Attempt : BodyInv(b)'
    BY <1>6 DEF AddTracks, Goto, TypeOK, Turn, BodyInv
  <2> QED
    BY <2>2, <2>3
<1>7. CASE SaveProgress(a)
  <2>1. Smaller((next[a] + 1) * BatchSize, Tracks) \in 0..Tracks
    <3>1. (next[a] + 1) * BatchSize \in Nat
      BY CreationAssumption DEF CreationAssumption, TypeOK
    <3> QED
      BY <3>1, CreationAssumption DEF CreationAssumption, Smaller
  <2>2. TypeOK'
    BY <1>7, <2>1 DEF SaveProgress, Goto, FromBatch, TypeOK, Step, InProgress
  <2>3. Turn' /\ \A b \in Attempt : BodyInv(b)'
    BY <1>7 DEF SaveProgress, Goto, FromBatch, TypeOK, Turn, BodyInv
  <2> QED
    BY <2>2, <2>3
<1>8. CASE StartUpload(a)
  BY <1>8 DEF StartUpload, Goto, TypeOK, Step, InProgress, Turn, BodyInv
<1>9. CASE Upload(a)
  BY <1>9 DEF Upload, Goto, TypeOK, Step, Turn, BodyInv
<1>10. CASE Complete(a)
  <2>1. Tracks \in 0..Tracks /\ 0 \in Try
    BY CreationAssumption DEF CreationAssumption, Try
  <2> QED
    BY <1>10, <2>1 DEF Complete, EndBody, Goto, Current, TypeOK, Step, Turn, BodyInv
<1> QED
  BY <1>1, <1>2, <1>3, <1>4, <1>5, <1>6, <1>7, <1>8, <1>9, <1>10 DEF Body

(* A body that asks again changes what is on Spotify and nothing else of   *)
(* the job.                                                                *)
LEMMA FlowAgain == ASSUME FlowInv, NEW a \in Attempt, AddTracksAgain(a) PROVE FlowInv'
<1> USE DEF FlowInv, row, bull, bodies, spotify, requests, history, noted
<1>1. faults' \in 0..MaxFaults /\ faults' = faults + 1
  BY Attempts DEF AddTracksAgain, Fault, TypeOK
<1>2. tries' \in [Attempt -> Try] /\ downs' \in Nat
  BY CreationAssumption DEF AddTracksAgain, TypeOK, Try, CreationAssumption
<1>3. tracks' \in [Attempt -> SUBSET (Attempt \X Batch \X Try)]
  <2>1. target[a] \in Attempt /\ next[a] \in Batch /\ tries[a] \in Try
    BY Batches DEF AddTracksAgain, BodyInv, TypeOK, Batch
  <2> QED
    BY <2>1 DEF AddTracksAgain, WithBatch, TypeOK
<1>4. TypeOK'
  BY <1>1, <1>2, <1>3 DEF AddTracksAgain, TypeOK
<1>5. Turn' /\ \A b \in Attempt : BodyInv(b)'
  BY <1>1, Attempts DEF AddTracksAgain, Turn, BodyInv
<1> QED
  BY <1>4, <1>5

LEMMA FlowFailure == ASSUME FlowInv, NEW a \in Attempt, Failure(a) PROVE FlowInv'
<1> USE DEF FlowInv, row, bull, bodies, spotify, requests, history, noted
<1> SUFFICES ASSUME BodyFails(a) \/ RateLimited(a) PROVE FlowInv'
  BY FlowAgain DEF Failure
<1>1. faults' \in 0..MaxFaults /\ faults' = faults + 1 /\ 0 \in Try
  BY Attempts, CreationAssumption
     DEF BodyFails, RateLimited, Fault, TypeOK, Try, CreationAssumption
<1>2. /\ handler' \in {"idle", "run", "catch", "catchFinal", "throw", "throwFinal", "return"}
      /\ handler' # "idle" => handler # "idle"
      /\ handler' \in {"catch", "catchFinal", "throw", "throwFinal"} =>
           handler \in {"run", "catch", "catchFinal", "throw", "throwFinal"}
  BY DEF BodyFails, RateLimited, Current, TypeOK
<1>3. TypeOK'
  BY <1>1, <1>2 DEF BodyFails, RateLimited, EndBody, Goto, Aged, TypeOK, Step
<1>4. Turn'
  BY <1>1, <1>2, Attempts DEF BodyFails, RateLimited, Turn, Current
<1>5. \A b \in Attempt : BodyInv(b)'
  BY DEF BodyFails, RateLimited, EndBody, Goto, TypeOK, BodyInv
<1> QED
  BY <1>3, <1>4, <1>5

LEMMA FlowHandler ==
  ASSUME FlowInv, Handler \/ Heartbeat \/ CheckStale \/ Timeout \/ CatchWriteFails
  PROVE  FlowInv'
<1> USE DEF FlowInv, row, bull, bodies, spotify, requests, history, noted
<1>1. TypeOK'
  <2>1. faults' \in 0..MaxFaults
    BY Attempts
       DEF Handler, CatchWrites, JobFailed, JobCompleted, Heartbeat, CheckStale, Timeout,
           CatchWriteFails, Fault, TypeOK
  <2>2. CASE JobFailed \/ JobCompleted
    BY <2>1, <2>2 DEF JobFailed, JobCompleted, Aged, TypeOK
  <2>3. CASE CatchWrites \/ Heartbeat \/ CheckStale
    BY <2>1, <2>3 DEF CatchWrites, Heartbeat, CheckStale, TypeOK
  <2>4. CASE Timeout \/ CatchWriteFails
    <3>1. handler' \in {"catch", "throw"} /\ timedOut' \in BOOLEAN
      BY <2>4 DEF Timeout, CatchWriteFails, TypeOK
    <3>2. UNCHANGED <<row, queue, failures, stalls, bodies, spotify, requests>>
      BY <2>4 DEF Timeout, CatchWriteFails
    <3>3. downs' = downs
      BY <2>4 DEF Timeout, CatchWriteFails
    <3> QED
      BY <2>1, <3>1, <3>2, <3>3 DEF TypeOK
  <2> QED
    BY <2>2, <2>3, <2>4 DEF Handler
<1>2. Turn'
  BY Attempts
     DEF Handler, CatchWrites, JobFailed, JobCompleted, Heartbeat, CheckStale, Timeout,
         CatchWriteFails, Fault, Turn
<1>3. \A a \in Attempt : BodyInv(a)'
  BY DEF Handler, CatchWrites, JobFailed, JobCompleted, Heartbeat, CheckStale, Timeout,
         CatchWriteFails, BodyInv
<1> QED
  BY <1>1, <1>2, <1>3

LEMMA FlowCrash == ASSUME FlowInv, Crash PROVE FlowInv'
<1> USE DEF FlowInv, row, bull, bodies, spotify, requests, history, noted
<1>1. faults' \in 0..MaxFaults /\ faults' = faults + 1 /\ 0 \in Try
  BY Attempts, CreationAssumption DEF Crash, Fault, TypeOK, Try, CreationAssumption
<1>2. TypeOK'
  BY <1>1 DEF Crash, Aged, TypeOK, Step
<1>3. Turn'
  BY <1>1, Attempts DEF Crash, Turn
<1>4. \A a \in Attempt : BodyInv(a)'
  BY DEF Crash, BodyInv
<1> QED
  BY <1>2, <1>3, <1>4

LEMMA FlowNext == FlowInv /\ [Next]_vars => FlowInv'
<1> SUFFICES ASSUME FlowInv, [Next]_vars PROVE FlowInv'
  OBVIOUS
<1>1. CASE UNCHANGED vars
  BY <1>1
     DEF vars, row, bull, bodies, spotify, requests, history, noted, FlowInv, TypeOK, Turn, BodyInv
<1> QED
  BY <1>1, FlowRequest, FlowBegin, FlowBody, FlowFailure, FlowHandler, FlowCrash DEF Next

LEMMA AlwaysFlow == Spec => []FlowInv
BY FlowInit, FlowNext, PTL DEF Spec

(* Every variable keeps its type: the row counts no more tracks than there *)
(* are, and only whole batches of the job are added                        *)
(* (playlist-worker.ts:185-217).                                           *)
THEOREM TypeCorrect == Spec => []TypeOK
<1>1. FlowInv => TypeOK
  BY DEF FlowInv
<1> QED
  BY <1>1, AlwaysFlow, PTL

-----------------------------------------------------------------------------
(* One body at a time.                                                     *)

Alone == ~timedOut => \A a \in Attempt : step[a] # "idle" => Current(a)

LEMMA AloneNext == FlowInv /\ Alone /\ [Next]_vars => Alone'
<1> SUFFICES ASSUME FlowInv, Alone, [Next]_vars, ~timedOut' PROVE Alone'
  BY DEF Alone
<1> USE DEF row, bull, bodies, spotify, requests, history, noted
<1>1. step \in [Attempt -> Step] /\ attempt \in Attempt \union {0}
  BY DEF FlowInv, TypeOK
<1>2. ~timedOut
  BY DEF Next, vars, Request, Enqueue, EnqueueFails, CancelRead, CancelRemove, CancelUpdate,
         Begin, Handler, CatchWrites, JobFailed, JobCompleted, Heartbeat, CheckStale, Timeout,
         CatchWriteFails, Crash, Body, SetCreating, Resolve, Load, CreatePlaylist, Record,
         AddTracks, SaveProgress, StartUpload, Upload, Complete, Failure, BodyFails,
         RateLimited, AddTracksAgain
<1>3. \A a \in Attempt : step[a] # "idle" => a = attempt /\ handler = "run"
  BY <1>2 DEF Alone, Current
<1>4. CASE UNCHANGED <<step, attempt, handler>>
  BY <1>2, <1>4 DEF Alone, Current
<1>5. CASE Begin
  <2>1. \A a \in Attempt : step[a] = "idle"
    BY <1>3, <1>5 DEF Begin, FlowInv, Turn
  <2> QED
    BY <1>1, <1>5, <2>1 DEF Begin, Alone, Current
<1>6. CASE \E a \in Attempt : Body(a)
  <2>1. PICK a \in Attempt : Body(a)
    BY <1>6
  <2>2. CASE Complete(a)
    BY <1>1, <1>3, <2>2 DEF Complete, EndBody, Goto, Alone, Current
  <2>3. CASE ~Complete(a)
    <3>1. /\ attempt' = attempt /\ handler' = handler /\ step[a] # "idle"
          /\ \E s : step' = [step EXCEPT ![a] = s]
      BY <2>1, <2>3
         DEF Body, SetCreating, Resolve, Load, CreatePlaylist, Record, AddTracks,
             SaveProgress, StartUpload, Upload, Goto
    <3> QED
      BY <1>1, <1>3, <3>1 DEF Alone, Current
  <2> QED
    BY <2>2, <2>3
<1>7. CASE \E a \in Attempt : Failure(a)
  <2>1. CASE \E a \in Attempt : AddTracksAgain(a)
    BY <1>4, <2>1 DEF AddTracksAgain
  <2>2. CASE \E a \in Attempt : BodyFails(a) \/ RateLimited(a)
    BY <1>1, <1>3, <2>2 DEF BodyFails, RateLimited, EndBody, Goto, Alone, Current
  <2> QED
    BY <1>7, <2>1, <2>2 DEF Failure
<1>8. CASE Handler \/ CatchWriteFails
  BY <1>3, <1>8
     DEF Handler, CatchWrites, JobFailed, JobCompleted, CatchWriteFails, Alone, Current
<1>9. CASE Crash
  BY <1>9 DEF Crash, Alone
<1>10. CASE Timeout
  BY <1>10 DEF Timeout
<1>11. CASE Request \/ Heartbeat \/ CheckStale \/ UNCHANGED vars
  <2>1. UNCHANGED <<step, attempt, handler>>
    BY <1>11
       DEF Request, Enqueue, EnqueueFails, CancelRead, CancelRemove, CancelUpdate,
           Heartbeat, CheckStale, vars
  <2> QED
    BY <1>4, <2>1
<1> QED
  BY <1>5, <1>6, <1>7, <1>8, <1>9, <1>10, <1>11 DEF Next

LEMMA AlwaysAlone == Spec => [](FlowInv /\ Alone)
<1>1. Init => Alone
  BY DEF Init, Alone
<1> QED
  BY <1>1, AloneNext, AlwaysFlow, PTL DEF Spec

-----------------------------------------------------------------------------
(* What the row, the body and the playlist know of each other.             *)

Held(p, b) == \E x \in tracks[p] : x[2] = b

HasPlaylist == {"reuse", "add", "save", "cover", "upload", "complete"}

RowProgress ==
  /\ playlist = 0 => addedTracks = 0
  /\ playlist # 0 => playlist \in created
  /\ playlist # 0 => \A b \in Batch : BatchSize * b < addedTracks => Held(playlist, b)
  /\ status = "COMPLETED" => playlist # 0 /\ \A b \in Batch : Held(playlist, b)

BodyProgress(a) ==
  /\ step[a] \in {"create", "record"} => playlist = 0 /\ next[a] = 0
  /\ step[a] = "record" => target[a] \in created
  /\ step[a] \in HasPlaylist =>
       /\ target[a] = playlist /\ playlist # 0
       /\ \A b \in Batch : b < next[a] => Held(playlist, b)
  /\ step[a] = "save" => Held(playlist, next[a])
  /\ step[a] \in {"cover", "upload", "complete"} => NumBatches <= next[a]

Progress == ~timedOut => RowProgress /\ \A a \in Attempt : BodyProgress(a)

(* A step of body a keeps the others out: they are idle.                   *)
LEMMA OnlyBody ==
  ASSUME FlowInv, Alone, ~timedOut, NEW a \in Attempt, step[a] # "idle",
         NEW s, Goto(a, s)
  PROVE  /\ step'[a] = s
         /\ \A b \in Attempt : b # a => step'[b] = "idle"
<1>1. \A b \in Attempt : b # a => step[b] = "idle"
  BY DEF Alone, Current
<1> QED
  BY <1>1 DEF FlowInv, TypeOK, Goto

LEMMA IdleProgress ==
  ASSUME NEW b, step'[b] = "idle"
  PROVE  BodyProgress(b)'
BY DEF BodyProgress, HasPlaylist

LEMMA ProgressBody ==
  ASSUME FlowInv, Alone, Progress, ~timedOut, NEW a \in Attempt, Body(a)
  PROVE  Progress'
<1> USE DEF row, bull, bodies, spotify, requests, history, noted
<1>1. /\ RowProgress /\ BodyProgress(a)
      /\ step \in [Attempt -> Step] /\ target \in [Attempt -> Attempt \union {0}]
      /\ next \in [Attempt -> Nat] /\ tracks \in [Attempt -> SUBSET (Attempt \X Batch \X Try)]
      /\ playlist \in Attempt \union {0} /\ 0 \notin Attempt
      /\ BatchSize \in Nat \ {0} /\ NumBatches \in Nat \ {0} /\ Tracks \in Nat
      /\ addedTracks \in Nat
  <2>1. RowProgress /\ BodyProgress(a)
    BY DEF Progress
  <2>2. /\ step \in [Attempt -> Step] /\ target \in [Attempt -> Attempt \union {0}]
        /\ next \in [Attempt -> Nat] /\ tracks \in [Attempt -> SUBSET (Attempt \X Batch \X Try)]
        /\ playlist \in Attempt \union {0} /\ addedTracks \in Nat
    BY DEF FlowInv, TypeOK
  <2>3. /\ 0 \notin Attempt
        /\ BatchSize \in Nat \ {0} /\ NumBatches \in Nat \ {0} /\ Tracks \in Nat
    BY Batches, CreationAssumption DEF Attempt, CreationAssumption
  <2> QED
    BY <2>1, <2>2, <2>3
<1>2. step[a] # "idle" /\ ~timedOut'
  BY DEF Body, SetCreating, Resolve, Load, CreatePlaylist, Record, AddTracks, SaveProgress,
         StartUpload, Upload, Complete
<1>3. ASSUME NEW s, Goto(a, s), RowProgress', BodyProgress(a)' PROVE Progress'
  BY <1>2, <1>3, OnlyBody, IdleProgress DEF Progress
<1>4. CASE SetCreating(a) \/ Resolve(a)
  <2>1. PICK s : Goto(a, s) /\ s \in {"resolve", "load", "total"}
    BY <1>4 DEF SetCreating, Resolve
  <2>2. RowProgress'
    BY <1>1, <1>4 DEF SetCreating, Resolve, RowProgress, Held
  <2>3. BodyProgress(a)'
    BY <1>1, <2>1 DEF Goto, BodyProgress, HasPlaylist
  <2> QED
    BY <1>3, <2>1, <2>2, <2>3
<1>5. CASE Load(a)
  <2>1. /\ step'[a] = IF playlist = 0 THEN "create" ELSE "reuse"
        /\ target'[a] = playlist /\ next'[a] = addedTracks \div BatchSize
        /\ UNCHANGED <<playlist, addedTracks, status, created, tracks>>
        /\ \E s : Goto(a, s)
    BY <1>1, <1>5 DEF Load, Goto
  <2>2. RowProgress'
    BY <1>1, <2>1 DEF RowProgress, Held
  <2>3. CASE playlist = 0
    <3>1. next'[a] = 0
      <4>1. addedTracks = 0
        BY <1>1, <2>3 DEF RowProgress
      <4>2. 0 \div BatchSize = 0
        BY <1>1
      <4> QED
        BY <2>1, <4>1, <4>2
    <3>2. BodyProgress(a)'
      BY <2>1, <2>3, <3>1 DEF BodyProgress, HasPlaylist
    <3> QED
      BY <1>3, <2>1, <2>2, <3>2
  <2>4. CASE playlist # 0
    <3>1. ASSUME NEW b \in Batch, b < next'[a] PROVE Held(playlist, b)
      <4>1. b \in Nat /\ next'[a] \in Nat /\ BatchSize * next'[a] <= addedTracks
        BY <1>1, <2>1, Batches, Division
      <4>2. BatchSize * (b + 1) <= BatchSize * next'[a]
        BY <1>1, <3>1, <4>1, Scale
      <4>3. BatchSize * (b + 1) = BatchSize * b + BatchSize
        BY <1>1, <4>1
      <4>4. BatchSize * b \in Nat /\ BatchSize * next'[a] \in Nat
        BY <1>1, <4>1
      <4>5. BatchSize * b < addedTracks
        BY <1>1, <4>1, <4>2, <4>3, <4>4
      <4> QED
        BY <1>1, <2>4, <4>5 DEF RowProgress
    <3>2. BodyProgress(a)'
      BY <2>1, <2>4, <3>1 DEF BodyProgress, HasPlaylist, Held
    <3> QED
      BY <1>3, <2>1, <2>2, <3>2
  <2> QED
    BY <2>3, <2>4
<1>6. CASE CreatePlaylist(a)
  <2>1. /\ step'[a] = "record" /\ target'[a] = a /\ next' = next /\ Goto(a, "record")
        /\ created' = created \union {a} /\ tracks' = tracks /\ step[a] = "create"
        /\ UNCHANGED <<playlist, addedTracks, status>>
    BY <1>1, <1>6 DEF CreatePlaylist, Goto
  <2>2. RowProgress'
    BY <1>1, <2>1 DEF RowProgress, Held
  <2>3. BodyProgress(a)'
    BY <1>1, <2>1 DEF BodyProgress, HasPlaylist
  <2> QED
    BY <1>3, <2>1, <2>2, <2>3
<1>7. CASE Record(a)
  <2>1. /\ step'[a] = FromBatch(next[a]) /\ Goto(a, FromBatch(next[a]))
        /\ playlist' = target[a] /\ target[a] # 0 /\ target[a] \in created
        /\ UNCHANGED <<addedTracks, target, next, created, tracks>>
        /\ status' = "ADDING_TRACKS"
    BY <1>1, <1>7
       DEF Record, Goto, BodyProgress, RowProgress, HasPlaylist, FlowInv, BodyInv
  <2>2. \A b \in Batch : b < next[a] => Held(target[a], b)
    <3>1. CASE step[a] = "record"
      <4>1. next[a] = 0
        BY <1>1, <3>1 DEF BodyProgress
      <4> QED
        BY <4>1, Batches
    <3>2. CASE step[a] = "reuse"
      BY <1>1, <3>2 DEF BodyProgress, HasPlaylist
    <3> QED
      BY <1>7, <3>1, <3>2 DEF Record
  <2>3. \A b \in Batch : BatchSize * b < addedTracks => Held(target[a], b)
    <3>1. CASE step[a] = "record"
      <4>1. addedTracks = 0
        BY <1>1, <3>1 DEF BodyProgress, RowProgress
      <4>2. \A b \in Batch : BatchSize * b \in Nat
        BY <1>1, Batches
      <4> QED
        BY <4>1, <4>2
    <3>2. CASE step[a] = "reuse"
      BY <1>1, <3>2 DEF BodyProgress, HasPlaylist, RowProgress
    <3> QED
      BY <1>7, <3>1, <3>2 DEF Record
  <2>4. RowProgress'
    BY <2>1, <2>3 DEF RowProgress, Held
  <2>5. /\ FromBatch(next[a]) \in {"add", "cover", "complete"}
        /\ FromBatch(next[a]) \in {"cover", "complete"} => NumBatches <= next[a]
    BY <1>1 DEF FromBatch
  <2>6. BodyProgress(a)'
    BY <2>1, <2>2, <2>5 DEF BodyProgress, HasPlaylist, Held
  <2> QED
    BY <1>3, <2>1, <2>4, <2>6
<1>8. CASE AddTracks(a)
  <2>1. /\ step'[a] = "save" /\ Goto(a, "save") /\ step[a] = "add" /\ target[a] = playlist
        /\ playlist \in Attempt /\ playlist # 0
        /\ tracks' = [tracks EXCEPT ![playlist] = @ \union {<<a, next[a], tries[a]>>}]
        /\ UNCHANGED <<addedTracks, playlist, status, target, next, created>>
    BY <1>1, <1>8 DEF AddTracks, WithBatch, Goto, BodyProgress, HasPlaylist
  <2>2. /\ tracks'[playlist] = tracks[playlist] \union {<<a, next[a], tries[a]>>}
    BY <1>1, <2>1
  <2>3. /\ \A b : Held(playlist, b) => Held(playlist, b)'
        /\ Held(playlist, next[a])'
    <3>1. \A b : Held(playlist, b) => Held(playlist, b)'
      BY <2>1, <2>2 DEF Held
    <3>2. <<a, next[a], tries[a]>>[2] = next[a]
      OBVIOUS
    <3> QED
      BY <2>1, <2>2, <3>1, <3>2 DEF Held
  <2>4. RowProgress'
    BY <1>1, <2>1, <2>3 DEF RowProgress
  <2>5. BodyProgress(a)'
    BY <1>1, <2>1, <2>3 DEF BodyProgress, HasPlaylist
  <2> QED
    BY <1>3, <2>1, <2>4, <2>5
<1>9. CASE SaveProgress(a)
  <2>1. /\ step'[a] = FromBatch(next[a] + 1) /\ Goto(a, FromBatch(next[a] + 1))
        /\ step[a] = "save" /\ target[a] = playlist /\ playlist # 0
        /\ next'[a] = next[a] + 1
        /\ addedTracks' = Smaller((next[a] + 1) * BatchSize, Tracks)
        /\ status' = "ADDING_TRACKS"
        /\ UNCHANGED <<playlist, target, created, tracks>>
    BY <1>1, <1>9 DEF SaveProgress, Goto, BodyProgress, HasPlaylist
  <2>2. \A b \in Batch : b < next[a] + 1 => Held(playlist, b)
    <3>1. ASSUME NEW b \in Batch, b < next[a] + 1 PROVE b < next[a] \/ b = next[a]
      BY <1>1, <3>1, Batches
    <3> QED
      BY <1>1, <2>1, <3>1 DEF BodyProgress, HasPlaylist
  <2>3. \A b \in Batch : BatchSize * b < addedTracks' => Held(playlist, b)
    <3>1. SUFFICES ASSUME NEW b \in Batch, BatchSize * b < addedTracks'
                   PROVE  b < next[a] + 1
      BY <2>2
    <3>2. addedTracks' <= BatchSize * (next[a] + 1) /\ addedTracks' \in Nat
      <4>1. (next[a] + 1) * BatchSize = BatchSize * (next[a] + 1)
        BY <1>1
      <4>2. (next[a] + 1) * BatchSize \in Nat
        BY <1>1
      <4> QED
        BY <1>1, <2>1, <4>1, <4>2 DEF Smaller
    <3>3. BatchSize * b \in Nat /\ BatchSize * (next[a] + 1) \in Nat /\ b \in Nat
      BY <1>1, Batches
    <3>4. BatchSize * b < BatchSize * (next[a] + 1)
      BY <3>1, <3>2, <3>3
    <3> QED
      BY <1>1, <3>3, <3>4, Unscale
  <2>4. RowProgress'
    BY <1>1, <2>1, <2>3 DEF RowProgress, Held
  <2>5. /\ FromBatch(next[a] + 1) \in {"add", "cover", "complete"}
        /\ FromBatch(next[a] + 1) \in {"cover", "complete"} => NumBatches <= next[a] + 1
    BY <1>1 DEF FromBatch
  <2>6. BodyProgress(a)'
    BY <2>1, <2>2, <2>5 DEF BodyProgress, HasPlaylist, Held
  <2> QED
    BY <1>3, <2>1, <2>4, <2>6
<1>10. CASE StartUpload(a) \/ Upload(a)
  <2>1. /\ step[a] \in {"cover", "upload"} /\ step'[a] \in {"upload", "complete"}
        /\ status' = "COMPLETED" => status = "COMPLETED"
        /\ UNCHANGED <<playlist, addedTracks, target, next, created, tracks>>
        /\ \E s : Goto(a, s)
    BY <1>1, <1>10 DEF StartUpload, Upload, Goto
  <2>2. RowProgress'
    BY <1>1, <2>1 DEF RowProgress, Held
  <2>3. BodyProgress(a)'
    BY <1>1, <2>1 DEF BodyProgress, HasPlaylist, Held
  <2> QED
    BY <1>3, <2>1, <2>2, <2>3
<1>11. CASE Complete(a)
  <2>1. /\ Goto(a, "idle") /\ step'[a] = "idle" /\ playlist # 0
        /\ UNCHANGED <<playlist, created, tracks>>
    BY <1>1, <1>11 DEF Complete, EndBody, Goto, BodyProgress, HasPlaylist
  <2>2. \A b \in Batch : Held(playlist, b)
    <3>1. NumBatches <= next[a] /\ \A b \in Batch : b < next[a] => Held(playlist, b)
      BY <1>1, <1>11 DEF Complete, BodyProgress, HasPlaylist
    <3>2. \A b \in Batch : b < next[a]
      BY <1>1, <3>1, Batches
    <3> QED
      BY <3>1, <3>2
  <2>3. RowProgress'
    BY <1>1, <2>1, <2>2 DEF RowProgress, Held
  <2> QED
    BY <1>3, <2>1, <2>3, IdleProgress
<1> QED
  BY <1>4, <1>5, <1>6, <1>7, <1>8, <1>9, <1>10, <1>11 DEF Body

LEMMA ProgressNext == FlowInv /\ Alone /\ Progress /\ [Next]_vars => Progress'
<1> SUFFICES ASSUME FlowInv, Alone, Progress, [Next]_vars, ~timedOut' PROVE Progress'
  BY DEF Progress
<1> USE DEF row, bull, bodies, spotify, requests, history, noted
<1>1. ~timedOut
  BY DEF Next, vars, Request, Enqueue, EnqueueFails, CancelRead, CancelRemove, CancelUpdate,
         Begin, Handler, CatchWrites, JobFailed, JobCompleted, Heartbeat, CheckStale, Timeout,
         CatchWriteFails, Crash, Body, SetCreating, Resolve, Load, CreatePlaylist, Record,
         AddTracks, SaveProgress, StartUpload, Upload, Complete, Failure, BodyFails,
         RateLimited, AddTracksAgain
<1>2. RowProgress /\ \A a \in Attempt : BodyProgress(a)
  BY <1>1 DEF Progress
<1>3. CASE \E a \in Attempt : Body(a)
  BY <1>1, <1>3, ProgressBody
<1>5. CASE \E a \in Attempt : AddTracksAgain(a)
  <2>1. PICK a \in Attempt : AddTracksAgain(a)
    BY <1>5
  <2>2. /\ UNCHANGED <<playlist, addedTracks, status, created, step, target, next>>
        /\ tracks' \in {tracks, WithBatch(a)}
    BY <2>1 DEF AddTracksAgain
  <2>3. \A p \in Attempt : tracks[p] \subseteq tracks'[p]
    BY <2>2 DEF WithBatch, FlowInv, TypeOK
  <2>4. \A b : playlist # 0 /\ Held(playlist, b) => Held(playlist, b)'
    BY <2>2, <2>3 DEF Held, FlowInv, TypeOK
  <2>5. RowProgress'
    BY <1>2, <2>2, <2>4 DEF RowProgress
  <2>6. ASSUME NEW b \in Attempt PROVE BodyProgress(b)'
    BY <1>2, <2>2, <2>4 DEF BodyProgress, HasPlaylist
  <2> QED
    BY <2>5, <2>6 DEF Progress
<1>4. CASE ~(\E a \in Attempt : Body(a)) /\ ~\E a \in Attempt : AddTracksAgain(a)
  <2>1. /\ UNCHANGED <<playlist, addedTracks, created, tracks>>
        /\ status' = "COMPLETED" => status = "COMPLETED"
    BY <1>4
       DEF Next, vars, Request, Enqueue, EnqueueFails, CancelRead, CancelRemove,
           CancelUpdate, Begin, Handler, CatchWrites, JobFailed, JobCompleted, Heartbeat,
           CheckStale, Timeout, CatchWriteFails, Crash, Failure, BodyFails, RateLimited
  <2>2. RowProgress'
    BY <1>2, <2>1 DEF RowProgress, Held
  <2>3. ASSUME NEW a \in Attempt PROVE BodyProgress(a)'
    <3>1. CASE step'[a] \in {"idle", "start"}
      BY <3>1 DEF BodyProgress, HasPlaylist
    <3>2. CASE step'[a] = step[a] /\ target'[a] = target[a] /\ next'[a] = next[a]
      BY <1>2, <2>1, <3>2 DEF BodyProgress, HasPlaylist, Held
    <3>3. CASE UNCHANGED bodies
      BY <3>2, <3>3
    <3>4. CASE Begin \/ Crash
      BY <3>1, <3>2, <3>4 DEF Begin, Crash, FlowInv, TypeOK
    <3>5. CASE \E b \in Attempt : Failure(b)
      BY <1>4, <1>5, <3>1, <3>2, <3>5
         DEF Failure, BodyFails, RateLimited, EndBody, Goto, FlowInv, TypeOK
    <3> QED
      BY <1>4, <3>3, <3>4, <3>5
         DEF Next, vars, Request, Enqueue, EnqueueFails, CancelRead, CancelRemove,
             CancelUpdate, Handler, CatchWrites, JobFailed, JobCompleted, Heartbeat,
             CheckStale, Timeout, CatchWriteFails
  <2> QED
    BY <2>2, <2>3 DEF Progress
<1> QED
  BY <1>3, <1>4, <1>5

LEMMA AlwaysProgress == Spec => [](FlowInv /\ Alone /\ Progress)
<1>1. Init => Progress
  <2>1. SUFFICES ASSUME Init PROVE RowProgress /\ \A a \in Attempt : BodyProgress(a)
    BY DEF Progress
  <2>2. RowProgress
    BY <2>1 DEF Init, RowProgress
  <2>3. ASSUME NEW a \in Attempt PROVE BodyProgress(a)
    <3>1. step[a] = "idle"
      BY <2>1 DEF Init
    <3> QED
      BY <3>1 DEF BodyProgress, HasPlaylist
  <2> QED
    BY <2>2, <2>3
<1> QED
  BY <1>1, ProgressNext, AlwaysAlone, PTL DEF Spec

-----------------------------------------------------------------------------
(* The theorems.                                                           *)

(* A playlist is a finite set of batches.                                  *)
LEMMA FiniteTracks ==
  ASSUME FlowInv
  PROVE  \A p \in Attempt : IsFiniteSet(tracks[p])
<1>1. IsFiniteSet(Attempt)
  BY CreationAssumption, FS_Interval DEF Attempt, CreationAssumption
<1>2. IsFiniteSet(Batch)
  BY Batches, FS_Interval DEF Batch
<1>3. IsFiniteSet(Try)
  BY CreationAssumption, FS_Interval DEF Try, CreationAssumption
<1>4. IsFiniteSet((Attempt \X Batch) \X Try)
  BY <1>1, <1>2, <1>3, FS_Product
<1> DEFINE Pairs == (Attempt \X Batch) \X Try
           Flat == [x \in Pairs |-> <<x[1][1], x[1][2], x[2]>>]
<1>5. Flat \in Surjection(Pairs, Attempt \X Batch \X Try)
  <2>1. Flat \in [Pairs -> Attempt \X Batch \X Try]
    OBVIOUS
  <2>2. ASSUME NEW a \in Attempt, NEW b \in Batch, NEW c \in Try
        PROVE  \E x \in Pairs : Flat[x] = <<a, b, c>>
    <3>1. <<<<a, b>>, c>> \in Pairs /\ Flat[<<<<a, b>>, c>>] = <<a, b, c>>
      OBVIOUS
    <3> QED
      BY <3>1
  <2>3. ASSUME NEW y \in Attempt \X Batch \X Try PROVE \E x \in Pairs : Flat[x] = y
    <3>1. /\ y[1] \in Attempt /\ y[2] \in Batch /\ y[3] \in Try
          /\ y = <<y[1], y[2], y[3]>>
      OBVIOUS
    <3> HIDE DEF Flat, Pairs
    <3> QED
      BY <2>2, <3>1
  <2> QED
    BY <2>1, <2>3 DEF Surjection
<1>6. IsFiniteSet(Attempt \X Batch \X Try)
  <2> HIDE DEF Flat
  <2> QED
    BY <1>4, <1>5, FS_Surjection
<1>7. \A p \in Attempt : tracks[p] \subseteq Attempt \X Batch \X Try
  BY DEF FlowInv, TypeOK
<1> QED
  BY <1>6, <1>7, FS_Subset

LEMMA HeldIsAdded ==
  ASSUME FlowInv, NEW p \in Attempt, NEW b, Held(p, b)
  PROVE  TimesAdded(p, b) > 0
<1> DEFINE S == {x \in tracks[p] : x[2] = b}
<1>2. IsFiniteSet(S)
  BY FiniteTracks, FS_Subset
<1>3. S # {}
  BY DEF Held
<1>4. Cardinality(S) \in Nat /\ Cardinality(S) # 0
  BY <1>2, <1>3, FS_EmptySet, FS_CardinalityType
<1> QED
  BY <1>4 DEF TimesAdded

(* A job that says COMPLETED has a playlist that holds every batch, after  *)
(* any errors, restarts and retries but for a timed-out attempt            *)
(* (playlist-worker.ts:160-218).                                           *)
THEOREM CompletedHasAllTracksCorrect == Spec => []CompletedHasAllTracks
<1>1. FlowInv /\ Progress => CompletedHasAllTracks
  <2> SUFFICES ASSUME FlowInv, Progress, status = "COMPLETED", ~timedOut
               PROVE  playlist \in created /\ \A b \in Batch : TimesAdded(playlist, b) > 0
    BY DEF CompletedHasAllTracks
  <2>1. playlist \in created /\ \A b \in Batch : Held(playlist, b)
    BY DEF Progress, RowProgress
  <2>2. playlist \in Attempt
    BY <2>1 DEF FlowInv, TypeOK
  <2> QED
    BY <2>1, <2>2, HeldIsAdded
<1> QED
  BY <1>1, AlwaysProgress, PTL

(* No attempt replaces the playlist recorded in the row by another         *)
(* (playlist-worker.ts:160-182).                                           *)
THEOREM RecordedPlaylistStaysCorrect == Spec => RecordedPlaylistStays
<1>1. ASSUME FlowInv /\ Progress, [Next]_vars, playlist # 0, ~timedOut'
      PROVE  playlist' = playlist
  <2> USE DEF row, bull, bodies, spotify, requests, history, noted
  <2>1. CASE \E a \in Attempt : Record(a)
    <3>1. PICK a \in Attempt : Record(a)
      BY <2>1
    <3>2. ~timedOut
      BY <1>1, <3>1 DEF Record
    <3>3. step[a] # "record"
      BY <1>1, <3>2 DEF Progress, BodyProgress
    <3> QED
      BY <3>1, <3>3 DEF Record
  <2>2. CASE ~\E a \in Attempt : Record(a)
    BY <1>1, <2>2
       DEF Next, vars, Request, Enqueue, EnqueueFails, CancelRead, CancelRemove, CancelUpdate,
           Begin, Handler, CatchWrites, JobFailed, JobCompleted, Heartbeat, CheckStale,
           Timeout, CatchWriteFails, Crash, Body, SetCreating, Resolve, Load, CreatePlaylist,
           AddTracks, SaveProgress, StartUpload, Upload, Complete, Failure, BodyFails,
           RateLimited, AddTracksAgain
  <2> QED
    BY <2>1, <2>2
<1>2. FlowInv /\ Progress /\ [Next]_vars =>
        [playlist # 0 /\ ~timedOut' => playlist' = playlist]_vars
  BY <1>1
<1> QED
  BY <1>2, AlwaysProgress, PTL DEF Spec, RecordedPlaylistStays

(* A body that has completed is over: from then on BullMQ and the row      *)
(* agree, unless a cancel request had read PENDING before.                 *)
Returned ==
  ~timedOut /\ canceller = "idle" /\ (handler = "return" \/ queue = "completed") =>
    status = "COMPLETED"

LEMMA ReturnedNext == FlowInv /\ Alone /\ Returned /\ [Next]_vars => Returned'
<1> SUFFICES ASSUME FlowInv, Alone, Returned, [Next]_vars,
                    ~timedOut', canceller' = "idle",
                    handler' = "return" \/ queue' = "completed"
             PROVE  status' = "COMPLETED"
  BY DEF Returned
<1> USE DEF row, bull, bodies, spotify, requests, history, noted
<1>1. ~timedOut /\ canceller = "idle"
  BY DEF Next, vars, Request, Enqueue, EnqueueFails, CancelRead, CancelRemove, CancelUpdate,
         Begin, Handler, CatchWrites, JobFailed, JobCompleted, Heartbeat, CheckStale, Timeout,
         CatchWriteFails, Crash, Body, SetCreating, Resolve, Load, CreatePlaylist, Record,
         AddTracks, SaveProgress, StartUpload, Upload, Complete, Failure, BodyFails,
         RateLimited, AddTracksAgain
<1>2. handler # "idle" => queue = "active"
  BY DEF FlowInv, Turn
<1>3. CASE \E a \in Attempt : Body(a)
  <2>1. PICK a \in Attempt : Body(a)
    BY <1>3
  <2>2. handler = "run" /\ queue = "active" /\ Current(a)
    BY <1>1, <1>2, <2>1
       DEF Alone, Current, Body, SetCreating, Resolve, Load, CreatePlaylist, Record,
           AddTracks, SaveProgress, StartUpload, Upload, Complete
  <2> QED
    BY <2>1, <2>2
       DEF Body, SetCreating, Resolve, Load, CreatePlaylist, Record,
           AddTracks, SaveProgress, StartUpload, Upload, Complete
<1>4. CASE \E a \in Attempt : Failure(a)
  BY <1>1, <1>2, <1>4
     DEF Failure, BodyFails, RateLimited, AddTracksAgain, Returned, Current
<1>5. CASE Request \/ Begin
  BY <1>1, <1>2, <1>5
     DEF Request, Enqueue, EnqueueFails, CancelRead, CancelRemove, CancelUpdate, Begin,
         Returned
<1>6. CASE Handler \/ Heartbeat \/ Timeout \/ CatchWriteFails
  BY <1>1, <1>2, <1>6
     DEF Handler, CatchWrites, JobFailed, JobCompleted, Heartbeat, Timeout, CatchWriteFails,
         Returned
<1>7. CASE CheckStale
  BY <1>1, <1>7 DEF CheckStale, InProgress, Returned
<1>8. CASE Crash
  BY <1>1, <1>8 DEF Crash, Returned
<1>9. CASE UNCHANGED vars
  BY <1>1, <1>9 DEF vars, Returned
<1> QED
  BY <1>3, <1>4, <1>5, <1>6, <1>7, <1>8, <1>9 DEF Next

(* A job that BullMQ has as completed is COMPLETED in the row, and stays   *)
(* so, whatever comes later but a cancel that read PENDING in time         *)
(* (playlist-worker.ts:211-240).                                  *)
THEOREM CompletedInBothCorrect == Spec => []CompletedInBoth
<1>1. Init => Returned
  BY DEF Init, Returned
<1>2. Returned => CompletedInBoth
  BY DEF Returned, CompletedInBoth
<1> QED
  BY <1>1, <1>2, ReturnedNext, AlwaysAlone, PTL DEF Spec

-----------------------------------------------------------------------------
(* What retries cost.                                                      *)

LEMMA AtLeast ==
  ASSUME NEW d \in Nat \ {0}, NEW n \in Nat, NEW x \in Nat, d * n <= x
  PROVE  n <= x \div d
<1>1. x \div d \in Nat /\ x < d * (x \div d) + d
  BY Division
<1>2. d * (x \div d) + d = d * (x \div d + 1) /\ d * n \in Nat /\ d * (x \div d + 1) \in Nat
  BY <1>1
<1>3. d * n < d * (x \div d + 1)
  BY <1>1, <1>2
<1>4. n < x \div d + 1
  BY <1>1, <1>3, Unscale
<1> QED
  BY <1>1, <1>4

LEMMA Exactly ==
  ASSUME NEW d \in Nat \ {0}, NEW n \in Nat
  PROVE  (d * n) \div d = n
<1> DEFINE q == (d * n) \div d
<1>1. d * n \in Nat
  OBVIOUS
<1>2. q \in Nat /\ d * q <= d * n /\ n <= q
  BY <1>1, Division, AtLeast
<1>3. d * q < d * (n + 1)
  <2>1. d * (n + 1) = d * n + d /\ d * q \in Nat
    BY <1>2
  <2> QED
    BY <1>1, <1>2, <2>1
<1>4. q < n + 1
  BY <1>2, <1>3, Unscale
<1> QED
  BY <1>2, <1>4

(* Where the next attempt resumes.                                         *)
Resume == addedTracks \div BatchSize

(* What the recorded playlist holds, and the retries since it was made, of *)
(* the job and of a request for tracks.                                    *)
Filled == IF playlist = 0 THEN 0 ELSE Cardinality(tracks[playlist])
Retries == (attempt - playlist) + downs

RowCost ==
  /\ \A p \in Attempt : p # playlist => tracks[p] = {}
  /\ \A p \in created : p <= attempt
  /\ playlist # 0 => Filled <= NumBatches + Retries /\ Filled <= Resume + 1 + Retries

BodyCost(a) ==
  /\ step[a] \in {"start", "resolve", "total", "load", "reuse", "add"} /\ playlist # 0 =>
       Filled <= Resume + Retries
  /\ step[a] \in {"record", "reuse", "add", "save"} => next[a] = Resume
  /\ step[a] = "record" => target[a] = a

Cost == ~timedOut => RowCost /\ \A a \in Attempt : BodyCost(a)

LEMMA Numbers ==
  ASSUME FlowInv
  PROVE  /\ attempt \in Nat /\ playlist \in Nat /\ addedTracks \in Nat /\ Retries \in Int
         /\ downs \in Nat
         /\ Resume \in Nat /\ Filled \in Nat
         /\ NumBatches \in Nat \ {0} /\ BatchSize \in Nat \ {0} /\ Tracks \in Nat \ {0}
         /\ 0 \notin Attempt /\ Attempt \subseteq Nat
         /\ \A p \in Attempt : IsFiniteSet(tracks[p])
<1>1. /\ attempt \in Nat /\ playlist \in Nat /\ addedTracks \in Nat /\ downs \in Nat
      /\ BatchSize \in Nat \ {0}
      /\ Tracks \in Nat \ {0} /\ 0 \notin Attempt /\ Attempt \subseteq Nat
      /\ playlist \in Attempt \union {0}
  BY CreationAssumption DEF CreationAssumption, FlowInv, TypeOK, Attempt
<1>2. Resume \in Nat /\ Retries \in Int
  BY <1>1, Division DEF Resume, Retries
<1>4. \A p \in Attempt : IsFiniteSet(tracks[p])
  BY FiniteTracks
<1>5. Filled \in Nat
  BY <1>1, <1>4, FS_CardinalityType DEF Filled
<1> QED
  BY <1>1, <1>2, <1>4, <1>5, Batches

LEMMA FilledByOne ==
  ASSUME FlowInv, NEW a \in Attempt, target[a] = playlist, playlist \in Attempt,
         playlist' = playlist, tracks' = WithBatch(a)
  PROVE  Filled' \in Nat /\ Filled' <= Filled + 1
<1>1. IsFiniteSet(tracks[playlist]) /\ playlist # 0
  BY Numbers
<1> DEFINE new == <<a, next[a], tries[a]>>
<1>2. tracks'[playlist] = tracks[playlist] \union {new}
  BY DEF WithBatch, FlowInv, TypeOK
<1> HIDE DEF new
<1>3. Cardinality(tracks[playlist]) \in Nat
  BY <1>1, FS_CardinalityType
<1>4. \/ Cardinality(tracks'[playlist]) = Cardinality(tracks[playlist])
      \/ Cardinality(tracks'[playlist]) = Cardinality(tracks[playlist]) + 1
  BY <1>1, <1>2, FS_AddElement
<1>5. Filled = Cardinality(tracks[playlist]) /\ Filled' = Cardinality(tracks'[playlist])
  BY <1>1 DEF Filled
<1> QED
  BY <1>3, <1>4, <1>5

LEMMA IdleCost == ASSUME NEW b, step'[b] = "idle" PROVE BodyCost(b)'
BY DEF BodyCost

LEMMA CostBody ==
  ASSUME FlowInv, FlowInv', Alone, Progress, Cost, ~timedOut, NEW a \in Attempt, Body(a)
  PROVE  Cost'
<1> USE DEF row, bull, bodies, spotify, requests, history, noted
<1>1. /\ RowCost /\ BodyCost(a) /\ RowProgress /\ BodyProgress(a)
      /\ step \in [Attempt -> Step] /\ target \in [Attempt -> Attempt \union {0}]
      /\ next \in [Attempt -> Nat] /\ tracks \in [Attempt -> SUBSET (Attempt \X Batch \X Try)]
      /\ playlist \in Attempt \union {0}
  BY DEF Progress, Cost, FlowInv, TypeOK
<1>2. /\ step[a] # "idle" /\ ~timedOut' /\ attempt' = attempt /\ attempt = a
      /\ downs' = downs
  BY DEF Alone, Current, Body, SetCreating, Resolve, Load, CreatePlaylist, Record, AddTracks,
         SaveProgress, StartUpload, Upload, Complete
<1>3. ASSUME NEW s, Goto(a, s), RowCost', BodyCost(a)' PROVE Cost'
  BY <1>2, <1>3, OnlyBody, IdleCost DEF Cost
<1>4. ASSUME UNCHANGED <<playlist, addedTracks, created, tracks>>
      PROVE  RowCost' /\ Filled' = Filled /\ Resume' = Resume /\ Retries' = Retries
  BY <1>1, <1>2, <1>4 DEF RowCost, Filled, Resume, Retries
<1>5. CASE SetCreating(a) \/ Resolve(a)
  <2>1. PICK s : Goto(a, s) /\ s \in {"resolve", "load", "total"}
    BY <1>5 DEF SetCreating, Resolve
  <2>2. UNCHANGED <<playlist, addedTracks, created, tracks>>
    BY <1>5 DEF SetCreating, Resolve
  <2>3. step[a] \in {"start", "resolve", "total"} /\ step'[a] = s
    BY <1>1, <1>5, <2>1 DEF SetCreating, Resolve, Goto
  <2>4. BodyCost(a)'
    BY <1>1, <1>4, <2>1, <2>2, <2>3 DEF BodyCost
  <2> QED
    BY <1>3, <1>4, <2>1, <2>2, <2>4
<1>6. CASE Load(a)
  <2>1. /\ step'[a] \in {"create", "reuse"} /\ step[a] = "load" /\ next'[a] = Resume
        /\ UNCHANGED <<playlist, addedTracks, created, tracks>>
        /\ \E s : Goto(a, s)
    BY <1>1, <1>6 DEF Load, Goto, Resume
  <2>2. BodyCost(a)'
    BY <1>1, <1>4, <2>1 DEF BodyCost
  <2> QED
    BY <1>3, <1>4, <2>1, <2>2
<1>7. CASE CreatePlaylist(a)
  <2>1. /\ step'[a] = "record" /\ Goto(a, "record") /\ target'[a] = a /\ next' = next
        /\ created' = created \union {a} /\ playlist = 0 /\ next[a] = 0 /\ addedTracks = 0
        /\ UNCHANGED <<playlist, addedTracks, tracks>>
    BY <1>1, <1>7 DEF CreatePlaylist, Goto, BodyProgress, RowProgress
  <2>2. RowCost'
    BY <1>1, <1>2, <2>1, Numbers DEF RowCost
  <2>3. Resume = 0 /\ Resume' = 0
    <3>1. 0 \div BatchSize = 0
      BY Numbers
    <3> QED
      BY <2>1, <3>1 DEF Resume
  <2>4. BodyCost(a)'
    BY <2>1, <2>3 DEF BodyCost
  <2> QED
    BY <1>3, <2>1, <2>2, <2>4
<1>8. CASE Record(a) /\ step[a] = "record"
  <2>1. /\ step'[a] = FromBatch(next[a]) /\ Goto(a, FromBatch(next[a])) /\ next' = next
        /\ playlist = 0 /\ playlist' = a /\ tracks[a] = {}
        /\ UNCHANGED <<addedTracks, created, tracks>>
    BY <1>1, <1>8, Numbers DEF Record, Goto, BodyProgress, BodyCost, RowCost
  <2>2. Filled' = 0 /\ Retries' = downs /\ Resume' = Resume /\ playlist' # 0
    <3>1. a # 0 /\ a - a = 0
      BY Numbers
    <3> QED
      BY <1>2, <2>1, <3>1, FS_EmptySet, Numbers DEF Filled, Retries, Resume
  <2>3. RowCost'
    BY <1>1, <1>2, <2>1, <2>2, Numbers DEF RowCost
  <2>4. BodyCost(a)'
    BY <1>1, <1>8, <2>1, <2>2, Numbers DEF BodyCost, FromBatch
  <2> QED
    BY <1>3, <2>1, <2>3, <2>4
<1>9. CASE Record(a) /\ step[a] = "reuse"
  <2>1. /\ step'[a] = FromBatch(next[a]) /\ Goto(a, FromBatch(next[a])) /\ next' = next
        /\ UNCHANGED <<playlist, addedTracks, created, tracks>>
    BY <1>1, <1>9 DEF Record, Goto
  <2>2. BodyCost(a)'
    BY <1>1, <1>4, <1>9, <2>1 DEF BodyCost, FromBatch
  <2> QED
    BY <1>3, <1>4, <2>1, <2>2
<1>10. CASE AddTracks(a)
  <2>1. /\ step'[a] = "save" /\ Goto(a, "save") /\ step[a] = "add" /\ target[a] = playlist
        /\ playlist \in Attempt /\ playlist # 0 /\ next[a] < NumBatches
        /\ tracks' = [tracks EXCEPT ![playlist] = @ \union {<<a, next[a], tries[a]>>}]
        /\ UNCHANGED <<addedTracks, playlist, next, created>>
    BY <1>1, <1>10 DEF AddTracks, WithBatch, Goto, BodyProgress, HasPlaylist, FlowInv, BodyInv
  <2>2. Filled' \in Nat /\ Filled' <= Filled + 1
    BY <2>1, FilledByOne DEF WithBatch
  <2>3. /\ Filled <= Resume + Retries /\ next[a] = Resume
        /\ Resume' = Resume /\ Retries' = Retries
    BY <1>1, <1>2, <2>1 DEF BodyCost, Resume, Retries
  <2>4. RowCost'
    <3>1. \A p \in Attempt : p # playlist' => tracks'[p] = {}
      BY <1>1, <2>1 DEF RowCost
    <3>2. \A p \in created' : p <= attempt'
      BY <1>1, <1>2, <2>1 DEF RowCost
    <3>3. Filled' <= NumBatches + Retries' /\ Filled' <= Resume' + 1 + Retries'
      BY <2>1, <2>2, <2>3, Numbers
    <3> QED
      BY <3>1, <3>2, <3>3 DEF RowCost
  <2>5. BodyCost(a)'
    BY <2>1, <2>3 DEF BodyCost
  <2> QED
    BY <1>3, <2>1, <2>4, <2>5
<1>11. CASE SaveProgress(a)
  <2>1. /\ step'[a] = FromBatch(next[a] + 1) /\ Goto(a, FromBatch(next[a] + 1))
        /\ step[a] = "save" /\ playlist # 0 /\ next[a] < NumBatches /\ next[a] \in Nat
        /\ next'[a] = next[a] + 1 /\ next[a] = Resume
        /\ addedTracks' = Smaller((next[a] + 1) * BatchSize, Tracks)
        /\ UNCHANGED <<playlist, created, tracks>>
    BY <1>1, <1>11
       DEF SaveProgress, Goto, BodyProgress, HasPlaylist, FlowInv, BodyInv, BodyCost
  <2>2. Filled' = Filled /\ Retries' = Retries
    BY <1>2, <2>1 DEF Filled, Retries
  <2>3. (next[a] + 1) * BatchSize = BatchSize * (next[a] + 1) /\ BatchSize * (next[a] + 1) \in Nat
    BY <2>1, Numbers
  <2>4. CASE next[a] + 1 < NumBatches
    <3>1. next[a] + 1 \in Batch
      BY <2>1, <2>4, Numbers DEF Batch
    <3>2. addedTracks' = BatchSize * (next[a] + 1)
      BY <2>1, <2>3, <3>1, Batches, Numbers DEF Smaller
    <3>3. Resume' = next[a] + 1
      BY <2>1, <3>2, Exactly, Numbers DEF Resume
    <3>4. RowCost'
      BY <1>1, <1>2, <2>1, <2>2, <3>3, Numbers DEF RowCost
    <3>5. Filled <= Resume' + Retries
      BY <1>1, <2>1, <3>3, Numbers DEF RowCost
    <3>6. BodyCost(a)'
      BY <2>1, <2>2, <2>4, <3>3, <3>5 DEF BodyCost, FromBatch
    <3> QED
      BY <1>3, <2>1, <3>4, <3>6
  <2>5. CASE ~(next[a] + 1 < NumBatches)
    <3>1. Resume' \in Nat /\ next[a] <= Resume'
      <4>1. BatchSize * next[a] < Tracks /\ BatchSize * next[a] \in Nat
        <5>1. next[a] \in Batch
          BY <2>1, Numbers DEF Batch
        <5> QED
          BY <2>1, <5>1, Batches, Numbers
      <4>2. BatchSize * next[a] <= BatchSize * (next[a] + 1)
        BY <2>1, Scale, Numbers
      <4>3. addedTracks' \in Nat /\ BatchSize * next[a] <= addedTracks'
        BY <2>1, <2>3, <4>1, <4>2, Numbers DEF Smaller
      <4> QED
        BY <2>1, <4>3, AtLeast, Division, Numbers DEF Resume
    <3>2. RowCost'
      BY <1>1, <1>2, <2>1, <2>2, <3>1, Numbers DEF RowCost
    <3>3. BodyCost(a)'
      BY <2>1, <2>5 DEF BodyCost, FromBatch
    <3> QED
      BY <1>3, <2>1, <3>2, <3>3
  <2> QED
    BY <2>4, <2>5
<1>12. CASE StartUpload(a) \/ Upload(a)
  <2>1. /\ step'[a] \in {"upload", "complete"} /\ \E s : Goto(a, s)
        /\ UNCHANGED <<playlist, addedTracks, created, tracks>>
    BY <1>1, <1>12 DEF StartUpload, Upload, Goto
  <2>2. BodyCost(a)'
    BY <2>1 DEF BodyCost
  <2> QED
    BY <1>3, <1>4, <2>1, <2>2
<1>13. CASE Complete(a)
  <2>1. /\ Goto(a, "idle") /\ step'[a] = "idle" /\ addedTracks' = Tracks
        /\ UNCHANGED <<playlist, created, tracks>>
    BY <1>1, <1>13 DEF Complete, EndBody, Goto
  <2>2. Resume' \in Nat /\ NumBatches <= Resume' + 1
    <3>1. /\ Resume' \in Nat /\ Tracks < BatchSize * Resume' + BatchSize
      BY <2>1, Numbers, Division DEF Resume
    <3>2. NumBatches - 1 \in Batch
      BY Numbers DEF Batch
    <3>3. BatchSize * (NumBatches - 1) < Tracks /\ BatchSize * (NumBatches - 1) \in Nat
      BY <3>2, Batches, Numbers
    <3>4. BatchSize * Resume' + BatchSize = BatchSize * (Resume' + 1)
          /\ BatchSize * (Resume' + 1) \in Nat
      BY <3>1, Numbers
    <3>5. NumBatches - 1 < Resume' + 1
      BY <3>1, <3>3, <3>4, Unscale, Numbers
    <3>6. NumBatches - 1 <= Resume'
      BY <3>1, <3>5, Numbers
    <3> QED
      BY <3>1, <3>6, Numbers
  <2>3. RowCost'
    <3>1. Filled' = Filled /\ Retries' = Retries
      BY <1>2, <2>1 DEF Filled, Retries
    <3> QED
      BY <1>1, <1>2, <2>1, <2>2, <3>1, Numbers DEF RowCost
  <2> QED
    BY <1>3, <2>1, <2>3, IdleCost
<1>14. Record(a) => step[a] \in {"record", "reuse"}
  BY DEF Record
<1> QED
  BY <1>5, <1>6, <1>7, <1>8, <1>9, <1>10, <1>11, <1>12, <1>13, <1>14 DEF Body

LEMMA CostNext ==
  FlowInv /\ Alone /\ Progress /\ Cost /\ [Next]_vars => Cost'
<1> SUFFICES ASSUME FlowInv, Alone, Progress, Cost, [Next]_vars, ~timedOut' PROVE Cost'
  BY DEF Cost
<1> USE DEF row, bull, bodies, spotify, requests, history, noted
<1>1. FlowInv' /\ ~timedOut
  BY FlowNext
     DEF Next, vars, Request, Enqueue, EnqueueFails, CancelRead, CancelRemove, CancelUpdate,
         Begin, Handler, CatchWrites, JobFailed, JobCompleted, Heartbeat, CheckStale, Timeout,
         CatchWriteFails, Crash, Body, SetCreating, Resolve, Load, CreatePlaylist, Record,
         AddTracks, SaveProgress, StartUpload, Upload, Complete, Failure, BodyFails,
         RateLimited, AddTracksAgain
<1>2. RowCost /\ \A a \in Attempt : BodyCost(a)
  BY <1>1 DEF Cost
<1>3. CASE \E a \in Attempt : Body(a)
  BY <1>1, <1>3, CostBody
<1>4. CASE Begin
  <2>1. /\ attempt' = attempt + 1 /\ UNCHANGED <<playlist, addedTracks, created, tracks>>
        /\ step' = [step EXCEPT ![attempt + 1] = "start"]
    BY <1>4 DEF Begin
  <2>2. \A a \in Attempt : step[a] = "idle"
    BY <1>1, <1>4 DEF Begin, Alone, Current, FlowInv, Turn
  <2>3. Filled' = Filled /\ Resume' = Resume /\ Retries' = Retries + 1
    <3>1. downs' = downs
      BY <1>4 DEF Begin
    <3> QED
      BY <2>1, <3>1, Numbers DEF Filled, Resume, Retries
  <2>4. RowCost'
    <3>1. \A p \in created : p \in Nat
      BY Numbers DEF FlowInv, TypeOK
    <3> QED
      BY <1>2, <2>1, <2>3, <3>1, Numbers DEF RowCost
  <2>5. ASSUME NEW a \in Attempt PROVE BodyCost(a)'
    <3>1. step'[a] \in {"idle", "start"}
      BY <2>1, <2>2 DEF FlowInv, TypeOK
    <3>2. playlist # 0 => Filled <= Resume + (Retries + 1)
      BY <1>2, Numbers DEF RowCost
    <3> QED
      BY <2>1, <2>3, <3>1, <3>2 DEF BodyCost
  <2> QED
    BY <2>4, <2>5 DEF Cost
<1>6. CASE \E a \in Attempt : AddTracksAgain(a)
  <2>1. PICK a \in Attempt : AddTracksAgain(a)
    BY <1>6
  <2>2. /\ UNCHANGED <<attempt, playlist, addedTracks, created, step, target, next>>
        /\ tracks' \in {tracks, WithBatch(a)} /\ downs' = downs + 1 /\ step[a] = "add"
    BY <2>1 DEF AddTracksAgain
  <2>3. target[a] = playlist /\ playlist \in Attempt
    BY <1>1, <2>2 DEF Progress, BodyProgress, HasPlaylist, FlowInv, TypeOK
  <2>4. Filled' \in Nat /\ Filled' <= Filled + 1
    <3>1. CASE tracks' = tracks
      BY <2>2, <3>1, Numbers DEF Filled
    <3>2. CASE tracks' = WithBatch(a)
      BY <2>2, <2>3, <3>2, FilledByOne
    <3> QED
      BY <2>2, <3>1, <3>2
  <2>5. Resume' = Resume /\ Retries' = Retries + 1
    BY <2>2, Numbers DEF Resume, Retries
  <2>6. RowCost'
    <3>1. \A p \in Attempt : p # playlist' => tracks'[p] = {}
      BY <1>2, <2>2, <2>3 DEF RowCost, WithBatch, FlowInv, TypeOK
    <3>2. \A p \in created' : p <= attempt'
      BY <1>2, <2>2 DEF RowCost
    <3>3. playlist' # 0 => Filled' <= NumBatches + Retries' /\ Filled' <= Resume' + 1 + Retries'
      BY <1>2, <2>2, <2>4, <2>5, Numbers DEF RowCost
    <3> QED
      BY <3>1, <3>2, <3>3 DEF RowCost
  <2>7. ASSUME NEW b \in Attempt PROVE BodyCost(b)'
    BY <1>2, <2>2, <2>4, <2>5, Numbers DEF BodyCost
  <2> QED
    BY <2>6, <2>7 DEF Cost
<1>5. CASE ~Begin /\ ~(\E a \in Attempt : Body(a)) /\ ~\E a \in Attempt : AddTracksAgain(a)
  <2>1. UNCHANGED <<attempt, playlist, addedTracks, created, tracks, downs>>
    BY <1>5
       DEF Next, vars, Request, Enqueue, EnqueueFails, CancelRead, CancelRemove,
           CancelUpdate, Handler, CatchWrites, JobFailed, JobCompleted, Heartbeat,
           CheckStale, Timeout, CatchWriteFails, Crash, Failure, BodyFails, RateLimited
  <2>2. RowCost' /\ Filled' = Filled /\ Resume' = Resume /\ Retries' = Retries
    BY <1>2, <2>1 DEF RowCost, Filled, Resume, Retries
  <2>3. ASSUME NEW a \in Attempt PROVE BodyCost(a)'
    <3>1. CASE step'[a] = "idle"
      BY <3>1 DEF BodyCost
    <3>2. CASE step'[a] = step[a] /\ target'[a] = target[a] /\ next'[a] = next[a]
      BY <1>2, <2>1, <2>2, <3>2 DEF BodyCost
    <3>3. CASE UNCHANGED bodies
      BY <3>2, <3>3
    <3>4. CASE Crash
      BY <3>1, <3>4 DEF Crash
    <3>5. CASE \E b \in Attempt : Failure(b)
      BY <1>4, <1>5, <3>1, <3>2, <3>5
         DEF Failure, BodyFails, RateLimited, EndBody, Goto, FlowInv, TypeOK
    <3> QED
      BY <1>5, <3>3, <3>4, <3>5
         DEF Next, vars, Request, Enqueue, EnqueueFails, CancelRead, CancelRemove,
             CancelUpdate, Handler, CatchWrites, JobFailed, JobCompleted, Heartbeat,
             CheckStale, Timeout, CatchWriteFails
  <2> QED
    BY <2>2, <2>3 DEF Cost
<1> QED
  BY <1>3, <1>4, <1>5, <1>6

(* Each retry of the job after the creation of a playlist repeats at most  *)
(* one batch of it, and so does each answer 5xx to a request that adds one *)
(* (playlist-worker.ts:184-203, spotify-api.ts:79-103).                    *)
THEOREM RetriesRepeatOneBatchCorrect == Spec => []RetriesRepeatOneBatch
<1>1. Init => Cost
  <2> SUFFICES ASSUME Init PROVE RowCost /\ \A a \in Attempt : BodyCost(a)
    BY DEF Cost
  <2>1. RowCost
    BY DEF Init, RowCost
  <2>2. ASSUME NEW a \in Attempt PROVE BodyCost(a)
    <3>1. step[a] = "idle"
      BY DEF Init
    <3> QED
      BY <3>1 DEF BodyCost
  <2> QED
    BY <2>1, <2>2
<1>2. FlowInv /\ Cost => RetriesRepeatOneBatch
  <2> SUFFICES ASSUME FlowInv, Cost, ~timedOut, NEW p \in created
               PROVE  Cardinality(tracks[p]) <= NumBatches + (attempt - p) + downs
    BY DEF RetriesRepeatOneBatch
  <2>1. p \in Attempt /\ p \in Nat /\ p <= attempt /\ RowCost
    BY Numbers DEF Cost, RowCost, FlowInv, TypeOK
  <2>2. CASE p = playlist
    BY <2>1, <2>2, Numbers DEF RowCost, Filled, Retries
  <2>3. CASE p # playlist
    <3>1. Cardinality(tracks[p]) = 0
      BY <2>1, <2>3, FS_EmptySet DEF RowCost
    <3> QED
      BY <2>1, <3>1, Numbers
  <2> QED
    BY <2>2, <2>3
<1> QED
  BY <1>1, <1>2, CostNext, AlwaysProgress, PTL DEF Spec
=============================================================================
