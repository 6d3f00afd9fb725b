-------------------------- MODULE PlaylistCreation --------------------------
(***************************************************************************)
(* One playlist job, from the request that enqueues it to its end: the     *)
(* attempts BullMQ makes of it, what they do on Spotify, the job's row in  *)
(* playlist_jobs, cancellation, and the check for stale jobs               *)
(* (workers/playlist-worker.ts, routes/playlists.ts).                      *)
(*                                                                         *)
(* An attempt has a handler, which BullMQ waits for, and a body,           *)
(* processPlaylistJob, which the handler races with a timer.  A body that  *)
(* lost the race is not stopped: it goes on while the retry runs.  Each    *)
(* await of the body ends a step.                                          *)
(*                                                                         *)
(* Abstractions.  The job's tracks are numbered, and go to Spotify in      *)
(* batches; tracks of a playlist are (attempt, batch, try) triples: each   *)
(* attempt resolves the tracks again and a shuffle gives another order,    *)
(* and fetchWithRetry repeats a request that is answered 5xx, within the   *)
(* one await of the body.  A playlist is named after the attempt that      *)
(* created it; one that a request answered 5xx may have made is left out,  *)
(* because nobody learns its id.  An attempt after the first follows a     *)
(* fault, so MaxFaults bounds the attempts.                                *)
(***************************************************************************)
EXTENDS Integers, FiniteSets

CONSTANTS
  Tracks,       \* how many tracks the job resolves to
  BatchSize,    \* TRACKS_PER_BATCH (100)
  MaxAttempts,  \* attempts of playlistQueue (5)
  MaxStalls,    \* maxStalledCount, BullMQ's default (1)
  MaxRetries,   \* how often one call repeats a request: retries of pRetry (3)
  HasCover,     \* the request came with a cover image
  MaxFaults     \* bound: errors, timeouts and restarts

ASSUME CreationAssumption ==
  /\ Tracks \in Nat \ {0}
  /\ BatchSize \in Nat \ {0}
  /\ MaxAttempts \in Nat \ {0}
  /\ MaxStalls \in Nat
  /\ MaxRetries \in Nat
  /\ HasCover \in BOOLEAN
  /\ MaxFaults \in Nat

Attempt == 1..(MaxFaults + 1)
NumBatches == (Tracks + BatchSize - 1) \div BatchSize
Batch == 0..(NumBatches - 1)
Try == 0..MaxRetries

VARIABLES
  \* the row in playlist_jobs
  status,
  playlist,     \* spotifyPlaylistId, 0 for none
  addedTracks,
  beat,         \* lastHeartbeatAt: never, older than 5 minutes, or fresh
  \* BullMQ
  queue,        \* where the job is
  failures,     \* attemptsMade
  stalls,       \* how often it was active when the process died
  handler,      \* how far the handler of the current attempt is
  \* the attempts
  attempt,      \* attempts begun; the last is the current one
  step,         \* where each body is
  target,       \* spotifyPlaylistId in each body
  next,         \* the next batch of each body
  tries,        \* requests for that batch answered 5xx in the current call
  \* Spotify
  created,      \* playlists that exist
  tracks,       \* what was added to each
  \* the requests
  route,        \* the create request still has to enqueue the job
  canceller,    \* where the cancel request is
  \* history
  timedOut,     \* an attempt lost the race against the timer
  downs,        \* requests to add tracks that were answered 5xx and repeated
  faults

row      == <<status, playlist, addedTracks, beat>>
bull     == <<queue, failures, stalls, handler>>
bodies   == <<attempt, step, target, next, tries>>
spotify  == <<created, tracks>>
requests == <<route, canceller>>
noted    == <<timedOut, downs>>
history  == <<noted, faults>>
vars     == <<row, bull, bodies, spotify, requests, history>>

Init ==
  /\ status = "PENDING"
  /\ playlist = 0
  /\ addedTracks = 0
  /\ beat = "never"
  /\ queue = "none"
  /\ failures = 0
  /\ stalls = 0
  /\ handler = "idle"
  /\ attempt = 0
  /\ step = [a \in Attempt |-> "idle"]
  /\ target = [a \in Attempt |-> 0]
  /\ next = [a \in Attempt |-> 0]
  /\ tries = [a \in Attempt |-> 0]
  /\ created = {}
  /\ tracks = [a \in Attempt |-> {}]
  /\ route = "enqueue"
  /\ canceller = "idle"
  /\ timedOut = FALSE
  /\ downs = 0
  /\ faults = 0

Fault == faults < MaxFaults /\ faults' = faults + 1

Aged(b) == IF b = "fresh" THEN "old" ELSE b

Goto(a, s) == step' = [step EXCEPT ![a] = s]

(* A body ends; its locals are dead.                                       *)
EndBody(a) ==
  /\ Goto(a, "idle")
  /\ target' = [target EXCEPT ![a] = 0]
  /\ next' = [next EXCEPT ![a] = 0]
  /\ tries' = [tries EXCEPT ![a] = 0]

-----------------------------------------------------------------------------
(* The requests.  The row exists when the job is enqueued; a cancel        *)
(* request may come between.                                               *)

Enqueue ==
  /\ route = "enqueue"
  /\ route' = "done"
  /\ queue' = "waiting"
  /\ UNCHANGED <<row, failures, stalls, handler, bodies, spotify, canceller, history>>

EnqueueFails ==
  /\ route = "enqueue"
  /\ Fault
  /\ route' = "done"
  /\ UNCHANGED <<row, bull, bodies, spotify, canceller, noted>>

CancelRead ==
  /\ canceller = "idle"
  /\ status = "PENDING"
  /\ canceller' = "remove"
  /\ UNCHANGED <<row, bull, bodies, spotify, route, history>>

(* BullMQ refuses to remove a job that a worker holds: the request fails.  *)
CancelRemove ==
  /\ canceller = "remove"
  /\ IF queue = "active"
     THEN canceller' = "refused" /\ UNCHANGED queue
     ELSE /\ canceller' = "update"
          /\ queue' = IF queue = "none" THEN "none" ELSE "removed"
  /\ UNCHANGED <<row, failures, stalls, handler, bodies, spotify, route, history>>

CancelUpdate ==
  /\ canceller = "update"
  /\ canceller' = "done"
  /\ status' = "FAILED"
  /\ UNCHANGED <<playlist, addedTracks, beat, bull, bodies, spotify, route, history>>

-----------------------------------------------------------------------------
(* The body of an attempt.                                                 *)

Begin ==
  /\ queue = "waiting"
  /\ queue' = "active"
  /\ handler' = "run"
  /\ attempt' = attempt + 1
  /\ step' = [step EXCEPT ![attempt + 1] = "start"]
  /\ UNCHANGED <<row, failures, stalls, target, next, tries, spotify, requests, history>>

SetCreating(a) ==
  /\ step[a] \in {"start", "total"}
  /\ status' = "CREATING"
  /\ Goto(a, IF step[a] = "start" THEN "resolve" ELSE "load")
  /\ UNCHANGED <<playlist, addedTracks, beat, bull, attempt, target, next, tries,
                 spotify, requests, history>>

Resolve(a) ==
  /\ step[a] = "resolve"
  /\ Goto(a, "total")
  /\ UNCHANGED <<row, bull, attempt, target, next, tries, spotify, requests, history>>

\* Mutant: every attempt makes a playlist of its own.
LoadIgnoresPlaylist(a) ==
  /\ step[a] = "load"
  /\ next' = [next EXCEPT ![a] = addedTracks \div BatchSize]
  /\ Goto(a, "create")
  /\ UNCHANGED <<row, bull, attempt, target, tries, spotify, requests, history>>

\* Mutant: the batch to resume at is rounded up.
LoadRoundsUp(a) ==
  /\ step[a] = "load"
  /\ target' = [target EXCEPT ![a] = playlist]
  /\ next' = [next EXCEPT ![a] = (addedTracks + BatchSize) \div BatchSize]
  /\ Goto(a, IF playlist = 0 THEN "create" ELSE "reuse")
  /\ UNCHANGED <<row, bull, attempt, tries, spotify, requests, history>>

\* Mutant: an attempt starts over with the first batch.
LoadStartsOver(a) ==
  /\ step[a] = "load"
  /\ target' = [target EXCEPT ![a] = playlist]
  /\ next' = [next EXCEPT ![a] = 0]
  /\ Goto(a, IF playlist = 0 THEN "create" ELSE "reuse")
  /\ UNCHANGED <<row, bull, attempt, tries, spotify, requests, history>>

(* The row is read: was a playlist created before, and how far did an      *)
(* earlier attempt get?                                                    *)
Load(a) ==
  /\ step[a] = "load"
  /\ target' = [target EXCEPT ![a] = playlist]
  /\ next' = [next EXCEPT ![a] = addedTracks \div BatchSize]
  /\ Goto(a, IF playlist = 0 THEN "create" ELSE "reuse")
  /\ UNCHANGED <<row, bull, attempt, tries, spotify, requests, history>>

(* The loop over the batches, then the cover if there is one.              *)
FromBatch(n) == IF n < NumBatches THEN "add"
                ELSE IF HasCover THEN "cover" ELSE "complete"

CreatePlaylist(a) ==
  /\ step[a] = "create"
  /\ created' = created \union {a}
  /\ target' = [target EXCEPT ![a] = a]
  /\ Goto(a, "record")
  /\ UNCHANGED <<row, bull, attempt, next, tries, tracks, requests, history>>

(* The status becomes ADDING_TRACKS, with the id of a new playlist.        *)
Record(a) ==
  /\ step[a] \in {"record", "reuse"}
  /\ status' = "ADDING_TRACKS"
  /\ playlist' = IF step[a] = "record" THEN target[a] ELSE playlist
  /\ Goto(a, FromBatch(next[a]))
  /\ UNCHANGED <<addedTracks, beat, bull, attempt, target, next, tries, spotify,
                 requests, history>>

WithBatch(a) ==
  [tracks EXCEPT ![target[a]] = @ \union {<<a, next[a], tries[a]>>}]

AddTracks(a) ==
  /\ step[a] = "add"
  /\ tracks' = WithBatch(a)
  /\ tries' = [tries EXCEPT ![a] = 0]
  /\ Goto(a, "save")
  /\ UNCHANGED <<row, bull, attempt, target, next, created, requests, history>>

(* The request is answered 5xx, whether Spotify added the batch or not,    *)
(* and the call makes it again.  After the last repeat the answer ends the *)
(* call like any error: BodyFails, here or after AddTracks.                *)
AddTracksAgain(a) ==
  /\ step[a] = "add"
  /\ tries[a] < MaxRetries
  /\ Fault
  /\ tracks' \in {tracks, WithBatch(a)}
  /\ tries' = [tries EXCEPT ![a] = @ + 1]
  /\ downs' = downs + 1
  /\ UNCHANGED <<row, bull, attempt, step, target, next, created, requests, timedOut>>

Smaller(m, n) == IF m < n THEN m ELSE n

SaveProgress(a) ==
  /\ step[a] = "save"
  /\ status' = "ADDING_TRACKS"
  /\ addedTracks' = Smaller((next[a] + 1) * BatchSize, Tracks)
  /\ next' = [next EXCEPT ![a] = @ + 1]
  /\ Goto(a, FromBatch(next[a] + 1))
  /\ UNCHANGED <<playlist, beat, bull, attempt, target, tries, spotify, requests, history>>

StartUpload(a) ==
  /\ step[a] = "cover"
  /\ status' = "UPLOADING_IMAGE"
  /\ Goto(a, "upload")
  /\ UNCHANGED <<playlist, addedTracks, beat, bull, attempt, target, next, tries,
                 spotify, requests, history>>

Upload(a) ==
  /\ step[a] = "upload"
  /\ Goto(a, "complete")
  /\ UNCHANGED <<row, bull, attempt, target, next, tries, spotify, requests, history>>

Current(a) == a = attempt /\ handler = "run"

Complete(a) ==
  /\ step[a] = "complete"
  /\ status' = "COMPLETED"
  /\ addedTracks' = Tracks
  /\ EndBody(a)
  /\ handler' = IF Current(a) THEN "return" ELSE handler
  /\ UNCHANGED <<playlist, beat, queue, failures, stalls, attempt, spotify, requests,
                 history>>

-----------------------------------------------------------------------------
(* The handler of the current attempt.                                     *)

SpotifyCall == {"resolve", "create", "add", "upload"}

(* An await of the body throws.  An unrecoverable error (no user, no       *)
(* token, too few tracks, 403, a token invalidated after a 401) ends the   *)
(* job, a 401 is rethrown with the row untouched, and any other error is   *)
(* written to the row.  A body whose handler is gone fails unheard.        *)
BodyFails(a) ==
  /\ step[a] # "idle"
  /\ Fault
  /\ EndBody(a)
  /\ \/ ~Current(a) /\ UNCHANGED handler
     \/ Current(a) /\ handler' = "catch"
     \/ /\ Current(a)
        /\ step[a] \in SpotifyCall \union {"start", "load"}
        /\ handler' = "catchFinal"
     \/ Current(a) /\ step[a] \in SpotifyCall /\ handler' = "throw"
  /\ UNCHANGED <<row, queue, failures, stalls, attempt, spotify, requests, noted>>

(* 429: the job goes back to the queue, and no attempt is used up.         *)
RateLimited(a) ==
  /\ Current(a)
  /\ step[a] \in SpotifyCall
  /\ Fault
  /\ EndBody(a)
  /\ handler' = "idle"
  /\ queue' = "waiting"
  /\ beat' = Aged(beat)
  /\ UNCHANGED <<status, playlist, addedTracks, failures, stalls, attempt, spotify,
                 requests, noted>>

(* The timer wins the race; the body goes on.                              *)
Timeout ==
  /\ handler = "run"
  /\ Fault
  /\ handler' = "catch"
  /\ timedOut' = TRUE
  /\ UNCHANGED <<row, queue, failures, stalls, bodies, spotify, requests, downs>>

CatchWrites ==
  /\ handler \in {"catch", "catchFinal"}
  /\ handler' = IF handler = "catch" THEN "throw" ELSE "throwFinal"
  /\ status' = "FAILED"
  /\ UNCHANGED <<playlist, addedTracks, beat, queue, failures, stalls, bodies, spotify,
                 requests, history>>

(* The write fails, and its error takes the place of the caught one.       *)
CatchWriteFails ==
  /\ handler \in {"catch", "catchFinal"}
  /\ Fault
  /\ handler' = "throw"
  /\ UNCHANGED <<row, queue, failures, stalls, bodies, spotify, requests, noted>>

JobFailed ==
  /\ handler \in {"throw", "throwFinal"}
  /\ handler' = "idle"
  /\ failures' = failures + 1
  /\ queue' = IF handler = "throwFinal" \/ failures + 1 >= MaxAttempts
              THEN "failed" ELSE "waiting"
  /\ beat' = Aged(beat)
  /\ UNCHANGED <<status, playlist, addedTracks, stalls, bodies, spotify, requests, history>>

JobCompleted ==
  /\ handler = "return"
  /\ handler' = "idle"
  /\ queue' = "completed"
  /\ beat' = Aged(beat)
  /\ UNCHANGED <<status, playlist, addedTracks, failures, stalls, bodies, spotify,
                 requests, history>>

Heartbeat ==
  /\ handler # "idle"
  /\ beat' = "fresh"
  /\ UNCHANGED <<status, playlist, addedTracks, bull, bodies, spotify, requests,
                 history>>

InProgress == {"CREATING", "ADDING_TRACKS", "UPLOADING_IMAGE"}

\* Mutant: every row without a recent heartbeat is stale.
CheckStaleAnyStatus ==
  /\ beat = "old"
  /\ status' = "FAILED"
  /\ UNCHANGED <<playlist, addedTracks, beat, bull, bodies, spotify, requests,
                 history>>

\* Mutant: jobs that upload their cover are not checked.
CheckStaleSkipsUploads ==
  /\ status \in InProgress \ {"UPLOADING_IMAGE"}
  /\ beat = "old"
  /\ status' = "FAILED"
  /\ UNCHANGED <<playlist, addedTracks, beat, bull, bodies, spotify, requests,
                 history>>

(* checkStaleJobs: a row that never had a heartbeat is not stale, and a    *)
(* retry that has not had its first one yet may be.                        *)
CheckStale ==
  /\ status \in InProgress
  /\ beat = "old"
  /\ status' = "FAILED"
  /\ UNCHANGED <<playlist, addedTracks, beat, bull, bodies, spotify, requests,
                 history>>

(* The process restarts; BullMQ gives a job that was active to a worker    *)
(* again, but fails one that has stalled too often.                        *)
Crash ==
  /\ Fault
  /\ queue' = IF queue # "active" THEN queue
              ELSE IF stalls < MaxStalls THEN "waiting" ELSE "failed"
  /\ stalls' = IF queue = "active" THEN stalls + 1 ELSE stalls
  /\ handler' = "idle"
  /\ step' = [a \in Attempt |-> "idle"]
  /\ target' = [a \in Attempt |-> 0]
  /\ next' = [a \in Attempt |-> 0]
  /\ tries' = [a \in Attempt |-> 0]
  /\ beat' = Aged(beat)
  /\ route' = "done"
  /\ canceller' = IF canceller = "idle" THEN "idle" ELSE "done"
  /\ UNCHANGED <<status, playlist, addedTracks, failures, attempt, spotify,
                 noted>>

-----------------------------------------------------------------------------
Request ==
  \/ Enqueue \/ EnqueueFails
  \/ CancelRead \/ CancelRemove \/ CancelUpdate

Body(a) ==
  \/ SetCreating(a) \/ Resolve(a) \/ Load(a) \/ CreatePlaylist(a) \/ Record(a)
  \/ AddTracks(a) \/ SaveProgress(a) \/ StartUpload(a) \/ Upload(a) \/ Complete(a)

Handler == CatchWrites \/ JobFailed \/ JobCompleted

Failure(a) == BodyFails(a) \/ RateLimited(a) \/ AddTracksAgain(a)

Next ==
  \/ Request \/ Begin \/ Handler \/ Heartbeat \/ CheckStale
  \/ \E a \in Attempt : Body(a) \/ Failure(a)
  \/ Timeout \/ CatchWriteFails \/ Crash

Spec == Init /\ [][Next]_vars

(* The event loop runs every await that can resume, BullMQ starts jobs     *)
(* that wait, and checkStaleJobs runs every five minutes.  Cancellation    *)
(* and heartbeats need not happen.                                         *)
FairSpec ==
  /\ Spec
  /\ WF_vars(CancelUpdate)
  /\ WF_vars(Begin)
  /\ WF_vars(Handler)
  /\ WF_vars(CheckStale)
  /\ \A a \in Attempt : WF_vars(Body(a))

-----------------------------------------------------------------------------
(* Properties.                                                             *)

Step == {"idle", "start", "resolve", "total", "load", "create", "reuse",
         "record", "add", "save", "cover", "upload", "complete"}

TypeOK ==
  /\ status \in InProgress \union {"PENDING", "COMPLETED", "FAILED"}
  /\ playlist \in Attempt \union {0}
  /\ addedTracks \in 0..Tracks
  /\ beat \in {"never", "old", "fresh"}
  /\ queue \in {"none", "waiting", "active", "completed", "failed", "removed"}
  /\ failures \in Nat
  /\ stalls \in Nat
  /\ handler \in {"idle", "run", "catch", "catchFinal", "throw", "throwFinal", "return"}
  /\ attempt \in Attempt \union {0}
  /\ step \in [Attempt -> Step]
  /\ target \in [Attempt -> Attempt \union {0}]
  /\ next \in [Attempt -> Nat]
  /\ tries \in [Attempt -> Try]
  /\ created \in SUBSET Attempt
  /\ tracks \in [Attempt -> SUBSET (Attempt \X Batch \X Try)]
  /\ route \in {"enqueue", "done"}
  /\ canceller \in {"idle", "remove", "update", "refused", "done"}
  /\ timedOut \in BOOLEAN
  /\ downs \in Nat
  /\ faults \in 0..MaxFaults

TimesAdded(p, b) == Cardinality({x \in tracks[p] : x[2] = b})

(* A job that says COMPLETED has a playlist that holds every batch,        *)
(* whatever failed, crashed or was delayed on the way - unless an attempt  *)
(* timed out: its body goes on next to the retry, and the two can record   *)
(* each other's playlist and progress.                                     *)
CompletedHasAllTracks ==
  status = "COMPLETED" /\ ~timedOut =>
    playlist \in created /\ \A b \in Batch : TimesAdded(playlist, b) > 0

(* A batch is repeated in a playlist for two reasons only, and by each     *)
(* once: a retry of the job, which starts at the batch after the last that *)
(* was recorded, or at the last one if it was not full                     *)
(* (processPlaylistJob 185-203), and an answer 5xx to the request that     *)
(* adds the batch, which may have been added all the same                  *)
(* (fetchWithRetry).                                                       *)
RetriesRepeatOneBatch ==
  ~timedOut =>
    \A p \in created : Cardinality(tracks[p]) <= NumBatches + (attempt - p) + downs

(* Once a playlist is recorded in the row, no attempt replaces it by       *)
(* another: "Check if playlist was already created in a previous attempt   *)
(* (to avoid duplicates on retry)".                                        *)
RecordedPlaylistStays ==
  [][playlist # 0 /\ ~timedOut' => playlist' = playlist]_vars

(* When BullMQ has a job as completed, so has the row; nothing that comes  *)
(* later takes it back, but for a cancel request that read PENDING before  *)
(* the job began.                                                          *)
CompletedInBoth ==
  queue = "completed" /\ ~timedOut /\ canceller = "idle" => status = "COMPLETED"

(* A job that lived to its first heartbeat does not show progress for      *)
(* ever: whatever happens to its attempts, the row ends, and stays,        *)
(* COMPLETED or FAILED.  A last attempt that ends on a 401 or by a restart *)
(* leaves that to checkStaleJobs.                                          *)
RowSettles ==
  (status \in InProgress /\ beat # "never") ~> [](status \in {"COMPLETED", "FAILED"})
=============================================================================
