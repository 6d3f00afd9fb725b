# Specifications of the Spotify Analytics application

TLA+ models of the parts of this repository in which several jobs, requests and
services act on the same data, the TLC runs that check them on small instances,
and TLAPS proofs of the properties that matter most for every value of the
constants. `PROJECT.json` lists components, runs, mutants, hazards and theorems,
and maps every definition to the source lines it stands for.

Paths below are relative to `src/apps/backend/src/` unless they begin with `src/`.

## 1. The system

A Fastify API, five BullMQ queues on one Redis, one Postgres (through Prisma), the
Spotify Web API, and a Next.js frontend. API and workers run in one Node process
under pm2 (`index.ts`), which heals missing metadata at each start. Every
`await` is a point at which another job or request can run; every process
restart ends all of them between two awaits, and BullMQ later gives the jobs that
were active to a worker again.

### Inventory

| Component | State it keeps | Operations | Interacts with | Hard behaviour | Correct means |
|---|---|---|---|---|---|
| Sync worker `workers/sync-worker.ts` | `users.lastIngestedAt`; locals of each job | `processSync`: page back through recently-played, insert, aggregate, move `lastIngestedAt` | ingestion, aggregation, token manager, Spotify | jobs of one user overlap (no jobId, concurrency 5); retries; list of 50 that forgets | every play ends in the database; nothing is missing below `lastIngestedAt` |
| Ingestion `services/ingestion.ts` | `listening_events`, `users.total*` | lookup, transaction, swallowed errors | sync worker | lookup is outside the transaction | a play is one row; counted, and not too often |
| Aggregation `services/aggregation.ts` | four statistics tables | parallel upserts of increments | sync worker, import | not transactional with the rows | tables count what is stored, and no more than the totals |
| Import `services/import.ts`, `basic-import.ts` | the same tables, `import_jobs` | batches: lookup, create, correct, aggregate | aggregation, sync jobs | restarts from the first record; a batch may repeat a play | no phantom statistics, no double counting by retries |
| Import queue and routes `workers/import-worker.ts`, `routes/import.ts` | `import_jobs`, uploaded files | upload, start, progress, failure, stale cleanup | import | retry that finds all done; cleanup against a slow queue | the job's status says what happened |
| Playlist worker `workers/playlist-worker.ts` | `playlist_jobs`, playlists on Spotify | attempts, resumption, time-out, heartbeat, stale check, 429 pause | Spotify, queue | a body that lost against the timer goes on; crash between Spotify and row | COMPLETED means complete; no second playlist |
| Playlist requests `routes/playlists.ts` | `playlist_jobs` | create (three kinds), cancel, list | slots, queue | find-then-create; cancel in three steps | one job per confirmation |
| Slots `lib/rate-limiter.ts` | `pendingKey`, `hourlyKey` in Redis | acquire, roll back, fall back, release | requests, worker's events | INCR-then-undo, failing Redis, release per attempt | limits hold; slots do not leak |
| Adaptive limiter `lib/rate-limiter.ts` | tokens, rate (in memory) | refill, wait, halve on 429, restore | Spotify client | floating point, bounds | rate stays in its range |
| Playlist tracks `services/playlist-service.ts` | none | queries, dedup, shuffle with spacing | playlist worker | randomised repair loop | a permutation, spaced when possible |
| Token manager `lib/token-manager.ts`, `lib/spotify.ts` | cached access token, lock (Redis), `spotify_auth` | get, refresh under lock, count failures, invalidate | every job, login | rotation of refresh tokens, lock expiry, stale cache | the stored token works; no false revocation |
| Login `routes/auth.ts` | `spotify_auth`, cache | callback: exchange, upsert, cache | token manager | overlaps a refresh | the new grant survives |
| Circuit breaker `lib/circuit-breaker.ts` | state, failures, last failure (in memory) | `execute` | Spotify client | calls end under another state than they began | opens when down, closes when up |
| Spotify client `lib/spotify-api.ts` | none | requests, repeated up to three times after an answer 5xx | breaker, limiter | classification of errors; a request that took effect is repeated | - |
| Metadata worker `workers/metadata-worker.ts`, `lib/redis.ts`, `services/healing.ts` | pending sets, locks of 24 hours, counter of the minute (Redis); catalog | pop a batch, lock, ask Spotify, store, queue again; heal at each start | ingestion, import, top statistics queue ids; sync jobs share the counter | ids are popped before they are processed; INCR and EXPIRE are two commands; locks outlive a failed batch | one call a day asks for an id; none is forgotten; the loop goes on |
| Top statistics `services/top-stats-service.ts`, `workers/top-stats-*`, `routes/stats.ts` | rankings and `topStatsRefreshedAt` of a user | lazy, on login, swept, manual, healing, within a playlist request | queue with fixed job ids, cron, login | an old job blocks a new one; a body that outlives its attempt; windows of hours against a daily sweep | fresh rankings for those who log in; no older ranking over a newer one |
| Confirmation tokens `lib/confirmation-token.ts`, `lib/idempotency.ts` | none: signed tokens; the unique key of a job | issue with a validation, verify with a creation | panels, playlist requests | expiry between the two; what was validated may change | only what was validated is created |
| Playlist panels `apps/frontend/src/components/playlists/*` | step, choice, token of an open panel | validate, confirm, create, back, close | playlist requests | answers that come after a close and reopen; lost answers and retries | no wait without end; one job per confirmation |
| Upload window `apps/frontend/src/hooks/use-import.ts`, `ImportHistoryModal.tsx` | list of uploads, started ids, poll | add, remove, post, poll, clear, close | import routes | uploads are told apart by their place in a list that shrinks | each upload shows its own import, and its end |
| Cron endpoints `routes/cron.ts` | `cron:` lock in Redis | seed syncs, sweep top statistics, clean up, manage partitions | all queues | lock without owner; users without valid authorization, or away for a week, are passed over | one seeding at a time; everyone who is due is seeded |
| RBAC, middleware, read-only API, dashboards | none shared | - | - | - | - |

The hard parts, by kind. *Interleaving*: overlapping syncs and imports, requests
for the last slot, refreshes of one token, calls that cross a breaker's
transition. *Failure between two steps*: after the transaction and before the
aggregation, after Spotify's answer and before the row. *Retries*: BullMQ's
attempts repeat a job from the start. *Time-outs*: the playlist timer, locks and
keys that expire; answers that reach a panel after it was closed. *Stale state*: what
a validation counted, an upload's place in a list, a job id that is still kept.
*Limits*: Spotify's list of 50, ten pages, the last batch, 150 requests a minute.

## 2. Modules

| Module | Role |
|---|---|
| `PlayLedger` | Abstract: what ingestion promises about one user's history |
| `ListeningIngestion` | Sync jobs and an import over the shared tables; implements `PlayLedger` |
| `SyncSeeding` | Extends it with the user: whether cron seeds syncs at all |
| `ListeningProofs` | Its safety and the refinement, for every instance |
| `ImportJobs` | Uploads, their jobs and attempts, status in Postgres and Redis |
| `ImportJobsProofs` | Its safety and that of `ImportUploads`, for every instance |
| `PlaylistWizard` | The panels that make a playlist, from the choice to the job |
| `PlaylistWizardProofs` | Its safety, for every instance |
| `PlaylistSlots` | Requests, Redis counters, rows and queue of many jobs |
| `PlaylistSlotsProofs` | Its safety, for every instance |
| `PlaylistCreation` | One playlist job through all its attempts |
| `PlaylistCreationProofs` | Its safety, for every instance |
| `TopStats` | The refresh of a user's rankings over the days |
| `TopStatsProofs` | Its safety, for every instance |
| `MetadataQueue` | Pending sets, locks and the loop of the metadata worker |
| `MetadataQueueProofs` | Its safety, for every instance |
| `ImportUploads` | The list of uploads in the browser |
| `TokenManager` | The tokens of one user under concurrent jobs and a login |
| `TokenManagerProofs` | Its safety and that of `CircuitBreaker`, for every instance |
| `CircuitBreaker` | The breaker under overlapping calls |
| `MC...` | Symmetry sets and functions for TLC |

The modules divide the two long paths of the system. A playlist goes from the panel
(`PlaylistWizard`: choice, token, request) over admission (`PlaylistSlots`: counters,
unique key, events) to the worker (`PlaylistCreation`: attempts, resumption). An import
goes from the browser (`ImportUploads`) over the queue (`ImportJobs`) to the tables
(`ListeningIngestion`), where it meets the syncs. Where two of them share a step, one
has its detail and the other its outcome: an attempt is one step in `PlaylistSlots`
and a dozen in `PlaylistCreation`; a batch is one step in `ImportJobs`.

Conventions. One action per step between two awaits. A definition named like
`CommitOverwrites` in front of `Commit`, commented *Mutant*, is a plausible bug;
it is used only to show that the properties notice it. Failures share a budget,
`MaxFaults`, which keeps the state space finite; an action that uses `Fault` is
one the code must survive. (In `ImportUploads` they are `MaxFailures` and `Fails`: it and
`CircuitBreaker` have names of their own for what every module has, since their theorems stand
next to those of another component.)

### ListeningIngestion

*State.* Spotify: `now`, the number of plays the user has made. Postgres:
`events` (per play: absent, estimated, actual), `totals` (its share in
`users.totalPlayCount`), `apiStats`/`importStats` (its share in each statistics
table), `lastIngested`. Each sync job: `pc`, `since` (lastSyncTimestamp), `before`
(cursor), `newest` (newestObservedTime), `pages`, `more`, `batch`, `added`
(allAddedEvents), `left` (tables not yet updated). The import: `ipc`, `icreate`,
`iupdate`, `ileft`. History: `lost`, plays whose insertion failed and was
swallowed.

*Actions and code.* `Start` reads the user; `FetchPage` is one request and all
decisions on its answer; `Lookup` the read of existing rows; `Commit` the
transaction with `createMany(skipDuplicates)` and the increment of the totals by
all of `toCreate`; `Aggregate(t)` one of the parallel updates; `Mark` the write of
`lastIngestedAt`. `SwallowedInsertError` is the catch in ingestion.ts:291, after
which the job goes on; `Abort` any error that fails the job; `AggregateFails` a
rejected upsert while the others still execute. The import has a lookup, a
creation, corrections one by one, and aggregation, without a transaction.

*Abstractions.* One user, because rows of different users are disjoint. A play is
a number in the order of `playedAt`. Statistics are kept per play, so that a
column is the sum over the plays under its key: this tells apart what a count
alone would not. Catalog rows, partitions and the token are possible failures.

### SyncSeeding

*State.* `user`: logged in within seven days ("recent"), not ("away"), or without a valid
authorization ("invalid"); and all of `ListeningIngestion`.

*Code.* `Seeded` is the where-clause of `seed-sync`, with a user who has never been ingested
in it whenever the login was. `Login`, `StaysAway`, `Invalidate` and `RefreshStoresValid` are
what moves the user in and out of it. Whether syncs run at all is a question of liveness
only: safety is checked and proved in `ListeningIngestion`, where any job may start at any
time.

### ImportJobs

*State.* Each upload: what its `file` holds, whether its format is `readable`, its
`request`. Postgres: `row` (the status in `import_jobs`), `aged` rows, and `stored`,
the plays of the user that have a row. Redis: `progress`, the status the user polls.
BullMQ: `queue`, `failures`, `stalls`. The worker, of which there is one
(concurrency 1): its `job`, its `step`, the plays still `todo`, and whether the
attempt has `added` any.

*Code.* `CreateRow ... FailRowFails` are the upload route, with a queue that does not
answer and may have the job all the same. `Detect ... Return` are the awaits of
`runImport` and of the two import functions, which write row and progress at the
same points; `AttemptFails` is an error at any of them, and leads through
`AnnounceFailure` and `RecordFailure`, which may fail too, to `Throw`. `Recover` is
what BullMQ does with a job whose lock expired: it runs again, or has failed if that
happened more than `MaxStalls` times (`maxStalledCount`, 1 unless configured, and
the code does not). `Cleanup` is the cron endpoint for PENDING rows.

*Abstractions.* A batch is one play, as `ListeningIngestion` has what happens inside
one. A file is the set of its plays that parse and resolve to a track. Of the
progress only the status is kept. Time matters to PENDING rows only.

### PlaylistCreation

*State.* The row (`status`, `playlist`, `addedTracks`, `beat`), the queue's view
(`queue`, `failures`, `stalls`), the handler of the current attempt, and for each attempt
the body: its `step`, the playlist it fills (`target`) and its next batch. Spotify
has `created` and `tracks`. A body whose handler has lost the race against the
timer keeps its `step` and goes on.

*Code.* `Begin ... Complete` are the awaits of `processPlaylistJob`; `BodyFails`
and `CatchWrites` the catch block with its three kinds of error; `RateLimited` the
429 branch, which calls `moveToDelayed` and returns, so that no attempt is used up;
`JobFailed`/`JobCompleted` what BullMQ does then; `CheckStale` the periodic check;
`CancelRead`, `CancelRemove`, `CancelUpdate` the three steps of a cancellation.
A job that was active when the process died runs again, but BullMQ fails it when
that has happened more than `MaxStalls` times; so it is in `PlaylistSlots`.

Inside one call the Spotify client repeats a request that was answered 5xx up to three
times (`fetchWithRetry`). Adding tracks is the request for which this shows: it may have
taken effect, and then `AddTracksAgain` adds the batch once more. `tries` counts the
requests of the current call, and `downs` all repetitions.

*Abstractions.* Tracks on Spotify are (attempt, batch, try) triples. An attempt resolves
its tracks again, and a shuffle gives another order each time: batches of two
attempts are therefore not the same tracks, and `CompletedHasAllTracks` speaks of
batch numbers. That the number of tracks is the same in each attempt is assumed.
A request whose answer is lost is a step followed by `BodyFails`. The repetition of the
other requests (a playlist created, renamed, or given its cover) is not told apart from a
single one; a playlist that was created and lost this way is never recorded.

### PlaylistSlots

*State.* Per request its position (`rpc`); Redis `slots` and `hourly`; rows and
queue per job; `releases`/`resets`, calls of `releaseJobSlot` that are between
their commands. Every Redis command of `tryAcquireJobSlot` is a step, and any of
them may fail, which leads to `Fallback`, the count in the database. An attempt is
one step here: `PlaylistCreation` has its details.

### PlaylistWizard

*State.* The panel: `panel` (closed, open, leaving), `step`, `choice`, `shown` (the
confirmation token it holds), `timers` (resets due 300 ms after a close). The network:
`calls`, requests under way and their answers, each with whether the panel still
`heard` them. The server: `tokens` issued, `jobs`. `stock` is how many tracks the worker can
use behind each choice, in the four classes the code tells apart, and `total` how many
Spotify counts, which is more when a playlist to shuffle has local files or tracks that are
gone. A token is `partial` if its validation counted more than the worker could have used.
`method` is which of the three panels it is; they differ in the default choice and in
the rules of counting.

*Code.* `Validate` and `Create` are the mutations of the panels, `ServeValidate`,
`ServeFind`, `Busy`, `ServeCreate` the awaits of the routes (the lookup of the key and
the insertion are two), `Answer`/`AnswerLost` what the panel makes of the outcome,
`Resolve` the worker's look at the tracks. `ResetState`, `Unmount`, `Back` are the ways a
panel forgets; a panel that is closed stays mounted while it slides out, and is wiped
by a timer that does not care whether it has been opened again.

*Abstractions.* Tokens are unforgeable records. Filters by date, names and cover
images do not change what is counted. Slots are `PlaylistSlots`' matter.

### TopStats

*State.* The ages, in 3 AMs, of the last login and the last refresh; whether the user's
authorization is `valid`; BullMQ's `job`
per id (the fixed ids of visits and logins, and slots for the rest); the `step` of the
body of every attempt, which ones are `aborted`, and `txQueue`, the open transactions
in the order in which they wait for the lock of the user's row. History: `missed`,
`written`.

*Code.* `Visit`, `Login`, `Manual`, `Request`, `Day` and part of `Restart` are who asks;
`Add` is BullMQ's rule that an id that is still kept is not added again, and `Forget` its
removal. `Take ... Commit` are the attempt: tokens and fetches, catalog, transaction, and the
reset of the token failures, which may fail the attempt after its transaction.
`TimesOut` fires the signal and fails the attempt while the body goes on. `Day` is the sweep
at 3 AM with the two queries of `seed-top-stats`. Both, and the healing in `Restart`, ask for
users with a valid authorization only; `NoToken`, `BodyFails` and `AuthChanges`, which stands
for the other workers and refreshes, invalidate it, and a login makes it valid.

*Abstractions.* The hours since a login are known to lie in a day at 3 AM and in two
days otherwise (`Elapsed`), so that every outcome of the comparisons is possible. The
rankings themselves are their age. The lock is granted in the order of arrival.

### MetadataQueue

*State.* `row` of each artist and track; Redis: `pending`, `locked`, `requests` with
whether it `expires`; the worker: `at`, `kind`, `hand` (the ids it has popped), `tries`
(the requests of its call that were answered 5xx).
History: `asked`, `open`.

*Code.* `Play`, `Import`, `Catalog` and part of `Restart` queue ids. `Incr` and `SetExpiry` are
the two commands of `waitForRateLimit`, which the sync jobs call too. `Pop`, `TryLocks`,
`Fetch`, `StoreArtists`, `StoreTracks`, `CommitTracks`, `Requeue` are the loop;
`FetchAgain` is the Spotify client, which repeats the request within the call;
`BatchFails` and the other failures its catches, which queue the batch again or, when
Redis fails too, do not. A commit of tracks stores artists that had none and queues them.

*Abstractions.* One set of ids per kind with batches of two; names and images are
"bare" and "full". Past the limit all counts of requests are one.

### ImportUploads

*State.* `uploadQueue`, `baseUploads`, `startedJobIds`, `isUploading` as in
`use-import.ts`; `batches`, the posts of a click and their answers; `poll`, what each
job has answered; `import`, the server's side: the `status` its endpoint tells, where the
job is (`at`), and whether its completion was ever told (`done`).

*Code.* The actions have the names of the functions. `Post` is a request with its own catch,
and `BatchDone` what follows `Promise.all`, which addresses uploads by their place from the
end of the list, while `removeUpload` and `clearCompleted` shorten it. A post that ends in an
error may leave a row and a job behind. `Poll`, `PollAnswer`, `handleStatusUpdate` are a
round of polling, and the list has changed by its end. `Only` is the `filter` of
`removeUpload` and `clearCompleted`.

`ImportGoesOn`, `ImportFails` and `CleanedUp` are an import as far as the browser sees it;
`ImportJobs` has it in detail. No status is final there: an attempt may fail after it has told
COMPLETED, BullMQ gives a job out again after a failure or a stall, the second run adds nothing
and tells FAILED, and a job given up after stalling leaves PROCESSING for good
(`at = "failed"`).

*Abstractions.* That the progress expires in Redis after a day, so that the row answers the
poll, is left out: `ProgressAgrees` is the property about the two. Names and sizes of files
are left out, with the checks on them.

### TokenManager

*State.* Spotify: `live` refresh tokens. `spotify_auth`: `refreshToken`,
`isValid`, `consecutiveFailures`. Redis: `cache`, `lock`. Each caller: `pc`, the
token it `held`, whether its refresh `has` succeeded. The login: `login`,
`loginCaches`. `Rotate` inside `Exchange` is Spotify's choice to issue a new
refresh token and to refuse the old one from then on.

### CircuitBreaker

*State.* `state`, the ages of the newest `Threshold` failures, `rest` (time since
the last failure, as far as it matters) and per call whether it began as a probe.
Time is relative, so that the state space is finite without a bound on time; the
code compares only differences. Older failures than the newest `Threshold` cannot
change any decision: the code asks only whether that many lie in the window.

## 3. Runs

| Run | Question | Instance | Result |
|---|---|---|---|
| `listening_races` | Do rows, totals, statistics and `lastIngestedAt` stay consistent, and is it a ledger? | 2 sync jobs, 1 import whose batch repeats a play up to 2 times, 2 plays, pages of 1, 1 fault | holds; 2.05 M states |
| `listening_progress` | Is every play settled in the end, while the user is seeded? | 2 sync jobs, 3 plays, list of 2, 1 fault, a user who comes and goes, fairness | holds; 0.35 M |
| `import_jobs` | Does what row, progress and queue say agree with what is stored, and does every row end? | 2 uploads, 1 play, 2 attempts, 1 stall, 2 faults, fairness | holds; 0.52 M |
| `import_uploads` | Does the window show each upload its own import, and every end? | 2 files, 3 failures, fairness | holds; 0.18 M |
| `playlist_wizard` | Is what is created what was validated, once, and does every wait end? | 3 panels, 2 choices, 3 requests, 1 fault, fairness | holds; 1.26 M |
| `playlist_slots` | One job per token; do the limits hold? | 3 requests, limits 1 and 2, 2 faults | holds; 0.48 M |
| `playlist_release` | "on final failure" (playlist-worker.ts:384) | 2 requests, no fault | violated |
| `playlist_creation` | Does a job end, and does COMPLETED mean complete? | 2 batches, the second partial, a cover, 1 repetition in a call, 2 faults, fairness | holds; 0.49 M |
| `top_stats` | Are rankings as fresh as the windows promise, and never older than before? | 1 slot besides the two ids, 2 attempts, 1 fault, fairness | holds |
| `metadata` | Does one call a day ask for each id, is none forgotten, and every one taken up? | 2 artists, 1 track, batches of 2, 2 requests a minute, 1 repetition in a call, 2 faults, fairness | holds; 0.21 M |
| `tokens` | One refresh at a time; does the stored token work? | 3 callers, 3 tokens, 1 fault | holds; 0.93 M |
| `breaker` | Does it open and close when it should? | 3 calls, threshold 3, timeout 2, window 4, fairness | holds; 1.5 k |

What the properties say:

- **NoPhantomStats, StatsWithinTotals, OvercountBounded**
  bound what races, crashes and retries can do to the counts. They can lose
  increments of a statistics table, and count a play twice; a table never holds
  what the database does not, retries never repeat an increment, and a play is
  counted in the totals at most once per slot of the queue.
- **NoGapBelowLastIngested, EveryPlaySettled**: syncs that overlap, fail and
  restart neither leave a gap nor stop. A play can still be lost in two ways, both
  in the statement: Spotify drops it from its list first, or an insertion error
  was swallowed. And nobody fetches plays while cron does not seed the user, from an
  invalidated authorization or a week without login on to the next login: the second
  property ends there.
- **ImplementsLedger**: all of this is a refinement of `PlayLedger`, in which a
  play is recorded once, is never downgraded from actual to estimated, and the
  watermark stands only where history is settled.
- **DoneMeansStored, ProgressAgrees, CompletedStays, RowEnds**: an import that the
  row, the progress or BullMQ calls complete is in the database; when a job is
  through, row and progress tell the same end; a completed import stays so; no row
  waits for ever. The statements have their exceptions, which are the code's:
  a file whose plays were all stored before, by a sync, another import or an earlier
  attempt, ends FAILED with nothing missing; a process that dies after the row is
  COMPLETED and before BullMQ knows makes the job run again, add nothing and turn the
  row FAILED; a job that BullMQ fails after stalling leaves its row PROCESSING, which
  the cleanup does not look at; an upload whose queue did not answer may be marked
  FAILED while its job runs, or over its end.
- **CompletedHasAllTracks, RetriesRepeatOneBatch, RecordedPlaylistStays,
  CompletedInBoth, RowSettles**: a job that ends COMPLETED has filled the recorded
  playlist, retries of the job and of a request cost at most one batch each, and no row stays
  in progress.
  The first four exclude a job of which an attempt timed out. Without that
  condition `CompletedHasAllTracks` fails: the late body creates a playlist, the
  retry creates and fills another, the late body records its own over it, and the
  retry marks the job COMPLETED. No document promises otherwise, so this is not
  listed as a finding.
- **OneJobPerToken, SlotsWithinLimit, LimitsHold**: the
  unique key, not the lookup, keeps repeated requests harmless; INCR and undo keep
  the limits, as long as nothing fails. Counts may then be too high by one per
  failure and request.
- **RefreshExclusive, StoredTokenWorks, NoFalseRevocation**: the mutex is enough
  for rotating refresh tokens, next to a login too, while no lock is lost.
- **ClosedBelowThreshold, OnlyProbesClose, ClosesAfterOutage** of the breaker.

- **CreatedAsValidated, RefusedWasWarned, WaitEnds**: the panel by itself may show the token
  of one choice beside another (a late answer, a reset that comes after reopening); the
  token's parameters on the server exclude that it makes a job of it. (That a repeated
  confirmation makes no second one is `OneJobPerToken`.) What the worker refuses was
  announced, unless the source has changed since, or is a playlist with local files or tracks
  Spotify no longer has, which only the validation counts. Every spinner ends.
- **StalenessBounded, RetryNotUndone, LoginHydrates**: counted in 3 AMs after the login, the
  rankings of a user on days 1 and 2 are at most two days old, and on days 3 to 7 at most four,
  unless a job has failed or a 3 AM found the authorization invalid since the last refresh; on
  the day of the login they may be of any age. The order of the transactions and the check
  of the signal keep a late body from undoing its retry. A first login gets rankings even when
  its job is ignored, unless the authorization is invalidated before: then sweep and healing
  pass over the user.
- **OneCallADay, NothingForgotten, PendingIsTaken**: the locks keep the many ways an id
  is queued down to one call, inside which the client may repeat the request; ids leave the
  sets only stored, as repeats, or by a failure of Redis or the process; and the loop takes
  up every id. Its one exception is in the statement: a process that dies between INCR and
  EXPIRE leaves a counter at its limit that never expires.
- **JobsMatchFiles, UnendedStays, UploadsSettle**: places counted from the end of the
  list stay right because only ended uploads can be removed, and those stand before; what is
  shown as completed has been told completed, though the server may have taken it back since;
  whatever is not polled any more has been shown to end. An import whose job BullMQ gave up
  behind a row that says PROCESSING is shown as running for ever, and excepted by name
  (`Abandoned`).

The violated run is a finding: the slot is given back after every failed attempt, and
the job runs on. `PROJECT.json` quotes the line.

Seen while modelling and not the subject of a run:

- Syncs: data_flow.md:246 has statistics "eventually consistent", but plays of a job that
  fails between its transaction and its aggregation are never counted
  (sync-worker.ts:134). Two syncs that overlap count a play twice in the user's
  totals (ingestion.ts:284; README.md:54 says retries do not duplicate). data_flow.md:106
  says that a full page re-queues the sync, and the code pages within the job.
- Playlists: a retry adds a last, partial batch a second time (playlist-worker.ts:186,
  against the comment at 184). A cancel that is interrupted between removing the job and
  updating the row leaves the row PENDING. After a failure to enqueue, a retry is told that
  the job is "already in progress" (playlists.ts:335). The range of dates is sent as a day
  where the route wants a date with time, and is always refused (recent-modal.tsx:236,
  playlists.ts:25). The worker ignores the chosen mode of shuffling. A name proposed for one
  playlist stays when another is chosen.
- Uploads: one that failed before it had a job cannot be removed from the list
  (ImportHistoryModal.tsx:528). A failed poll, or an attempt that will be retried, is shown
  as FAILED for good (use-import.ts:86).
- Tokens: a user marked invalid is served from the cache (token-manager.ts:78, against
  data_flow.md:248). A login does not reset `consecutiveFailures`.
- Top statistics: a completed job keeps its id, and later lazy refreshes are ignored while
  it is kept (top-stats-service.ts:75, against data_flow.md:131). Every error of the parallel
  fetches is wrapped in a plain `Error`, so the worker's branches for 401, 403 and 429
  cannot be reached. A user whose last login is two to three days ago is in neither window
  of the sweep. A body that stops for want of a token returns, and its job is "completed".
- Metadata: the tracks of a failed batch are queued again but keep their locks, so the next
  batch drops them; a track that has its row already is not queued by later plays, and stays
  without metadata (metadata-worker.ts:236, against data_flow.md:177). An artist queued by a
  batch that was rolled back has no row and fails its whole batch. A counter without time to
  live stops worker and syncs (redis.ts:37).
- Breaker: it admits every call while HALF_OPEN, and the late success of one probe closes a
  breaker that the failure of another has reopened.

### Bounds

Two sync jobs are the smallest race, and the code treats all jobs of a user alike;
2 plays with pages of 1 make a job page twice, stop for each of its reasons, and
be overtaken. A batch that holds a play twice is the smallest that repeats one, and
one statistics table stands for all: each is updated on its own, and the proofs
cover any number. Three plays with a list of 2 let Spotify drop one. One fault already
leaves every intermediate state behind; the retry after it is a new job. Two
uploads compete for the worker and for one play; two faults are an attempt that
fails and a write that fails after it, or both attempts, or two stalls. Two
batches, the second partial, with limits of two attempts and two faults reach
resumption, final failure and a late body. Three requests for one slot have
a holder, a waiter and a repetition. Two choices and three requests are a validation,
a second one that overtakes or outlives it, and a creation; one choice has enough tracks
and the other few, with items beside them that the worker cannot use or not, and a fault may
change that. Two files are one in the batch and one that is removed meanwhile, or two in one
batch; the theorems cover any number. Three failures are what takes a completed import back and
then gives its job up, with one left for a post or a poll. One repetition inside a call of the
Spotify client (the code has three) tells repetitions from attempts. Two artists on one track are a
batch with ids that end differently, and the second fault is the error within the handling of the
first. One slot besides the two fixed ids lets a swept job run next to a visit and a
login; the days are capped where no comparison tells them apart. Three callers have a holder, a
waiter and a late comer. The proofs remove the bounds where they exist (section 4). The
assumption `PagesCoverList` (10 pages of 50 reach the end of a list of 50) is what
the code's constants give, and `NoGapBelowLastIngested` needs it.

`CHECK_DEADLOCK FALSE` is set where the system really stops: a playlist job, a
set of uploads and a set of requests have an end, and so has a user whose requests are
used up; the token model stops at its bounds.

### Fairness

- Sync jobs: `WF` of the steps of each job that runs, since the event loop runs every await
  that can resume, and of starting one only while the user is `Seeded`: `seed-sync` creates jobs
  again and again for these. Failures are bounded, not fair, and neither are listening, logins
  and what else happens to the user.
- Playlist job: `WF` of the body of each attempt, of the handler, of `Begin`, of
  `CheckStale` (an interval timer) and of a cancellation that has begun. None
  for heartbeats, requests, time-outs.
- Imports: `WF` of the worker's steps, of taking up a job, of BullMQ's check for
  stalled jobs, of time and of `Cleanup` (the cron endpoint is called again and
  again). None for the steps of a request: a row whose upload stopped half way must
  still end.
- Panels: `WF` of the server, of answers (a lost one is an answer too) and of the worker.
  None of the user, and none of the timers.
- Top statistics: `WF` of the day, of taking up jobs and of each body. Nobody has to visit.
- Metadata: `WF` of the worker's steps, of minutes and of the end of locks. `SF` of popping
  each id, since SPOP picks at random from a set that other ids keep entering, and of the
  worker finding the counter below its limit, since it polls every second.
- Upload window: `WF` of requests and of polling, an interval timer; of each import while its
  job is in the queue or with the worker, and of the cleanup of pending rows. A job that
  was given up goes nowhere.
- Breaker: `WF` of time and of calls, `SF` of a success for each caller: the
  property is about an outage that is over. `ClosesAfterOutage` has its other case,
  failures without end, in its statement.

## 4. Proofs

All theorems hold for every value of the constants that meets the `ASSUME`s.

**ListeningProofs** (`ListeningAssumption`, and `PagesCoverList` for the gaps).
`TypeCorrect` is by one step per action. The invariants of the runs are not
inductive, and each is strengthened:

- `LedgerInv` adds that plays a job has committed or an import has created or is
  to correct are stored, and that what was counted is stored. From it follow
  `NoPhantomStats` and `EstimatesAreCounted`. `StoredStays` (no row is deleted) is
  the lemma behind it.
- `StatsInv` adds that an idle slot holds nothing to aggregate; the
  increments still in flight are part of the bound itself, so that each step
  moves one from the left summand to the other. `OneMore` and `OneFewer` are the
  facts on cardinality.
- `OvercountInv` adds that an import counts in a table only plays no import has
  counted there before. The bound on the totals holds because a play that is stored
  gets no new stale readers, and a play that is not stored has not been counted.
- `GapInv` describes a job in the loop: what lies between its cursor and the newest
  play it saw is settled but for its batch; its full pages abut, so their number
  says how far it has come; and a job that stops has nothing unsettled below its
  cursor. At the iteration limit the whole list has been paged (`PagesCoverList`).
- `ImplementsLedgerCorrect` maps the initial state and every step: `Commit` to
  `RecordEstimates`, `ImportCreate` and `ImportUpdate` to `RecordActuals`, `Mark` to
  `Settle`, `Listen` and swallowed errors to `GiveUp`, all others to stuttering.

**ImportJobsProofs.** `TypeInv` adds `Held` (the worker's job is active, a request
that has not reached the queue has no job, a job that may run again has attempts
left). `Reading` adds to `DoneMeansStored` that what the worker no longer has to
read is stored; `Announced` adds to `ProgressAgrees` that the end announced in Redis
is the one about to be recorded; `Through` adds that a completed row whose job has
not stalled is about to return, or has returned. From it `CompletedStays`, an action
property.

**PlaylistWizardProofs.** `TypeInv` adds to the types what is known of requests under
way: a creation past its verification carries a token of its own choice. Tokens are
never taken back and keep their choice and warning (`Kept`), so that this lasts until the
job is there: `CreatedAsValidated`. `RefusedWasWarned` joins the counts of validation and
worker, which agree while a token is neither stale nor partial (`Told`).

**PlaylistSlotsProofs.** `LifeInv` says how far a request is when its row and job exist:
`TypeOK`, and `OneJobPerToken`. `ExcessInv` pays each increment above the limit with a
request about to roll back, or with the fault that lost the command. While nothing fails,
`HourInv` and `PendingInv` read each counter less the requests about to take their increment
back: that is at least the number of those admitted, and at most the limit.

**PlaylistCreationProofs.** `FlowInv` adds to the types that attempts are paid for by faults
and that a body that adds tracks has a playlist. As long as no attempt timed out, `Alone`
gives the only body to the current attempt; `Progress` relates the row, the body's
variables and the playlist: batches below `addedTracks`, and below the body's next one,
are on Spotify. From it `CompletedHasAllTracks` and `RecordedPlaylistStays`.
`Returned` gives `CompletedInBoth`. `Cost` bounds the playlist's length by the batch to
resume at, the attempts since it was made and the requests repeated inside a call, which needs
that the batch to resume at is the one the body has reached: `RetriesRepeatOneBatch`.

**MetadataQueueProofs.** `HandInv` says when the worker holds nothing. `AskInv` ties requests
to locks: what is about to be asked for is locked and has been asked for by the current call
only, since what was locked before was dropped. From it `OneCallADay`, an action property.
`NothingForgotten` is inductive with `HandInv`.

**TokenManagerProofs.** `TypeInv` adds that a caller talking to Spotify holds a
token. `LockInv`: while nothing failed, the callers between lock and release
exclude each other, from which `RefreshExclusive`. `Fresh`: the token of a login in
progress is nobody else's. `GrantInv` joins them: the stored token is live but
while a caller is about to store another; from it `StoredTokenWorks` and
`NoFalseRevocation`.

In the same module, `ClosedBelowThreshold` of the circuit breaker is inductive together with
`BreakerTypeOK`: pushing a failure opens the breaker exactly when the last rank would
fall in the window, and a probe that closes empties the list. `OnlyProbesClose` is
an action property of every step.

**TopStatsProofs** (`TopStatsAssumption`). None of the three properties is inductive.

- `BodyInv` says which bodies run. A body whose signal has not fired is the one of its job's
  current attempt, an active job has such a body, and the bodies that still run of a job
  under way are of no later attempt. `TypeOK` needs it, because a body that is told to stop
  must be running.
- `QueueInv` says that the transactions of one job wait in the order of its attempts, and
  that none is of an attempt before the one which has written last. A body enters the queue
  only while its signal has not fired, so by `BodyInv` it is of the latest attempt and may
  stand at the end; a body that has been aborted keeps its place in front. From it
  `RetryNotUndone`: the lowest attempt number commits first.
- `StaleInv` is `StalenessBounded` without its demand that no body runs: a job that is
  waiting or active is the only excuse for old rankings. This is needed, since a body that
  was given up may end after the last job has, and its end changes nothing that bounds the
  age. The step that matters is `Day`, where the sweep creates a job for each user whose
  rankings would pass the bound, or else has found the authorization invalid (`missed`).

**ImportUploads in ImportJobsProofs** (`UploadsAssumption`). `UploadsInv` joins

- `PostsInv`: while files are posted, the list ends with their uploads, pending and without
  a job. `BatchDone` writes result `i` to place `Len(list) - Len(batch) + i`, which is the
  right one only if everything taken from the list meanwhile stood in front. It did: what is
  removed or cleared has ended, a pending upload has not, and nothing is added while
  `isUploading`.
- `UnendedInv`: an upload that has not ended is one of these, or has a job that is polled.
  The window closes only when neither exists, hence `UnendedStays`.
- `FilesInv`: a file is at one place of the list or of the queue. `PollInv`: a completion that
  a poll was told has been told by the server (`Told`), which no step of an import unsays,
  though its status may change. With them the statuses of `JobsMatchFiles` follow.

`Only` filters the list by the ranks of the places it keeps, so that no recursion is
involved; `Ranks`, `Places`, `LastRanks` and `OnlyKept` show that it keeps just the uploads
asked for, in order, and that a suffix kept whole stays a suffix.

Model-checked only: the liveness properties (`EveryPlaySettled`, `RowEnds`, `RowSettles`,
`WaitEnds`, `LoginHydrates`, `PendingIsTaken`, `UploadsSettle`, `ClosesAfterOutage`), which
are out of the prover's reach, as are ENABLED and induction over data. Every invariant and
every action property of the runs is a theorem, and so is the refinement of `PlayLedger`.

## 5. What could follow

1. The pause of the playlist queue after a 429: its timers, two pauses that overlap, a
   restart while the queue is paused.
2. Pure algorithms, as operators against reference definitions: the shuffle with
   spacing and deduplication of `playlist-service.ts`, the adaptive limiter, the
   match of `track-matcher.ts`, the choice of format of the import parsers.
3. Refinements between modules that share a step: that an attempt of `PlaylistCreation` is one
   of `PlaylistSlots`, and a batch of `ListeningIngestion` one of `ImportJobs`.

## 6. Not modelled

Pure I/O and formatting (logger, Swagger, serialisation, read-only routes),
decisions on one request without state (RBAC, demo guard, validation),
cryptography (encryption, JWT, signatures of tokens), DDL (`partitions.ts`), and the
user interface but for the playlist panels and the upload list. Of modelled components: the
pause of the playlist queue after a 429 and its timers, the adaptive limiter (arithmetic
on one process's floats), the lock of the cron endpoints, the matching of tracks of the
basic format, the random orders of a shuffle, cover images, and the cache with a time to
live (`getOrSet`). `PROJECT.json` gives the reason for each.
Postgres, Redis, BullMQ and Spotify appear as the code uses them: a statement or
command is atomic, `createMany(skipDuplicates)` skips rows that exist, an active
job of a dead process runs again, and refresh tokens may rotate.

## 7. Running

    tlc -config ListeningRaces.cfg MCListening.tla
    tlapm ListeningProofs.tla

The other runs pair module and configuration as `PROJECT.json` says.
