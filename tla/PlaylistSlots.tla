--------------------------- MODULE PlaylistSlots ---------------------------
(***************************************************************************)
(* Who may start a playlist: the create requests of one user, the Redis    *)
(* counters that limit them (lib/rate-limiter.ts), the idempotency key     *)
(* that makes a repeated request harmless (routes/playlists.ts), and the   *)
(* worker's events that give a slot back (workers/playlist-worker.ts).     *)
(*                                                                         *)
(* Each command to Redis or Postgres is a step.  What an attempt does is   *)
(* in PlaylistCreation: here it begins, and succeeds or fails.             *)
(*                                                                         *)
(* Abstractions.  A job is named after the request that made it, and a     *)
(* request carries one of a few confirmation tokens, from which the        *)
(* idempotency key is derived.  pendingKey and hourlyKey hold integers; a  *)
(* missing key is 0.  EXPIRE follows the first INCR of a key and is part   *)
(* of its step; when a key expires is left open.                           *)
(***************************************************************************)
EXTENDS Integers, FiniteSets

CONSTANTS
  Request,      \* create requests of the user
  Token,        \* confirmation tokens they may carry
  MaxPending,   \* MAX_PENDING_JOBS (5)
  MaxHourly,    \* MAX_JOBS_PER_HOUR (10)
  MaxAttempts,  \* attempts of playlistQueue (5)
  MaxStalls,    \* maxStalledCount, BullMQ's default (1)
  MaxFaults     \* bound: failed commands, restarts, and expired keys

ASSUME SlotsAssumption ==
  /\ IsFiniteSet(Request)
  /\ MaxPending \in Nat
  /\ MaxHourly \in Nat
  /\ MaxAttempts \in Nat \ {0}
  /\ MaxStalls \in Nat
  /\ MaxFaults \in Nat

VARIABLES
  token,        \* the token each request carries
  rpc,          \* where each request is
  \* Redis
  slots,        \* pendingKey
  hourly,       \* hourlyKey
  \* Postgres: the row of each job
  row,
  recent,       \* jobs created within the last hour
  \* BullMQ
  queue,
  failures,     \* attemptsMade
  stalls,       \* how often a job was active when the process died
  \* the worker's event handlers
  releases,     \* calls of releaseJobSlot that have not sent DECR
  resets,       \* calls that saw a negative count and have not sent SET 0
  faults

redis    == <<slots, hourly>>
database == <<row, recent>>
bull     == <<queue, failures, stalls>>
events   == <<releases, resets>>
vars     == <<token, rpc, redis, database, bull, events, faults>>

Init ==
  /\ token \in [Request -> Token]
  /\ rpc = [r \in Request |-> "find"]
  /\ slots = 0
  /\ hourly = 0
  /\ row = [r \in Request |-> "none"]
  /\ recent = {}
  /\ queue = [r \in Request |-> "none"]
  /\ failures = [r \in Request |-> 0]
  /\ stalls = [r \in Request |-> 0]
  /\ releases = 0
  /\ resets = 0
  /\ faults = 0

Fault == faults < MaxFaults /\ faults' = faults + 1

Goto(r, s) == rpc' = [rpc EXCEPT ![r] = s]

(* A request that has not begun or has been answered.                      *)
Idle == {"find", "repeated", "refused", "failed", "accepted"}

KeyTaken(r) == \E q \in Request : token[q] = token[r] /\ row[q] # "none"

Unfinished == {r \in Request : row[r] \in {"PENDING", "CREATING"}}

-----------------------------------------------------------------------------
(* A create request.                                                       *)

(* A job with the same idempotency key is returned, whatever its status.   *)
Find(r) ==
  /\ rpc[r] = "find"
  /\ Goto(r, IF KeyTaken(r) THEN "repeated" ELSE "incr")
  /\ UNCHANGED <<token, redis, database, bull, events, faults>>

\* Mutant: the slot is refused one job too late.
IncrPendingLate(r) ==
  /\ rpc[r] = "incr"
  /\ slots' = slots + 1
  /\ Goto(r, IF slots > MaxPending THEN "rollback" ELSE "hour")
  /\ UNCHANGED <<token, hourly, database, bull, events, faults>>

IncrPending(r) ==
  /\ rpc[r] = "incr"
  /\ slots' = slots + 1
  /\ Goto(r, IF slots + 1 > MaxPending THEN "rollback" ELSE "hour")
  /\ UNCHANGED <<token, hourly, database, bull, events, faults>>

\* Mutant: the request that found no slot keeps its count.
RollBackForgotten(r) ==
  /\ rpc[r] = "rollback"
  /\ Goto(r, "refused")
  /\ UNCHANGED <<token, redis, database, bull, events, faults>>

RollBack(r) ==
  /\ rpc[r] = "rollback"
  /\ slots' = slots - 1
  /\ Goto(r, "refused")
  /\ UNCHANGED <<token, hourly, database, bull, events, faults>>

IncrHourly(r) ==
  /\ rpc[r] = "hour"
  /\ hourly' = hourly + 1
  /\ Goto(r, IF hourly + 1 > MaxHourly THEN "undoPending" ELSE "create")
  /\ UNCHANGED <<token, slots, database, bull, events, faults>>

UndoPending(r) ==
  /\ rpc[r] = "undoPending"
  /\ slots' = slots - 1
  /\ Goto(r, "undoHourly")
  /\ UNCHANGED <<token, hourly, database, bull, events, faults>>

UndoHourly(r) ==
  /\ rpc[r] = "undoHourly"
  /\ hourly' = hourly - 1
  /\ Goto(r, "refused")
  /\ UNCHANGED <<token, slots, database, bull, events, faults>>

(* A command of tryAcquireJobSlot fails: jobs are counted in the database, *)
(* and what Redis already counted stays counted.                           *)
Fallback(r) ==
  /\ rpc[r] \in {"incr", "rollback", "hour", "undoPending", "undoHourly"}
  /\ Fault
  /\ Goto(r, IF \/ Cardinality(Unfinished) >= MaxPending
                \/ Cardinality(recent) >= MaxHourly
             THEN "refused" ELSE "create")
  /\ UNCHANGED <<token, redis, database, bull, events>>

\* Mutant: idempotencyKey is not unique.
CreateUnchecked(r) ==
  /\ rpc[r] = "create"
  /\ Goto(r, "enqueue")
  /\ row' = [row EXCEPT ![r] = "PENDING"]
  /\ recent' = recent \union {r}
  /\ UNCHANGED <<token, redis, bull, events, faults>>

(* idempotencyKey is unique: of two requests that both passed Find, one    *)
(* fails here, and keeps the slot it took.                                 *)
Create(r) ==
  /\ rpc[r] = "create"
  /\ IF KeyTaken(r)
     THEN Goto(r, "failed") /\ UNCHANGED database
     ELSE /\ Goto(r, "enqueue")
          /\ row' = [row EXCEPT ![r] = "PENDING"]
          /\ recent' = recent \union {r}
  /\ UNCHANGED <<token, redis, bull, events, faults>>

Enqueue(r) ==
  /\ rpc[r] = "enqueue"
  /\ Goto(r, "accepted")
  /\ queue' = [queue EXCEPT ![r] = "waiting"]
  /\ UNCHANGED <<token, redis, database, failures, stalls, events, faults>>

(* Postgres or the queue rejects the statement: the slot stays taken.      *)
RequestFails(r) ==
  /\ rpc[r] \in {"find", "create", "enqueue"}
  /\ Fault
  /\ Goto(r, "failed")
  /\ UNCHANGED <<token, redis, database, bull, events>>

(* A job that has not begun is cancelled, enqueued or not yet.  No slot is *)
(* given back.                                                             *)
Cancel(r) ==
  /\ row[r] = "PENDING"
  /\ queue[r] \in {"none", "waiting"}
  /\ row' = [row EXCEPT ![r] = "FAILED"]
  /\ queue' = [queue EXCEPT ![r] = IF @ = "waiting" THEN "removed" ELSE @]
  /\ UNCHANGED <<token, rpc, redis, recent, failures, stalls, events, faults>>

-----------------------------------------------------------------------------
(* The worker.                                                             *)

Begin(r) ==
  /\ queue[r] = "waiting"
  /\ queue' = [queue EXCEPT ![r] = "active"]
  /\ row' = [row EXCEPT ![r] = "CREATING"]
  /\ UNCHANGED <<token, rpc, redis, recent, failures, stalls, events, faults>>

(* The job is done, and the 'completed' event is emitted.                  *)
Succeed(r) ==
  /\ queue[r] = "active"
  /\ queue' = [queue EXCEPT ![r] = "completed"]
  /\ row' = [row EXCEPT ![r] = "COMPLETED"]
  /\ releases' = releases + 1
  /\ UNCHANGED <<token, rpc, redis, recent, failures, stalls, resets, faults>>

(* An attempt fails.  BullMQ emits 'failed' for each attempt, and the      *)
(* listener gives the slot back each time.                                 *)
Fail(r) ==
  /\ queue[r] = "active"
  /\ failures' = [failures EXCEPT ![r] = @ + 1]
  /\ queue' = [queue EXCEPT ![r] =
                 IF failures[r] + 1 >= MaxAttempts THEN "failed" ELSE "waiting"]
  /\ row' = [row EXCEPT ![r] = "FAILED"]
  /\ releases' = releases + 1
  /\ UNCHANGED <<token, rpc, redis, recent, stalls, resets, faults>>

(* releaseJobSlot: DECR, and SET 0 if the count has become negative.       *)
Release ==
  /\ releases > 0
  /\ releases' = releases - 1
  /\ slots' = slots - 1
  /\ resets' = IF slots - 1 < 0 THEN resets + 1 ELSE resets
  /\ UNCHANGED <<token, rpc, hourly, database, bull, faults>>

Reset ==
  /\ resets > 0
  /\ resets' = resets - 1
  /\ slots' = 0
  /\ UNCHANGED <<token, rpc, hourly, database, bull, releases, faults>>

-----------------------------------------------------------------------------
(* The environment.                                                        *)

(* pendingKey lives for an hour from the INCR that made it 1.              *)
PendingKeyExpires ==
  /\ Fault
  /\ slots' = 0
  /\ UNCHANGED <<token, rpc, hourly, database, bull, events>>

HourPasses ==
  /\ Fault
  /\ hourly' = 0
  /\ recent' = {}
  /\ UNCHANGED <<token, rpc, slots, row, bull, events>>

(* The process restarts: requests and pending releases are lost.  Jobs     *)
(* that were active wait again, but one that has stalled too often fails,  *)
(* with the event of a failure.                                            *)
Crash ==
  LET active == {r \in Request : queue[r] = "active"}
      dead   == {r \in active : stalls[r] >= MaxStalls}
  IN
  /\ Fault
  /\ rpc' = [r \in Request |-> IF rpc[r] \in Idle THEN rpc[r] ELSE "failed"]
  /\ queue' = [r \in Request |-> IF r \in dead THEN "failed"
                                 ELSE IF r \in active THEN "waiting" ELSE queue[r]]
  /\ stalls' = [r \in Request |-> IF r \in active THEN stalls[r] + 1 ELSE stalls[r]]
  /\ releases' = Cardinality(dead)
  /\ resets' = 0
  /\ UNCHANGED <<token, redis, database, failures>>

-----------------------------------------------------------------------------
Serve(r) ==
  \/ Find(r) \/ IncrPending(r) \/ RollBack(r) \/ IncrHourly(r) \/ UndoPending(r)
  \/ UndoHourly(r) \/ Fallback(r) \/ Create(r) \/ Enqueue(r) \/ RequestFails(r)
  \/ Cancel(r)

Work(r) == Begin(r) \/ Succeed(r) \/ Fail(r)

Next ==
  \/ \E r \in Request : Serve(r) \/ Work(r)
  \/ Release \/ Reset
  \/ PendingKeyExpires \/ HourPasses \/ Crash

Spec == Init /\ [][Next]_vars

-----------------------------------------------------------------------------
(* Properties.                                                             *)

TypeOK ==
  /\ token \in [Request -> Token]
  /\ rpc \in [Request -> Idle \union {"incr", "rollback", "hour",
                 "undoPending", "undoHourly", "create", "enqueue"}]
  /\ slots \in Int
  /\ hourly \in Int
  /\ row \in [Request -> {"none", "PENDING", "CREATING", "COMPLETED", "FAILED"}]
  /\ recent \in SUBSET Request
  /\ queue \in [Request -> {"none", "waiting", "active", "completed", "failed",
                            "removed"}]
  /\ failures \in [Request -> 0..MaxAttempts]
  /\ stalls \in [Request -> Nat]
  /\ releases \in Nat
  /\ resets \in Nat
  /\ faults \in 0..MaxFaults

(* Repeating a request, even at the same moment, makes no second job:      *)
(* the lookup is not atomic with the insertion, the unique key decides.    *)
OneJobPerToken ==
  \A q, r \in Request : row[q] # "none" /\ row[r] # "none" /\ token[q] = token[r] => q = r

(* Whatever fails, pendingKey exceeds the limit by no more than the        *)
(* requests that are about to take their increment back, and those whose   *)
(* command to take it back failed or was lost.                             *)
SlotsWithinLimit ==
  slots <= MaxPending + faults * Cardinality(Request)
             + Cardinality({r \in Request : rpc[r] = "rollback"})

(* Requests that have passed the counters and the jobs they made.          *)
Admitted == {r \in Request : rpc[r] \in {"hour", "create", "enqueue"}}
            \union {r \in Request : queue[r] \in {"waiting", "active"}}

(* However requests, cancellations and completions interleave, the user    *)
(* has no more than MaxPending jobs under way as long as no attempt fails, *)
(* and makes no more than MaxHourly within the hour, whichever fail; both  *)
(* unless a key expires or a command is lost (rate-limiter.ts:186-212).    *)
LimitsHold ==
  faults = 0 =>
    /\ (\A r \in Request : failures[r] = 0) => Cardinality(Admitted) <= MaxPending
    /\ Cardinality(recent) <= MaxHourly

(* The comment at playlist-worker.ts:384, "Release rate limit slot on      *)
(* final failure": a job that will be tried again keeps its slot.          *)
SlotKeptUntilFinal ==
  faults = 0 => Cardinality(Admitted) <= slots + resets
=============================================================================
