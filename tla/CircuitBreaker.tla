--------------------------- MODULE CircuitBreaker ---------------------------
(***************************************************************************)
(* The circuit breaker around one group of Spotify endpoints               *)
(* (lib/circuit-breaker.ts), as fetchWithRetry uses it                     *)
(* (lib/spotify-api.ts).  The groups share nothing: one instance each.     *)
(*                                                                         *)
(* Calls overlap: what a call finds when it begins (execute up to the      *)
(* await) and what it does when it ends (after the await) are two steps.   *)
(*                                                                         *)
(* Abstractions.  Time is relative: what the code compares is how long ago *)
(* a failure was.  Of failureTimestamps only the newest Threshold matter,  *)
(* for the code asks no more than whether that many lie in the window.     *)
(* The retries inside a call (pRetry) are part of the call.                *)
(***************************************************************************)
EXTENDS Integers

CONSTANTS
  Call,          \* calls that may be in flight at once
  Threshold,     \* failureThreshold (SPOTIFY_CB_THRESHOLD, 5)
  ResetTimeout,  \* resetTimeout (30 s), in ticks
  Window         \* windowDuration (60 s), in ticks

ASSUME BreakerAssumption ==
  /\ Threshold \in Nat \ {0}
  /\ ResetTimeout \in Nat \ {0}
  /\ Window \in Nat \ {0}

VARIABLES
  state,         \* CLOSED, OPEN or HALF_OPEN
  age,           \* age[k]: of the k-th newest failure; Window: not in the window
  rest,          \* time since lastFailureTime, as far as ResetTimeout
  phase          \* idle, or in flight; a probe has found the breaker HALF_OPEN

breakerVars == <<state, age, rest, phase>>

Rank == 1..Threshold

NoFailures == [k \in Rank |-> Window]

BreakerInit ==
  /\ state = "CLOSED"
  /\ age = NoFailures
  /\ rest = ResetTimeout
  /\ phase = [c \in Call |-> "idle"]

(* updateState: OPEN gives way to HALF_OPEN once the timeout is over.      *)
Updated == IF state = "OPEN" /\ rest = ResetTimeout THEN "HALF_OPEN" ELSE state

\* Mutant: only the first call after the timeout is let through as a probe.
BeginOneProbe(c) ==
  /\ phase[c] = "idle"
  /\ Updated # "OPEN" /\ state # "HALF_OPEN"
  /\ state' = Updated
  /\ phase' = [phase EXCEPT ![c] = IF Updated = "HALF_OPEN" THEN "probe" ELSE "call"]
  /\ UNCHANGED <<age, rest>>

(* A call that finds the breaker OPEN is rejected and changes nothing.     *)
Begin(c) ==
  /\ phase[c] = "idle"
  /\ Updated # "OPEN"
  /\ state' = Updated
  /\ phase' = [phase EXCEPT ![c] = IF Updated = "HALF_OPEN" THEN "probe" ELSE "call"]
  /\ UNCHANGED <<age, rest>>

\* Mutant: the probe closes the breaker, its failures stay on the list.
SucceedKeepsFailures(c) ==
  /\ phase[c] # "idle"
  /\ state' = IF phase[c] = "probe" THEN "CLOSED" ELSE state
  /\ phase' = [phase EXCEPT ![c] = "idle"]
  /\ UNCHANGED <<age, rest>>

\* Mutant: the flag is not captured, any success closes the breaker.
SucceedAlwaysCloses(c) ==
  /\ phase[c] # "idle"
  /\ state' = "CLOSED"
  /\ age' = IF state = "CLOSED" THEN age ELSE NoFailures
  /\ phase' = [phase EXCEPT ![c] = "idle"]
  /\ UNCHANGED rest

(* The success of a probe closes the breaker, whatever it is by now.       *)
Succeed(c) ==
  /\ phase[c] # "idle"
  /\ IF phase[c] = "probe"
     THEN state' = "CLOSED" /\ age' = NoFailures
     ELSE UNCHANGED <<state, age>>
  /\ phase' = [phase EXCEPT ![c] = "idle"]
  /\ UNCHANGED rest

(* recordFailure                                                           *)
recordFailure(wasHalfOpen) ==
  LET pushed == [k \in Rank |-> IF k = 1 THEN 0 ELSE age[k - 1]] IN
  /\ rest' = 0
  /\ age' = pushed
  /\ state' = IF wasHalfOpen \/ pushed[Threshold] < Window THEN "OPEN" ELSE state

(* The service is down: a status of 5xx after the last retry, or a fetch   *)
(* that failed.                                                            *)
FailCounted(c) ==
  /\ phase[c] # "idle"
  /\ recordFailure(phase[c] = "probe")
  /\ phase' = [phase EXCEPT ![c] = "idle"]

(* 401, 403, 429 or another 4xx: no sign of a service that is down.        *)
FailUncounted(c) ==
  /\ phase[c] # "idle"
  /\ phase' = [phase EXCEPT ![c] = "idle"]
  /\ UNCHANGED <<state, age, rest>>

Older(a, bound) == IF a < bound THEN a + 1 ELSE bound

Tick ==
  /\ age' = [k \in Rank |-> Older(age[k], Window)]
  /\ rest' = Older(rest, ResetTimeout)
  /\ UNCHANGED <<state, phase>>

BreakerNext ==
  \/ \E c \in Call : Begin(c) \/ Succeed(c) \/ FailCounted(c) \/ FailUncounted(c)
  \/ Tick

BreakerSpec == BreakerInit /\ [][BreakerNext]_breakerVars

(* Jobs keep calling (cron seeds a sync every few minutes), and the        *)
(* service answers some call of each in the end with a success.            *)
FairBreakerSpec ==
  /\ BreakerSpec
  /\ WF_breakerVars(Tick)
  /\ \A c \in Call : WF_breakerVars(Begin(c)) /\ SF_breakerVars(Succeed(c))

-----------------------------------------------------------------------------
(* Properties.                                                             *)

BreakerTypeOK ==
  /\ state \in {"CLOSED", "OPEN", "HALF_OPEN"}
  /\ age \in [Rank -> 0..Window]
  /\ rest \in 0..ResetTimeout
  /\ phase \in [Call -> {"idle", "call", "probe"}]

(* A closed breaker has seen fewer than Threshold failures within the      *)
(* window, in whatever order the calls that overlapped came to an end: no  *)
(* late failure slips past the check, and the failures of one outage never *)
(* count towards the next.                                                 *)
ClosedBelowThreshold == state = "CLOSED" => age[Threshold] = Window

(* A breaker that is not closed closes only by the success of a call that  *)
(* began as a probe; the late answer to a call made before the outage      *)
(* closes nothing ("the HALF_OPEN flag is captured to avoid race           *)
(* conditions during async execution").                                    *)
OnlyProbesClose ==
  [][state # "CLOSED" /\ state' = "CLOSED"
     => \E c \in Call : phase[c] = "probe" /\ phase'[c] = "idle"]_breakerVars

(* Once calls stop failing for good the breaker closes for good, whatever  *)
(* client errors and rate limits calls still meet.                         *)
ClosesAfterOutage ==
  []<><<\E c \in Call : FailCounted(c)>>_breakerVars \/ <>[](state = "CLOSED")
=============================================================================
