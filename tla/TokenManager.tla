---------------------------- MODULE TokenManager ----------------------------
(***************************************************************************)
(* The Spotify tokens of one user: the cached access token, the refresh    *)
(* under a Redis lock, the count of failures that quarantines the user     *)
(* (lib/token-manager.ts), and the login that brings a new grant           *)
(* (routes/auth.ts), used by jobs that run at the same time                *)
(* (workers/*-worker.ts, services/top-stats-service.ts).                   *)
(*                                                                         *)
(* Each command to Redis, Postgres or Spotify is a step.                   *)
(*                                                                         *)
(* Abstractions.  Refresh tokens are numbered as Spotify issues them; live *)
(* holds those it accepts.  A refresh may rotate the token, and a rotated  *)
(* token is refused from then on.  Of access tokens only their presence in *)
(* the cache matters; encryption is left out.                              *)
(***************************************************************************)
EXTENDS Integers

CONSTANTS
  Caller,        \* jobs and requests of the user that may run at once
  MaxFailures,   \* MAX_CONSECUTIVE_FAILURES (3)
  MaxTokens,     \* bound: refresh tokens Spotify issues
  MaxCount,      \* bound: consecutiveFailures
  MaxFaults      \* bound: failed commands, restarts, locks that expire early

ASSUME TokenAssumption ==
  /\ MaxFailures \in Nat \ {0}
  /\ MaxTokens \in Nat \ {0}
  /\ MaxCount \in Nat
  /\ MaxFaults \in Nat

Token == 1..MaxTokens

VARIABLES
  \* Spotify
  live,          \* the refresh tokens it accepts
  issued,        \* how many it has issued
  \* Postgres: the row in spotify_auth
  refreshToken, isValid, consecutiveFailures,
  \* Redis
  cache,         \* an access token is cached
  lock,          \* refreshLockKey is set
  \* the callers
  pc,
  held,          \* the refresh token a caller has read or received
  has,           \* the caller's refresh has brought an access token
  \* the login in progress
  login,         \* the token it was given, 0 for none
  loginCaches,   \* its row is written, its access token is not yet cached
  \* history
  revoked,       \* the user has revoked the application's access
  faults

spotify == <<live, issued>>
auth    == <<refreshToken, isValid, consecutiveFailures>>
redis   == <<cache, lock>>
callers == <<pc, held, has>>
signIn  == <<login, loginCaches>>
vars    == <<spotify, auth, redis, callers, signIn, revoked, faults>>

Init ==
  /\ live = {1}
  /\ issued = 1
  /\ refreshToken = 1
  /\ isValid = TRUE
  /\ consecutiveFailures = 0
  /\ cache = TRUE
  /\ lock = FALSE
  /\ pc = [c \in Caller |-> "idle"]
  /\ held = [c \in Caller |-> 0]
  /\ has = [c \in Caller |-> FALSE]
  /\ login = 0
  /\ loginCaches = FALSE
  /\ revoked = FALSE
  /\ faults = 0

Fault == faults < MaxFaults /\ faults' = faults + 1

Goto(c, s) == pc' = [pc EXCEPT ![c] = s]

-----------------------------------------------------------------------------
(* getValidAccessToken.                                                    *)

(* A cached token is returned without a look at isValid.                   *)
GetCached(c) ==
  /\ pc[c] = "idle"
  /\ Goto(c, IF cache THEN "use" ELSE "auth")
  /\ UNCHANGED <<spotify, auth, redis, held, has, signIn, revoked, faults>>

CheckAuth(c) ==
  /\ pc[c] = "auth"
  /\ Goto(c, IF isValid THEN "lock" ELSE "idle")
  /\ UNCHANGED <<spotify, auth, redis, held, has, signIn, revoked, faults>>

\* Mutant: the lock is set, whether it is taken or not.
TakeLockAlways(c) ==
  /\ pc[c] = "lock"
  /\ lock' = TRUE
  /\ Goto(c, "read")
  /\ UNCHANGED <<spotify, auth, cache, held, has, signIn, revoked, faults>>

TakeLock(c) ==
  /\ pc[c] = "lock"
  /\ lock' = TRUE
  /\ Goto(c, IF lock THEN "wait" ELSE "read")
  /\ UNCHANGED <<spotify, auth, cache, held, has, signIn, revoked, faults>>

(* Two looks at the cache, 2 and 3 seconds later.                          *)
WaitForCache(c) ==
  /\ pc[c] \in {"wait", "waitMore"}
  /\ Goto(c, IF cache THEN "use" ELSE IF pc[c] = "wait" THEN "waitMore" ELSE "idle")
  /\ UNCHANGED <<spotify, auth, redis, held, has, signIn, revoked, faults>>

ReadAuth(c) ==
  /\ pc[c] = "read"
  /\ Goto(c, IF isValid THEN "exchange" ELSE "unlock")
  /\ held' = [held EXCEPT ![c] = IF isValid THEN refreshToken ELSE 0]
  /\ UNCHANGED <<spotify, auth, redis, has, signIn, revoked, faults>>

Rotate(old, new) == live' = (live \ {old}) \union {new} /\ issued' = new

\* Mutant: the refresh token that came back is dropped.
ExchangeKeepsOld(c) ==
  /\ pc[c] = "exchange"
  /\ \/ /\ held[c] \in live
        /\ \/ UNCHANGED spotify
           \/ issued < MaxTokens /\ Rotate(held[c], issued + 1)
        /\ UNCHANGED held
        /\ Goto(c, "store")
     \/ /\ held[c] \notin live
        /\ Goto(c, "revoked")
        /\ UNCHANGED <<spotify, held>>
  /\ UNCHANGED <<auth, redis, has, signIn, revoked, faults>>

(* Spotify's answer to the refresh token: an access token, with a new      *)
(* refresh token or without, or invalid_grant.                             *)
Exchange(c) ==
  /\ pc[c] = "exchange"
  /\ \/ /\ held[c] \in live
        /\ \/ UNCHANGED <<spotify, held>>
           \/ /\ issued < MaxTokens
              /\ Rotate(held[c], issued + 1)
              /\ held' = [held EXCEPT ![c] = issued + 1]
        /\ Goto(c, "store")
     \/ /\ held[c] \notin live
        /\ Goto(c, "revoked")
        /\ UNCHANGED <<spotify, held>>
  /\ UNCHANGED <<auth, redis, has, signIn, revoked, faults>>

(* No answer: Spotify may have rotated the token or not.                   *)
ExchangeFails(c) ==
  /\ pc[c] = "exchange"
  /\ Fault
  /\ \/ UNCHANGED spotify
     \/ /\ held[c] \in live /\ issued < MaxTokens
        /\ Rotate(held[c], issued + 1)
  /\ Goto(c, "unlock")
  /\ held' = [held EXCEPT ![c] = 0]
  /\ UNCHANGED <<auth, redis, has, signIn, revoked>>

StoreToken(c) ==
  /\ pc[c] = "store"
  /\ refreshToken' = held[c]
  /\ isValid' = TRUE
  /\ consecutiveFailures' = 0
  /\ Goto(c, "cache")
  /\ held' = [held EXCEPT ![c] = 0]
  /\ UNCHANGED <<spotify, redis, has, signIn, revoked, faults>>

(* invalid_grant: the token counts as revoked by the user.                 *)
InvalidateRevoked(c) ==
  /\ pc[c] = "revoked"
  /\ isValid' = FALSE
  /\ Goto(c, "unlock")
  /\ held' = [held EXCEPT ![c] = 0]
  /\ UNCHANGED <<spotify, refreshToken, consecutiveFailures, redis, has, signIn,
                 revoked, faults>>

(* The statement of one of these steps fails; the finally block still      *)
(* runs.                                                                   *)
RefreshFails(c) ==
  /\ pc[c] \in {"read", "store", "revoked", "cache"}
  /\ Fault
  /\ Goto(c, "unlock")
  /\ held' = [held EXCEPT ![c] = 0]
  /\ UNCHANGED <<spotify, auth, redis, has, signIn, revoked>>

CacheToken(c) ==
  /\ pc[c] = "cache"
  /\ cache' = TRUE
  /\ has' = [has EXCEPT ![c] = TRUE]
  /\ Goto(c, "unlock")
  /\ UNCHANGED <<spotify, auth, lock, held, signIn, revoked, faults>>

(* The lock is deleted, whoever holds it by now.                           *)
ReleaseLock(c) ==
  /\ pc[c] = "unlock"
  /\ lock' = FALSE
  /\ Goto(c, IF has[c] THEN "use" ELSE "idle")
  /\ has' = [has EXCEPT ![c] = FALSE]
  /\ UNCHANGED <<spotify, auth, cache, held, signIn, revoked, faults>>

-----------------------------------------------------------------------------
(* What a job does with the token.                                         *)

(* Its calls succeed.  The sync and top-stats jobs reset the count, the    *)
(* other users of a token do not.                                          *)
CallsSucceed(c) ==
  /\ pc[c] = "use"
  /\ live # {}
  /\ Goto(c, "idle")
  /\ consecutiveFailures' \in {0, consecutiveFailures}
  /\ UNCHANGED <<spotify, refreshToken, isValid, redis, held, has, signIn, revoked,
                 faults>>

(* 401 or 403: recordTokenFailure, up to its threshold.                    *)
RecordFailure(c) ==
  /\ pc[c] = "use"
  /\ consecutiveFailures < MaxCount
  /\ consecutiveFailures' = consecutiveFailures + 1
  /\ Goto(c, IF consecutiveFailures + 1 >= MaxFailures THEN "invalidate" ELSE "idle")
  /\ UNCHANGED <<spotify, refreshToken, isValid, redis, held, has, signIn, revoked,
                 faults>>

InvalidateFailing(c) ==
  /\ pc[c] = "invalidate"
  /\ isValid' = FALSE
  /\ Goto(c, "idle")
  /\ UNCHANGED <<spotify, refreshToken, consecutiveFailures, redis, held, has,
                 signIn, revoked, faults>>

-----------------------------------------------------------------------------
(* The login: code exchange, upsert, cache.                                *)

LoginExchange ==
  /\ login = 0 /\ ~loginCaches
  /\ issued < MaxTokens
  /\ login' = issued + 1
  /\ live' = live \union {issued + 1}
  /\ issued' = issued + 1
  /\ UNCHANGED <<auth, redis, callers, loginCaches, revoked, faults>>

(* A user who returns: consecutiveFailures stays as it was.                *)
LoginUpsert ==
  /\ login # 0
  /\ refreshToken' = login
  /\ isValid' = TRUE
  /\ login' = 0
  /\ loginCaches' = TRUE
  /\ UNCHANGED <<spotify, consecutiveFailures, redis, callers, revoked, faults>>

LoginCache ==
  /\ loginCaches
  /\ cache' = TRUE
  /\ loginCaches' = FALSE
  /\ UNCHANGED <<spotify, auth, lock, callers, login, revoked, faults>>

-----------------------------------------------------------------------------
(* The environment.                                                        *)

Revoke ==
  /\ live # {}
  /\ live' = {}
  /\ revoked' = TRUE
  /\ UNCHANGED <<issued, auth, redis, callers, signIn, faults>>

CacheExpires ==
  /\ cache
  /\ cache' = FALSE
  /\ UNCHANGED <<spotify, auth, lock, callers, signIn, revoked, faults>>

Refreshing(c) == pc[c] \in {"read", "exchange", "store", "revoked", "cache", "unlock"}

(* The lock's 30 seconds are over before its holder is done.               *)
LockExpiresEarly ==
  /\ lock
  /\ Fault
  /\ lock' = FALSE
  /\ UNCHANGED <<spotify, auth, cache, callers, signIn, revoked>>

(* The lock of a holder that is gone.                                      *)
LockExpires ==
  /\ lock
  /\ \A c \in Caller : ~Refreshing(c)
  /\ lock' = FALSE
  /\ UNCHANGED <<spotify, auth, cache, callers, signIn, revoked, faults>>

Crash ==
  /\ Fault
  /\ pc' = [c \in Caller |-> "idle"]
  /\ held' = [c \in Caller |-> 0]
  /\ has' = [c \in Caller |-> FALSE]
  /\ login' = 0
  /\ loginCaches' = FALSE
  /\ UNCHANGED <<spotify, auth, redis, revoked>>

-----------------------------------------------------------------------------
GetToken(c) ==
  \/ GetCached(c) \/ CheckAuth(c) \/ TakeLock(c) \/ WaitForCache(c) \/ ReadAuth(c)
  \/ Exchange(c) \/ StoreToken(c) \/ InvalidateRevoked(c) \/ CacheToken(c)
  \/ ReleaseLock(c)

UseToken(c) == CallsSucceed(c) \/ RecordFailure(c) \/ InvalidateFailing(c)

Next ==
  \/ \E c \in Caller : \/ GetToken(c) \/ UseToken(c)
                       \/ ExchangeFails(c) \/ RefreshFails(c)
  \/ LoginExchange \/ LoginUpsert \/ LoginCache
  \/ Revoke \/ CacheExpires \/ LockExpiresEarly \/ LockExpires \/ Crash

Spec == Init /\ [][Next]_vars

-----------------------------------------------------------------------------
(* Properties.                                                             *)

TypeOK ==
  /\ live \subseteq Token
  /\ issued \in Token
  /\ refreshToken \in Token
  /\ isValid \in BOOLEAN
  /\ consecutiveFailures \in 0..MaxCount
  /\ cache \in BOOLEAN
  /\ lock \in BOOLEAN
  /\ pc \in [Caller -> {"idle", "auth", "lock", "wait", "waitMore", "read",
                        "exchange", "store", "revoked", "cache", "unlock", "use",
                        "invalidate"}]
  /\ held \in [Caller -> Token \union {0}]
  /\ has \in [Caller -> BOOLEAN]
  /\ login \in Token \union {0}
  /\ loginCaches \in BOOLEAN
  /\ revoked \in BOOLEAN
  /\ faults \in 0..MaxFaults

(* As long as no lock expires under its holder and no process dies with    *)
(* it, one caller at a time refreshes: "Distributed mutex for token        *)
(* refresh to prevent race conditions".                                    *)
RefreshExclusive ==
  faults = 0 => \A b, c \in Caller : Refreshing(b) /\ Refreshing(c) => b = c

(* The refresh token in the database works, but for the moment between     *)
(* Spotify's answer and its storing - even when a login comes between      *)
(* the two.                                                                *)
StoredTokenWorks ==
  faults = 0 /\ ~revoked /\ (\A c \in Caller : pc[c] # "store") => refreshToken \in live

(* No job takes the effect of another job's refresh for a revocation by    *)
(* the user: while the grant stands, nobody is told invalid_grant.         *)
NoFalseRevocation ==
  faults = 0 /\ ~revoked => \A c \in Caller : pc[c] # "revoked"
=============================================================================
