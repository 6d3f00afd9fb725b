------------------------- MODULE TokenManagerProofs -------------------------
(***************************************************************************)
(* What guards the calls to Spotify: TokenManager, for any number of jobs, *)
(* logins, rotations and failures, and CircuitBreaker, for any number of   *)
(* overlapping calls, any threshold, timeout and window.  The two share no *)
(* state; the names that begin with Breaker are CircuitBreaker's.          *)
(*                                                                         *)
(* The argument: while no lock has been lost, the callers between TakeLock *)
(* and ReleaseLock exclude each other (LockInv), so the token one of them  *)
(* has read stays the one in the database, or is at least still live       *)
(* (GrantInv); a login cannot get in the way because its token is none a   *)
(* caller holds (Fresh).                                                   *)
(***************************************************************************)
EXTENDS TokenManager, CircuitBreaker, TLAPS

(* A caller that talks to Spotify, or has its answer, holds a token.       *)
HoldsToken ==
  \A c \in Caller : pc[c] \in {"exchange", "store"} => held[c] # 0

LockInv ==
  faults = 0 => /\ \A c \in Caller : Refreshing(c) => lock
                /\ \A b, c \in Caller : Refreshing(b) /\ Refreshing(c) => b = c

Fresh ==
  /\ refreshToken <= issued
  /\ login <= issued
  /\ \A c \in Caller : held[c] <= issued
  /\ login # 0 => login # refreshToken /\ \A c \in Caller : held[c] # login

GrantInv ==
  faults = 0 /\ ~revoked =>
    /\ (\A c \in Caller : pc[c] # "store") => refreshToken \in live
    /\ \A c \in Caller : pc[c] \in {"exchange", "store"} => held[c] \in live
    /\ \A c \in Caller : pc[c] # "revoked"
    /\ login # 0 => login \in live

-----------------------------------------------------------------------------
(* Type correctness.                                                       *)

TypeInv == TypeOK /\ HoldsToken

LEMMA TypeInit == Init => TypeInv
<1> SUFFICES ASSUME Init PROVE TypeInv
  OBVIOUS
<1> USE TokenAssumption DEF Init, Token, TokenAssumption
<1>1. /\ live \subseteq Token /\ issued \in Token /\ refreshToken \in Token
      /\ consecutiveFailures \in 0..MaxCount /\ faults \in 0..MaxFaults
      /\ held \in [Caller -> Token \union {0}] /\ login \in Token \union {0}
  OBVIOUS
<1>2. HoldsToken
  BY DEF HoldsToken
<1> QED
  BY <1>1, <1>2 DEF TypeInv, TypeOK

LEMMA TypeGetToken ==
  ASSUME TypeInv, NEW c \in Caller, GetToken(c)
  PROVE  TypeInv'
<1> USE TokenAssumption
    DEF TokenAssumption, TypeInv, TypeOK, HoldsToken, Goto, spotify, auth, redis, signIn
<1>1. CASE GetCached(c)
  BY <1>1 DEF GetCached
<1>2. CASE CheckAuth(c)
  BY <1>2 DEF CheckAuth
<1>3. CASE TakeLock(c)
  BY <1>3 DEF TakeLock
<1>4. CASE WaitForCache(c)
  BY <1>4 DEF WaitForCache
<1>5. CASE ReadAuth(c)
  BY <1>5 DEF ReadAuth, Token
<1>6. CASE Exchange(c)
  <2>1. live' \subseteq Token /\ issued' \in Token
    <3>1. \/ live' = live /\ issued' = issued
          \/ issued < MaxTokens /\ Rotate(held[c], issued + 1)
      BY <1>6 DEF Exchange
    <3>2. ASSUME issued < MaxTokens PROVE issued + 1 \in Token
      BY <3>2 DEF Token
    <3> QED
      BY <3>1, <3>2 DEF Rotate
  <2>2. held' \in [Caller -> Token \union {0}] /\ HoldsToken'
    BY <1>6 DEF Exchange, Token
  <2> QED
    BY <1>6, <2>1, <2>2 DEF Exchange
<1>7. CASE StoreToken(c)
  BY <1>7 DEF StoreToken
<1>8. CASE InvalidateRevoked(c)
  BY <1>8 DEF InvalidateRevoked
<1>9. CASE CacheToken(c)
  BY <1>9 DEF CacheToken
<1>10. CASE ReleaseLock(c)
  BY <1>10 DEF ReleaseLock
<1> QED
  BY <1>1, <1>2, <1>3, <1>4, <1>5, <1>6, <1>7, <1>8, <1>9, <1>10 DEF GetToken

LEMMA TypeCaller ==
  ASSUME TypeInv, NEW c \in Caller,
         UseToken(c) \/ ExchangeFails(c) \/ RefreshFails(c)
  PROVE  TypeInv'
<1> USE TokenAssumption
    DEF TokenAssumption, TypeInv, TypeOK, HoldsToken, Goto, Fault, spotify, auth,
        redis, signIn
<1>1. CASE CallsSucceed(c)
  BY <1>1 DEF CallsSucceed
<1>2. CASE RecordFailure(c)
  BY <1>2 DEF RecordFailure
<1>3. CASE InvalidateFailing(c)
  BY <1>3 DEF InvalidateFailing
<1>4. CASE ExchangeFails(c)
  <2>1. live' \subseteq Token /\ issued' \in Token
    <3>1. \/ live' = live /\ issued' = issued
          \/ issued < MaxTokens /\ Rotate(held[c], issued + 1)
      BY <1>4 DEF ExchangeFails
    <3>2. ASSUME issued < MaxTokens PROVE issued + 1 \in Token
      BY <3>2 DEF Token
    <3> QED
      BY <3>1, <3>2 DEF Rotate
  <2>2. faults' \in 0..MaxFaults
    BY <1>4 DEF ExchangeFails
  <2> QED
    BY <1>4, <2>1, <2>2 DEF ExchangeFails
<1>5. CASE RefreshFails(c)
  BY <1>5 DEF RefreshFails
<1> QED
  BY <1>1, <1>2, <1>3, <1>4, <1>5 DEF UseToken

LEMMA TypeOthers ==
  ASSUME TypeInv,
         \/ LoginExchange \/ LoginUpsert \/ LoginCache
         \/ Revoke \/ CacheExpires \/ LockExpiresEarly \/ LockExpires \/ Crash
         \/ UNCHANGED vars
  PROVE  TypeInv'
<1> USE TokenAssumption
    DEF TokenAssumption, TypeInv, TypeOK, HoldsToken, Fault, spotify, auth, redis,
        callers, signIn
<1>1. CASE LoginExchange
  BY <1>1 DEF LoginExchange, Token
<1>2. CASE LoginUpsert
  BY <1>2 DEF LoginUpsert
<1>3. CASE LoginCache
  BY <1>3 DEF LoginCache
<1>4. CASE Revoke
  BY <1>4 DEF Revoke
<1>5. CASE CacheExpires
  BY <1>5 DEF CacheExpires
<1>6. CASE LockExpiresEarly
  <2>1. faults' \in 0..MaxFaults
    BY <1>6 DEF LockExpiresEarly
  <2> QED
    BY <1>6, <2>1 DEF LockExpiresEarly
<1>7. CASE LockExpires
  BY <1>7 DEF LockExpires
<1>8. CASE Crash
  <2>1. faults' \in 0..MaxFaults
    BY <1>8 DEF Crash
  <2> QED
    BY <1>8, <2>1 DEF Crash
<1>9. CASE UNCHANGED vars
  BY <1>9 DEF vars
<1> QED
  BY <1>1, <1>2, <1>3, <1>4, <1>5, <1>6, <1>7, <1>8, <1>9

LEMMA TypeInvCorrect == Spec => []TypeInv
<1>1. TypeInv /\ [Next]_vars => TypeInv'
  BY TypeGetToken, TypeCaller, TypeOthers DEF Next
<1> QED
  BY <1>1, TypeInit, PTL DEF Spec

(* Every variable keeps its type; the token in the database is one that    *)
(* Spotify has issued.                                                     *)
THEOREM TypeCorrect == Spec => []TypeOK
  BY TypeInvCorrect, PTL DEF TypeInv

-----------------------------------------------------------------------------
(* The lock.                                                               *)

(* Steps that a fault explains leave faults above zero.                    *)
LEMMA FaultsGrow ==
  ASSUME TypeOK, Fault
  PROVE  faults' # 0
  BY DEF TypeOK, Fault

LEMMA LockInvNext ==
  ASSUME TypeInv, LockInv, [Next]_vars
  PROVE  LockInv'
<1> USE DEF LockInv, Refreshing, TypeInv, TypeOK, Goto
<1>0. faults' # 0 => LockInv'
  OBVIOUS
<1>1. ASSUME NEW c \in Caller, TakeLock(c) PROVE LockInv'
  BY <1>1 DEF TakeLock, signIn
<1>2. ASSUME NEW c \in Caller, ReleaseLock(c) PROVE LockInv'
  BY <1>2 DEF ReleaseLock, signIn
<1>3. ASSUME NEW c \in Caller,
             \/ ReadAuth(c) \/ Exchange(c) \/ StoreToken(c)
             \/ InvalidateRevoked(c) \/ CacheToken(c)
      PROVE  LockInv'
  <2>1. /\ faults' = faults /\ lock' = lock /\ Refreshing(c)
        /\ \E s \in {"exchange", "unlock", "store", "revoked", "cache"} :
              pc' = [pc EXCEPT ![c] = s]
    BY <1>3 DEF ReadAuth, Exchange, StoreToken, InvalidateRevoked, CacheToken, redis
  <2> QED
    BY <2>1
<1>4. ASSUME NEW c \in Caller,
             \/ GetCached(c) \/ CheckAuth(c) \/ WaitForCache(c) \/ UseToken(c)
      PROVE  LockInv'
  <2>1. /\ faults' = faults /\ lock' = lock
        /\ \E s \in {"use", "auth", "lock", "idle", "waitMore", "invalidate"} :
              pc' = [pc EXCEPT ![c] = s]
    BY <1>4 DEF GetCached, CheckAuth, WaitForCache, UseToken, CallsSucceed,
                RecordFailure, InvalidateFailing, redis
  <2> QED
    BY <2>1
<1>5. CASE LoginExchange \/ LoginUpsert \/ LoginCache \/ Revoke \/ CacheExpires
           \/ UNCHANGED vars
  <2>1. UNCHANGED <<faults, lock, pc>>
    BY <1>5 DEF LoginExchange, LoginUpsert, LoginCache, Revoke, CacheExpires, vars,
                redis, callers
  <2> QED
    BY <2>1
<1>6. CASE LockExpires
  BY <1>6 DEF LockExpires, callers
<1>7. ASSUME NEW c \in Caller, ExchangeFails(c) \/ RefreshFails(c) PROVE LockInv'
  BY <1>0, <1>7, FaultsGrow DEF ExchangeFails, RefreshFails
<1>8. CASE LockExpiresEarly \/ Crash
  BY <1>0, <1>8, FaultsGrow DEF LockExpiresEarly, Crash
<1> QED
  BY <1>1, <1>2, <1>3, <1>4, <1>5, <1>6, <1>7, <1>8 DEF Next, GetToken

LEMMA LockInvCorrect == Spec => []LockInv
<1>1. Init => LockInv
  BY DEF Init, LockInv, Refreshing
<1> QED
  BY <1>1, LockInvNext, TypeInvCorrect, PTL DEF Spec

(* One refresh at a time, however the jobs of the user overlap, for as     *)
(* long as no lock expires under its holder and no process dies with it.   *)
THEOREM RefreshExclusiveCorrect == Spec => []RefreshExclusive
<1>1. LockInv => RefreshExclusive
  BY DEF LockInv, RefreshExclusive
<1> QED
  BY <1>1, LockInvCorrect, PTL

-----------------------------------------------------------------------------
(* The refresh token.                                                      *)

LEMMA FreshNext ==
  ASSUME TypeInv, Fresh, [Next]_vars
  PROVE  Fresh'
<1> USE DEF Fresh, TypeInv, TypeOK, Goto, Token
<1>1. ASSUME NEW c \in Caller, ReadAuth(c) PROVE Fresh'
  BY <1>1 DEF ReadAuth, spotify, auth, signIn
<1>2. ASSUME NEW c \in Caller, Exchange(c) \/ ExchangeFails(c) PROVE Fresh'
  <2>1. /\ refreshToken' = refreshToken /\ login' = login
        /\ \/ issued' = issued /\ (held' = held \/ held' = [held EXCEPT ![c] = 0])
           \/ /\ issued' = issued + 1
              /\ \E t \in {issued + 1, 0} : held' = [held EXCEPT ![c] = t]
    BY <1>2 DEF Exchange, ExchangeFails, Rotate, spotify, auth, signIn
  <2> QED
    BY <2>1
<1>3. ASSUME NEW c \in Caller, StoreToken(c) PROVE Fresh'
  <2>1. /\ refreshToken' = held[c] /\ held' = [held EXCEPT ![c] = 0]
        /\ UNCHANGED <<login, issued>>
    BY <1>3 DEF StoreToken, spotify, signIn
  <2> QED
    BY <2>1
<1>4. ASSUME NEW c \in Caller, InvalidateRevoked(c) \/ RefreshFails(c) PROVE Fresh'
  <2>1. /\ held' = [held EXCEPT ![c] = 0]
        /\ UNCHANGED <<refreshToken, login, issued>>
    BY <1>4 DEF InvalidateRevoked, RefreshFails, spotify, auth, signIn
  <2> QED
    BY <2>1
<1>5. CASE LoginExchange
  BY <1>5 DEF LoginExchange, auth, callers
<1>6. CASE LoginUpsert
  BY <1>6 DEF LoginUpsert, spotify, callers
<1>7. CASE Crash
  BY <1>7 DEF Crash, spotify, auth
<1>8. ASSUME \/ \E c \in Caller :
                 \/ GetCached(c) \/ CheckAuth(c) \/ TakeLock(c) \/ WaitForCache(c)
                 \/ CacheToken(c) \/ ReleaseLock(c) \/ UseToken(c)
             \/ LoginCache \/ Revoke \/ CacheExpires \/ LockExpiresEarly
             \/ LockExpires \/ UNCHANGED vars
      PROVE  Fresh'
  <2>1. UNCHANGED <<refreshToken, login, issued, held>>
    BY <1>8 DEF GetCached, CheckAuth, TakeLock, WaitForCache, CacheToken, ReleaseLock,
                UseToken, CallsSucceed, RecordFailure, InvalidateFailing, LoginCache,
                Revoke, CacheExpires, LockExpiresEarly, LockExpires, vars, spotify,
                auth, callers, signIn
  <2> QED
    BY <2>1
<1> QED
  BY <1>1, <1>2, <1>3, <1>4, <1>5, <1>6, <1>7, <1>8 DEF Next, GetToken

LEMMA FreshCorrect == Spec => []Fresh
<1>1. Init => Fresh
  BY DEF Init, Fresh
<1> QED
  BY <1>1, FreshNext, TypeInvCorrect, PTL DEF Spec

LEMMA GrantInvNext ==
  ASSUME TypeInv, LockInv, Fresh, GrantInv, [Next]_vars
  PROVE  GrantInv'
<1> USE DEF GrantInv, TypeInv, TypeOK, Goto
<1>0. faults' # 0 => GrantInv'
  OBVIOUS
(* While c refreshes, no other caller holds a token it will exchange.      *)
<1>1. ASSUME NEW c \in Caller, NEW d \in Caller, faults = 0, Refreshing(c), d # c
      PROVE  pc[d] \notin {"exchange", "store"}
  BY <1>1 DEF LockInv, Refreshing
<1>2. ASSUME NEW c \in Caller, ReadAuth(c) PROVE GrantInv'
  <2>1. Refreshing(c) /\ pc[c] # "store"
    BY <1>2 DEF ReadAuth, Refreshing
  <2>2. /\ UNCHANGED <<live, refreshToken, login, revoked, faults>>
        /\ held' = [held EXCEPT ![c] = IF isValid THEN refreshToken ELSE 0]
        /\ pc' = [pc EXCEPT ![c] = IF isValid THEN "exchange" ELSE "unlock"]
    BY <1>2 DEF ReadAuth, spotify, auth, signIn
  <2>3. faults = 0 => \A d \in Caller : pc[d] # "store"
    BY <2>1, <1>1
  <2> QED
    BY <2>1, <2>2, <2>3
<1>3. ASSUME NEW c \in Caller, Exchange(c) PROVE GrantInv'
  <2>1. Refreshing(c) /\ pc[c] = "exchange"
    BY <1>3 DEF Exchange, Refreshing
  <2>2. UNCHANGED <<refreshToken, login, revoked, faults>>
    BY <1>3 DEF Exchange, auth, signIn
  <2>3. SUFFICES ASSUME faults = 0, ~revoked
                 PROVE  GrantInv'
    BY <2>2
  <2>4. /\ pc' = [pc EXCEPT ![c] = "store"]
        /\ \/ live' = live /\ held' = held
           \/ /\ live' = (live \ {held[c]}) \union {issued + 1}
              /\ held' = [held EXCEPT ![c] = issued + 1]
    BY <1>3, <2>1, <2>3 DEF Exchange, Rotate, spotify
  <2>5. login # 0 => login \in live'
    BY <2>3, <2>4 DEF Fresh
  <2>6. \A d \in Caller : d # c => pc[d] \notin {"exchange", "store"}
    BY <2>1, <2>3, <1>1
  <2> QED
    BY <2>1, <2>2, <2>3, <2>4, <2>5, <2>6
<1>4. ASSUME NEW c \in Caller, StoreToken(c) PROVE GrantInv'
  <2>1. Refreshing(c) /\ pc[c] = "store"
    BY <1>4 DEF StoreToken, Refreshing
  <2>2. /\ UNCHANGED <<live, login, revoked, faults>>
        /\ refreshToken' = held[c]
        /\ held' = [held EXCEPT ![c] = 0]
        /\ pc' = [pc EXCEPT ![c] = "cache"]
    BY <1>4 DEF StoreToken, spotify, signIn
  <2> QED
    BY <2>1, <2>2, <1>1
<1>5. ASSUME NEW c \in Caller, InvalidateRevoked(c) PROVE GrantInv'
  BY <1>5 DEF InvalidateRevoked, signIn
<1>6. ASSUME NEW c \in Caller,
             \/ GetCached(c) \/ CheckAuth(c) \/ TakeLock(c) \/ WaitForCache(c)
             \/ CacheToken(c) \/ ReleaseLock(c) \/ UseToken(c)
      PROVE  GrantInv'
  <2>1. /\ UNCHANGED <<live, refreshToken, login, held, revoked, faults>>
        /\ pc[c] # "store"
        /\ \E s \in {"use", "auth", "lock", "idle", "wait", "read", "waitMore",
                     "unlock", "invalidate"} : pc' = [pc EXCEPT ![c] = s]
    BY <1>6 DEF GetCached, CheckAuth, TakeLock, WaitForCache, CacheToken, ReleaseLock,
                UseToken, CallsSucceed, RecordFailure, InvalidateFailing, spotify,
                auth, signIn
  <2> QED
    BY <2>1
<1>7. CASE LoginExchange
  BY <1>7 DEF LoginExchange, auth, callers
<1>8. CASE LoginUpsert
  BY <1>8 DEF LoginUpsert, spotify, callers
<1>9. CASE Revoke
  BY <1>9 DEF Revoke
<1>10. CASE LoginCache \/ CacheExpires \/ LockExpires \/ UNCHANGED vars
  <2>1. UNCHANGED <<live, refreshToken, login, held, pc, revoked, faults>>
    BY <1>10 DEF LoginCache, CacheExpires, LockExpires, vars, spotify, auth, callers,
                 signIn
  <2> QED
    BY <2>1
<1>11. CASE LockExpiresEarly \/ Crash \/ \E c \in Caller : ExchangeFails(c) \/ RefreshFails(c)
  BY <1>0, <1>11, FaultsGrow DEF LockExpiresEarly, Crash, ExchangeFails, RefreshFails
<1> QED
  BY <1>2, <1>3, <1>4, <1>5, <1>6, <1>7, <1>8, <1>9, <1>10, <1>11 DEF Next, GetToken

LEMMA GrantInvCorrect == Spec => []GrantInv
<1>1. Init => GrantInv
  BY DEF Init, GrantInv
<1> QED
  BY <1>1, GrantInvNext, TypeInvCorrect, LockInvCorrect, FreshCorrect, PTL DEF Spec

(* The refresh token in the database is one Spotify accepts, but for the   *)
(* moment before a rotated one is stored.                                  *)
THEOREM StoredTokenWorksCorrect == Spec => []StoredTokenWorks
<1>1. GrantInv => StoredTokenWorks
  BY DEF GrantInv, StoredTokenWorks
<1> QED
  BY <1>1, GrantInvCorrect, PTL

(* No user is marked invalid because two of their jobs refreshed at once.  *)
THEOREM NoFalseRevocationCorrect == Spec => []NoFalseRevocation
<1>1. GrantInv => NoFalseRevocation
  BY DEF GrantInv, NoFalseRevocation
<1> QED
  BY <1>1, GrantInvCorrect, PTL

-----------------------------------------------------------------------------
(* The circuit breaker.                                                    *)

(* What the threshold asks of the list, once a failure is pushed.          *)
LEMMA PushedInRange ==
  ASSUME BreakerTypeOK
  PROVE  /\ [k \in Rank |-> IF k = 1 THEN 0 ELSE age[k - 1]] \in [Rank -> 0..Window]
         /\ Threshold \in Rank
  BY BreakerAssumption DEF BreakerAssumption, BreakerTypeOK, Rank

(* Every variable keeps its type, so the ages stay within the window.      *)
THEOREM BreakerTypeCorrect == BreakerSpec => []BreakerTypeOK
<1>1. BreakerInit => BreakerTypeOK
  BY BreakerAssumption DEF BreakerInit, BreakerTypeOK, NoFailures, BreakerAssumption
<1>2. BreakerTypeOK /\ [BreakerNext]_breakerVars => BreakerTypeOK'
  <2> SUFFICES ASSUME BreakerTypeOK, [BreakerNext]_breakerVars PROVE BreakerTypeOK'
    OBVIOUS
  <2> USE BreakerAssumption DEF BreakerAssumption, BreakerTypeOK
  <2>1. ASSUME NEW c \in Call, Begin(c) PROVE BreakerTypeOK'
    BY <2>1 DEF Begin, Updated
  <2>2. ASSUME NEW c \in Call, Succeed(c) PROVE BreakerTypeOK'
    BY <2>2 DEF Succeed, NoFailures
  <2>3. ASSUME NEW c \in Call, FailCounted(c) PROVE BreakerTypeOK'
    BY <2>3, PushedInRange DEF FailCounted, recordFailure
  <2>4. ASSUME NEW c \in Call, FailUncounted(c) PROVE BreakerTypeOK'
    BY <2>4 DEF FailUncounted
  <2>5. CASE Tick
    BY <2>5 DEF Tick, Older
  <2>6. CASE UNCHANGED breakerVars
    BY <2>6 DEF breakerVars
  <2> QED
    BY <2>1, <2>2, <2>3, <2>4, <2>5, <2>6 DEF BreakerNext
<1> QED
  BY <1>1, <1>2, PTL DEF BreakerSpec

(* A closed breaker never has Threshold failures in its window: the only   *)
(* steps that leave it closed with a new failure have compared, and the    *)
(* only step that closes it empties the list.                              *)
THEOREM ClosedBelowThresholdCorrect == BreakerSpec => []ClosedBelowThreshold
<1>1. BreakerInit => ClosedBelowThreshold
  BY BreakerAssumption DEF BreakerInit, ClosedBelowThreshold, NoFailures, Rank, BreakerAssumption
<1>2. BreakerTypeOK /\ ClosedBelowThreshold /\ [BreakerNext]_breakerVars => ClosedBelowThreshold'
  <2> SUFFICES ASSUME BreakerTypeOK, ClosedBelowThreshold, [BreakerNext]_breakerVars
               PROVE  ClosedBelowThreshold'
    OBVIOUS
  <2> USE BreakerAssumption DEF ClosedBelowThreshold
  <2>t. Threshold \in Rank /\ age[Threshold] \in 0..Window /\ Window \in Nat
    BY BreakerAssumption DEF BreakerTypeOK, Rank, BreakerAssumption
  <2>1. ASSUME NEW c \in Call, Begin(c) PROVE ClosedBelowThreshold'
    BY <2>1 DEF Begin, Updated
  <2>2. ASSUME NEW c \in Call, Succeed(c) PROVE ClosedBelowThreshold'
    BY <2>2, <2>t DEF Succeed, NoFailures
  <2>3. ASSUME NEW c \in Call, FailCounted(c) PROVE ClosedBelowThreshold'
    <3> DEFINE pushed == [k \in Rank |-> IF k = 1 THEN 0 ELSE age[k - 1]]
    <3>1. pushed[Threshold] \in 0..Window
      BY PushedInRange
    <3>2. /\ age' = pushed
          /\ state' = IF phase[c] = "probe" \/ pushed[Threshold] < Window THEN "OPEN" ELSE state
      BY <2>3 DEF FailCounted, recordFailure
    <3> HIDE DEF pushed
    <3> QED
      BY <3>1, <3>2, <2>t
  <2>4. ASSUME NEW c \in Call, FailUncounted(c) PROVE ClosedBelowThreshold'
    BY <2>4 DEF FailUncounted
  <2>5. CASE Tick
    BY <2>5, <2>t DEF Tick, Older
  <2>6. CASE UNCHANGED breakerVars
    BY <2>6 DEF breakerVars
  <2> QED
    BY <2>1, <2>2, <2>3, <2>4, <2>5, <2>6 DEF BreakerNext
<1> QED
  BY <1>1, <1>2, BreakerTypeCorrect, PTL DEF BreakerSpec

(* A breaker that is not closed closes by the success of a call that found *)
(* it half open, and by nothing else.                                      *)
THEOREM OnlyProbesCloseCorrect == BreakerSpec => OnlyProbesClose
<1> DEFINE Closed == state # "CLOSED" /\ state' = "CLOSED"
                     => \E c \in Call : phase[c] = "probe" /\ phase'[c] = "idle"
<1>1. BreakerTypeOK /\ [BreakerNext]_breakerVars => Closed
  <2> SUFFICES ASSUME BreakerTypeOK, [BreakerNext]_breakerVars, state # "CLOSED", state' = "CLOSED"
               PROVE  \E c \in Call : phase[c] = "probe" /\ phase'[c] = "idle"
    OBVIOUS
  <2>1. ASSUME NEW c \in Call, Begin(c) PROVE FALSE
    BY <2>1 DEF Begin, Updated
  <2>2. ASSUME NEW c \in Call, Succeed(c) PROVE phase[c] = "probe" /\ phase'[c] = "idle"
    BY <2>2 DEF Succeed, BreakerTypeOK
  <2>3. ASSUME NEW c \in Call, FailCounted(c) PROVE FALSE
    BY <2>3 DEF FailCounted, recordFailure
  <2>4. ASSUME NEW c \in Call, FailUncounted(c) PROVE FALSE
    BY <2>4 DEF FailUncounted
  <2>5. ~Tick /\ ~UNCHANGED breakerVars
    BY DEF Tick, breakerVars
  <2> QED
    BY <2>1, <2>2, <2>3, <2>4, <2>5 DEF BreakerNext
<1>2. BreakerTypeOK /\ [BreakerNext]_breakerVars => [Closed]_breakerVars
  BY <1>1
<1> QED
  BY <1>2, BreakerTypeCorrect, PTL DEF BreakerSpec, OnlyProbesClose
=============================================================================
