------------------------------ MODULE TopStats ------------------------------
(***************************************************************************)
(* The refresh of one user's top tracks and artists: the jobs that ask for *)
(* it (lazy on a visit, on login, swept by cron, manual, healing), their   *)
(* attempts, and the bodies that fetch from Spotify and replace the        *)
(* rankings in one transaction.                                            *)
(*                                                                         *)
(* A day begins at 3 AM with the sweep.  loginAge and refreshAge count the *)
(* 3 AMs since the last login and the last refresh, so that at 3 AM the    *)
(* hours since are known to lie in a day, and in two days during the day.  *)
(* The user's authorization at Spotify is valid or not; workers and token  *)
(* refreshes outside this module change it too.                            *)
(***************************************************************************)
EXTENDS Naturals, FiniteSets, SequencesExt

CONSTANTS
    Slots,        \* jobs without an id of their own: sweep, heal, manual
    Concurrency,  \* jobs the worker processes at a time (3)
    MaxAttempts,  \* attempts of a job (3)
    MaxStalls,    \* BullMQ's maxStalledCount (1)
    MaxFaults     \* bound on failures, timeouts and restarts

ASSUME TopStatsAssumption ==
    /\ {"lazy", "login", "request"} \cap Slots = {}
    /\ Concurrency \in Nat \ {0} /\ MaxAttempts \in Nat \ {0}
    /\ MaxStalls \in Nat /\ MaxFaults \in Nat

Jobs == Slots \cup {"lazy", "login"}
\* The attempts of the jobs, and the playlist request that refreshes by itself.
Bodies == (Jobs \cup {"request"}) \X (1 .. MaxAttempts)
Direct == <<"request", 1>>

Never == 99          \* topStatsRefreshedAt is null
MaxLoginAge == 9     \* bound: 9 stands for 9 days and more
MaxRefreshAge == 5   \* bound: 5 stands for 5 days and more

VARIABLES
    loginAge,    \* users.lastLoginAt
    refreshAge,  \* users.topStatsRefreshedAt, and the age of the rankings
    valid,       \* auth.isValid
    missed,      \* history: since the last refresh a job has ended without one, or the
                 \* sweep has passed over the user because of the authorization
    job,         \* BullMQ's view: status, attempts begun, restarts it was active at
    step,        \* where each body is
    aborted,     \* the bodies whose AbortSignal has fired
    txQueue,     \* open transactions in the order of FOR UPDATE; the head runs
    written,     \* history: the latest attempt of each job that has committed
    faults

vars == <<loginAge, refreshAge, valid, missed, job, step, aborted, txQueue, written, faults>>
ageVars == <<loginAge, refreshAge>>
userVars == <<loginAge, refreshAge, valid>>

Fault == faults < MaxFaults /\ faults' = faults + 1
Fresh(status) == [status |-> status, attempt |-> 0, stalls |-> 0]
Current(j) == <<j, job[j].attempt>>
Active == {j \in Jobs : job[j].status = "active"}
Idle(j) == \A a \in 1 .. MaxAttempts : step[<<j, a>>] = "idle"
Quiet == /\ \A j \in Jobs : job[j].status \notin {"waiting", "active"}
         /\ \A b \in Bodies : step[b] = "idle"

Init ==
    /\ loginAge = MaxLoginAge
    /\ refreshAge \in {Never, MaxRefreshAge}
    /\ valid \in BOOLEAN
    /\ missed = FALSE
    /\ job = [j \in Jobs |-> Fresh("none")]
    /\ step = [b \in Bodies |-> "idle"]
    /\ aborted = {}
    /\ txQueue = <<>>
    /\ written = [j \in Jobs |-> 0]
    /\ faults = 0

-----------------------------------------------------------------------------
\* When a refresh is due, in days.

Tier(login) == IF login < 2 THEN 1 ELSE IF login < 7 THEN 2 ELSE 3

ShouldRefresh(login, refresh) ==
    \/ refresh = Never
    \/ refresh >= (IF Tier(login) = 2 THEN 3 ELSE 1)

\* Mutant: users who have never been refreshed are left to their visits.
SweepDueOnlyStale(login, refresh) ==
    /\ refresh # Never
    /\ \/ login < 2 /\ refresh >= 1
       \/ login \in 3 .. 6 /\ refresh >= 3

\* Mutant: the ends of the casual users' window are swapped, so that nobody is in it.
SweepDueSwapped(login, refresh) ==
    \/ login < 2 /\ (refresh = Never \/ refresh >= 1)
    \/ login < 3 /\ login >= 7 /\ (refresh = Never \/ refresh >= 3)

\* The two queries of the sweep: nobody between 48 and 72 hours is in either.
SweepDue(login, refresh) ==
    \/ login < 2 /\ (refresh = Never \/ refresh >= 1)
    \/ login \in 3 .. 6 /\ (refresh = Never \/ refresh >= 3)

\* The days that may have passed for an age of k, during the day.
Elapsed(k) == IF k \in {0, Never} THEN {k} ELSE {k - 1, k}

Older(k, bound) == IF k >= bound THEN k ELSE k + 1

-----------------------------------------------------------------------------
\* The jobs that ask for a refresh.

\* BullMQ ignores an id it still has, be it of a finished job.
Add(j) ==
    IF job[j].status = "none"
    THEN /\ job' = [job EXCEPT ![j] = Fresh("waiting")]
         /\ written' = [written EXCEPT ![j] = 0]
    ELSE UNCHANGED <<job, written>>

FreeSlots == {s \in Slots : job[s].status = "none" /\ Idle(s)}

Visit ==
    /\ \E l \in Elapsed(loginAge), r \in Elapsed(refreshAge) : ShouldRefresh(l, r)
    /\ Add("lazy")
    /\ UNCHANGED <<userVars, missed, step, aborted, txQueue, faults>>

Login ==
    /\ loginAge' = 0
    /\ valid' = TRUE
    /\ Add("login")
    /\ UNCHANGED <<refreshAge, missed, step, aborted, txQueue, faults>>

Manual ==
    /\ \E s \in FreeSlots : Add(s)
    /\ UNCHANGED <<userVars, missed, step, aborted, txQueue, faults>>

\* A worker or a token refresh finds the authorization revoked, or a refresh that was
\* under way then stores it as valid again.
AuthChanges ==
    /\ Fault
    /\ valid' = ~valid
    /\ UNCHANGED <<ageVars, missed, job, step, aborted, txQueue, written>>

\* 3 AM.  The sweep asks for users whose authorization is valid; the jitter of four
\* hours and the work of all jobs end within the day.
Day ==
    /\ Quiet
    /\ loginAge' = Older(loginAge, MaxLoginAge)
    /\ refreshAge' = IF refreshAge = Never THEN Never ELSE Older(refreshAge, MaxRefreshAge)
    /\ IF valid /\ SweepDue(loginAge, refreshAge)
       THEN \E s \in FreeSlots : Add(s)
       ELSE UNCHANGED <<job, written>>
    /\ missed' = (missed \/ ~valid)
    /\ UNCHANGED <<valid, step, aborted, txQueue, faults>>

\* The last 100 completed and 50 failed jobs are kept; those of others push one out.
Forget(j) ==
    /\ job[j].status \in {"completed", "failed"}
    /\ Idle(j)
    /\ job' = [job EXCEPT ![j] = Fresh("none")]
    /\ written' = [written EXCEPT ![j] = 0]
    /\ UNCHANGED <<userVars, missed, step, aborted, txQueue, faults>>

\* Creating a playlist of top tracks refreshes unless the cache is an hour old.
Request ==
    /\ step[Direct] = "idle"
    /\ step' = [step EXCEPT ![Direct] = "fetch"]
    /\ UNCHANGED <<userVars, missed, job, aborted, txQueue, written, faults>>

-----------------------------------------------------------------------------
\* An attempt and its body.

Take(j) ==
    LET body == <<j, job[j].attempt + 1>> IN
    /\ job[j].status = "waiting"
    /\ Cardinality(Active) < Concurrency
    /\ step[body] = "idle"
    /\ job' = [job EXCEPT ![j].status = "active", ![j].attempt = @ + 1]
    /\ step' = [step EXCEPT ![body] = "fetch"]
    /\ UNCHANGED <<userVars, missed, aborted, txQueue, written, faults>>

GivenUp(j, end) == end # "failed" \/ job[j].attempt = MaxAttempts

\* The end of j's attempt; an UnrecoverableError spares the others, and the job of a
\* slot has an id that is never used again.
Finish(j, end) ==
    job' = [job EXCEPT ![j] = IF ~GivenUp(j, end) THEN [@ EXCEPT !.status = "waiting"]
                              ELSE Fresh(IF j \in Slots THEN "none"
                                         ELSE IF end = "completed" THEN end ELSE "failed")]

\* The body b returns or throws.  The handler of a late body is gone.
Leaves(b, end) ==
    /\ step' = [step EXCEPT ![b] = "idle"]
    /\ aborted' = aborted \ {b}
    /\ IF b = Direct \/ b \in aborted
       THEN UNCHANGED <<job, missed>>
       ELSE /\ Finish(b[1], end)
            /\ missed' = (missed \/ GivenUp(b[1], end))

\* Token and the six requests; an aborted body returns.
Fetched(b) ==
    /\ step[b] = "fetch"
    /\ IF b \in aborted
       THEN Leaves(b, "completed")
       ELSE /\ step' = [step EXCEPT ![b] = "catalog"]
            /\ UNCHANGED <<missed, job, aborted>>
    /\ UNCHANGED <<userVars, txQueue, written, faults>>

\* No token is cached, and the authorization is not valid, or the refresh is revoked or
\* waits in vain: the body returns, and the job has completed without a refresh.
NoToken(b) ==
    /\ step[b] = "fetch"
    /\ IF valid THEN Fault /\ valid' \in BOOLEAN ELSE UNCHANGED <<valid, faults>>
    /\ Leaves(b, "completed")
    /\ UNCHANGED <<ageVars, txQueue, written>>

\* Mutant: the signal is not looked at before the transaction.
CatalogedUnchecked(b) ==
    /\ step[b] = "catalog"
    /\ step' = [step EXCEPT ![b] = "tx"]
    /\ txQueue' = Append(txQueue, b)
    /\ UNCHANGED <<userVars, missed, job, aborted, written, faults>>

\* Artists, albums, tracks and their links; the signal is checked before the
\* catalog, before the tracks and before the transaction, and never after that.
Cataloged(b) ==
    /\ step[b] = "catalog"
    /\ IF b \in aborted
       THEN Leaves(b, "failed") /\ UNCHANGED txQueue
       ELSE /\ step' = [step EXCEPT ![b] = "tx"]
            /\ txQueue' = Append(txQueue, b)
            /\ UNCHANGED <<missed, job, aborted>>
    /\ UNCHANGED <<userVars, written, faults>>

\* Mutant: a transaction that fails stays open.
BodyFailsKeepsLock(b) ==
    /\ step[b] # "idle"
    /\ Fault
    /\ Leaves(b, "failed")
    /\ UNCHANGED <<userVars, txQueue, written>>

\* An error of Spotify, the database or the transaction's own timeout; a transaction
\* that was open is rolled back.  403, or a 401 that invalidates the authorization, is
\* unrecoverable; a late body has no handler to count it.
BodyFails(b) ==
    /\ step[b] # "idle"
    /\ Fault
    /\ \/ Leaves(b, "failed") /\ UNCHANGED valid
       \/ /\ step[b] = "fetch" /\ b # Direct /\ b \notin aborted
          /\ Leaves(b, "unrecoverable")
          /\ valid' \in {valid, FALSE}
    /\ IF step[b] = "tx"
       THEN \E i \in DOMAIN txQueue : txQueue[i] = b /\ txQueue' = RemoveAt(txQueue, i)
       ELSE UNCHANGED txQueue
    /\ UNCHANGED <<ageVars, written>>

\* Delete, insert and the new topStatsRefreshedAt, under the lock of the user.  The
\* reset of the token failures that follows may fail, and with it the attempt.
Commit(b) ==
    /\ txQueue # <<>> /\ b = Head(txQueue)
    /\ txQueue' = Tail(txQueue)
    /\ refreshAge' = 0
    /\ step' = [step EXCEPT ![b] = "idle"]
    /\ aborted' = aborted \ {b}
    /\ missed' = FALSE
    /\ written' = IF b = Direct THEN written ELSE [written EXCEPT ![b[1]] = b[2]]
    /\ IF b = Direct \/ b \in aborted
       THEN UNCHANGED <<job, faults>>
       ELSE \/ Finish(b[1], "completed") /\ UNCHANGED faults
            \/ Finish(b[1], "failed") /\ Fault
    /\ UNCHANGED <<loginAge, valid>>

\* Promise.race: the signal fires and the attempt fails, its body goes on.
TimesOut(j) ==
    /\ job[j].status = "active"
    /\ Fault
    /\ aborted' = aborted \cup {Current(j)}
    /\ Finish(j, "failed")
    /\ missed' = (missed \/ GivenUp(j, "failed"))
    /\ UNCHANGED <<userVars, step, txQueue, written>>

\* Open transactions are rolled back.  BullMQ lets stalled jobs run again, and the
\* new process queues users who have no rankings, have been synced lately and are valid.
Restart ==
    /\ Fault
    /\ step' = [b \in Bodies |-> "idle"]
    /\ aborted' = {}
    /\ txQueue' = <<>>
    /\ LET resumed == {j \in Active : job[j].stalls < MaxStalls}
           heals == IF valid /\ refreshAge = Never THEN SUBSET FreeSlots ELSE {{}}
       IN /\ \E healed \in {h \in heals : Cardinality(h) <= 1} :
                job' = [j \in Jobs |->
                    CASE j \in healed -> Fresh("waiting")
                      [] j \in resumed -> [status |-> "waiting", stalls |-> job[j].stalls + 1,
                                           attempt |-> job[j].attempt - 1]
                      [] j \in Active \ resumed -> Fresh(IF j \in Slots THEN "none" ELSE "failed")
                      [] OTHER -> job[j]]
          /\ missed' = (missed \/ Active # resumed)
          /\ written' = [j \in Jobs |-> 0]
    /\ UNCHANGED userVars

-----------------------------------------------------------------------------
BodyStep == \E b \in Bodies : Fetched(b) \/ Cataloged(b) \/ Commit(b)
Asked == Visit \/ Login \/ Manual \/ Request
Failure == \/ AuthChanges
           \/ \E b \in Bodies : NoToken(b) \/ BodyFails(b)
           \/ \E j \in Jobs : TimesOut(j)
           \/ Restart
Next == \/ Asked \/ Day \/ BodyStep \/ Failure
        \/ \E j \in Jobs : Take(j) \/ Forget(j)

Spec == Init /\ [][Next]_vars

\* Worker and cron go on; nobody has to visit, and nothing has to be forgotten.
FairSpec ==
    /\ Spec /\ WF_vars(Day) /\ WF_vars(\E j \in Jobs : Take(j))
    /\ \A b \in Bodies : WF_vars(Fetched(b) \/ Cataloged(b) \/ Commit(b))

-----------------------------------------------------------------------------
\* Every variable has its type: an open transaction belongs to a body that waits for
\* it, and only a body that runs can have been aborted (top-stats-service.ts:439).
TypeOK ==
    /\ loginAge \in 0 .. MaxLoginAge
    /\ refreshAge \in (0 .. MaxRefreshAge) \cup {Never}
    /\ valid \in BOOLEAN /\ missed \in BOOLEAN
    /\ job \in [Jobs -> [status : {"none", "waiting", "active", "completed", "failed"},
                         attempt : 0 .. MaxAttempts, stalls : 0 .. MaxStalls]]
    /\ step \in [Bodies -> {"idle", "fetch", "catalog", "tx"}]
    /\ aborted \in SUBSET {b \in Bodies : step[b] # "idle"}
    /\ txQueue \in Seq({b \in Bodies : step[b] = "tx"})
    /\ written \in [Jobs -> 0 .. MaxAttempts]
    /\ faults \in 0 .. MaxFaults

\* A body whose attempt has timed out never replaces what a later attempt of its job
\* has stored: the signal is checked on the way to the transaction, and transactions
\* run in the order in which they were opened (top-stats-worker.ts:46-60).
RetryNotUndone ==
    [][\A j \in Jobs : written'[j] < written[j] => written'[j] = 0]_vars

\* What the sweep's windows and thresholds come to (cron.ts:138-160).  Unless a job has
\* failed since, or a 3 AM came while the authorization was invalid, the rankings of a
\* user one or two days after the login (counted in 3 AMs) are from the last two days,
\* and up to the seventh day from the last four; the hours between the windows and
\* between two sweeps cost no more than that.  On the day of the login itself they may
\* be of any age: BullMQ may ignore the login's job.
StalenessBounded ==
    Quiet /\ ~missed /\ loginAge \in 1 .. 7
        => refreshAge <= IF loginAge <= 2 THEN 1 ELSE 3

\* A user who logs in without rankings gets them, also when the login's job fails or
\* is ignored because an older one is still kept: the sweep and the healing at the
\* next start do not depend on its id.  Both pass over a user whose authorization is
\* invalidated before (auth.ts:186, cron.ts:140-143, healing.ts:56).
LoginHydrates == (loginAge = 0 /\ refreshAge = Never) ~> (refreshAge # Never \/ ~valid)

=============================================================================
