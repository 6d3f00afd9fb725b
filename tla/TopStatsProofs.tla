--------------------------- MODULE TopStatsProofs ---------------------------
(***************************************************************************)
(* What TopStats guarantees for any number of slots, attempts, stalls and  *)
(* failures.                                                               *)
(*                                                                         *)
(* BodyInv ties the bodies to the attempts: a body that has not been told  *)
(* to stop is the one of its job's attempt, and an active job has such a   *)
(* body.  Hence a body that opens a transaction is of the latest attempt,  *)
(* and the open transactions of a job stand in the order of its attempts   *)
(* (QueueInv), behind what it has already written.  StaleInv bounds the    *)
(* age of the rankings whenever no job is under way, whatever bodies still *)
(* run.                                                                    *)
(***************************************************************************)
EXTENDS TopStats, SequenceTheorems, TLAPS

Open(j) == job[j].status \in {"waiting", "active"}

BodyInv ==
    /\ Direct \notin aborted
    /\ \A b \in Bodies : step[b] # "idle" => b = Direct \/ b[1] \in Jobs
    /\ \A b \in Bodies \ aborted :
           step[b] # "idle" /\ b # Direct => job[b[1]].status = "active" /\ b = Current(b[1])
    /\ \A b \in Bodies :
           step[b] # "idle" /\ b # Direct /\ Open(b[1]) => b[2] <= job[b[1]].attempt
    /\ \A j \in Jobs : job[j].status = "active" =>
           job[j].attempt > 0 /\ step[Current(j)] # "idle" /\ Current(j) \notin aborted
    /\ \A j \in Jobs : job[j].status = "waiting" => job[j].attempt < MaxAttempts
    /\ \A j \in {"lazy", "login"} : job[j].status = "none" => Idle(j)

QueueInv ==
    /\ \A b \in Bodies : step[b] = "tx" => \E p \in DOMAIN txQueue : txQueue[p] = b
    /\ \A p, q \in DOMAIN txQueue :
           p < q /\ txQueue[p][1] = txQueue[q][1] => txQueue[p][2] < txQueue[q][2]
    /\ \A p \in DOMAIN txQueue :
           txQueue[p] # Direct => written[txQueue[p][1]] <= txQueue[p][2]
    /\ \A j \in Jobs : Open(j) => written[j] <= job[j].attempt

StaleInv ==
    ~missed /\ (\A j \in Jobs : ~Open(j)) /\ loginAge \in 1 .. 7
        => refreshAge <= IF loginAge <= 2 THEN 1 ELSE 3

-----------------------------------------------------------------------------
\* Bodies, and what the steps do to jobs.

JobRec == [status : {"none", "waiting", "active", "completed", "failed"},
           attempt : 0 .. MaxAttempts, stalls : 0 .. MaxStalls]

LEMMA BodyFacts ==
    /\ Direct \in Bodies /\ Direct[1] = "request" /\ Direct[2] = 1 /\ "request" \notin Jobs
    /\ \A b \in Bodies : b[1] \in Jobs \cup {"request"} /\ b[2] \in 1 .. MaxAttempts
    /\ \A j \in Jobs, a \in 1 .. MaxAttempts :
           <<j, a>> \in Bodies /\ <<j, a>>[1] = j /\ <<j, a>>[2] = a
    /\ \A b, c \in Bodies : b[1] = c[1] /\ b[2] = c[2] => b = c
    BY TopStatsAssumption DEF TopStatsAssumption, Bodies, Direct, Jobs

\* A job is idle when none of the bodies of its attempts runs.
LEMMA IdleBodies ==
    ASSUME NEW j \in Jobs
    PROVE  Idle(j) <=> \A b \in Bodies : b[1] = j => step[b] = "idle"
    BY TopStatsAssumption DEF TopStatsAssumption, Idle, Bodies, Jobs

\* Of an active job the body of its attempt is known.
LEMMA CurrentBody ==
    ASSUME TypeOK, NEW j \in Jobs, job[j].attempt > 0
    PROVE  Current(j) \in Bodies /\ Current(j)[1] = j /\ Current(j)[2] = job[j].attempt
<1>1. job[j].attempt \in 1 .. MaxAttempts
    BY TopStatsAssumption DEF TopStatsAssumption, TypeOK
<1> QED
    BY <1>1, BodyFacts DEF Current

LEMMA FreshType ==
    /\ Fresh("none") \in JobRec /\ Fresh("waiting") \in JobRec
    /\ Fresh("completed") \in JobRec /\ Fresh("failed") \in JobRec
    BY TopStatsAssumption DEF TopStatsAssumption, Fresh, JobRec

\* The end of an attempt: the job waits for the next one, or is over.
LEMMA Finished ==
    ASSUME job \in [Jobs -> JobRec], NEW j \in Jobs, NEW end,
           end = "completed" \/ end = "failed" \/ end = "unrecoverable", Finish(j, end)
    PROVE  /\ job' \in [Jobs -> JobRec]
           /\ \A k \in Jobs \ {j} : job'[k] = job[k]
           /\ job'[j].status = "waiting" =>
                  job'[j].attempt = job[j].attempt /\ job[j].attempt < MaxAttempts
           /\ job'[j].status # "active"
           /\ job'[j].status = "none" => j \in Slots
           /\ IF GivenUp(j, end) THEN job'[j].status # "waiting" ELSE job'[j].status = "waiting"
<1> DEFINE again == [job[j] EXCEPT !.status = "waiting"]
           over == Fresh(IF j \in Slots THEN "none"
                         ELSE IF end = "completed" THEN end ELSE "failed")
<1>1. job[j] \in JobRec /\ again \in JobRec
    BY DEF JobRec
<1>2. again.status = "waiting" /\ again.attempt = job[j].attempt
    BY <1>1 DEF JobRec
<1>3. /\ over \in JobRec /\ over.status \notin {"waiting", "active"}
      /\ over.status = "none" => j \in Slots
    BY FreshType DEF Fresh
<1>4. job' = [job EXCEPT ![j] = IF ~GivenUp(j, end) THEN again ELSE over]
    BY DEF Finish
<1>5. ~GivenUp(j, end) => job[j].attempt < MaxAttempts
    BY <1>1, TopStatsAssumption DEF GivenUp, JobRec, TopStatsAssumption
<1> HIDE DEF again, over
<1>6. job' \in [Jobs -> JobRec] /\ \A k \in Jobs \ {j} : job'[k] = job[k]
    BY <1>1, <1>3, <1>4
<1>7. job'[j] = IF ~GivenUp(j, end) THEN again ELSE over
    BY <1>4
<1> QED
    BY <1>2, <1>3, <1>5, <1>6, <1>7

-----------------------------------------------------------------------------
\* What the attempts and their bodies have in common.

\* The types of the state that bodies share with the queue, and what no step of a
\* body does to a job: begin it, or move it on to another attempt.
JobTypes == /\ job \in [Jobs -> JobRec]
            /\ step \in [Bodies -> {"idle", "fetch", "catalog", "tx"}]
            /\ aborted \in SUBSET {b \in Bodies : step[b] # "idle"}

OnlyClosed == \A j \in Jobs : Open(j)' => Open(j) /\ job'[j].attempt = job[j].attempt

LEMMA TypeParts == TypeOK => JobTypes
    BY DEF TypeOK, JobTypes, JobRec

\* A body ends: with it its attempt, unless the attempt has ended before.
Ends(b, end) ==
    /\ step' = [step EXCEPT ![b] = "idle"]
    /\ aborted' = aborted \ {b}
    /\ IF b = Direct \/ b \in aborted THEN UNCHANGED job ELSE Finish(b[1], end)

LEMMA EndsKeeps ==
    ASSUME TypeOK, BodyInv, NEW b \in Bodies, step[b] # "idle",
           NEW end, end = "completed" \/ end = "failed" \/ end = "unrecoverable", Ends(b, end)
    PROVE  JobTypes' /\ BodyInv' /\ OnlyClosed
<1>t. JobTypes
    BY TypeParts
<1>1. /\ step' \in [Bodies -> {"idle", "fetch", "catalog", "tx"}]
      /\ step'[b] = "idle" /\ \A c \in Bodies \ {b} : step'[c] = step[c]
      /\ aborted' = aborted \ {b}
    BY <1>t DEF Ends, JobTypes
<1>2. aborted' \in SUBSET {c \in Bodies : step'[c] # "idle"}
    BY <1>1, <1>t DEF JobTypes
<1>3. CASE b = Direct \/ b \in aborted
    <2>1. job' = job
        BY <1>3 DEF Ends
    <2>2. \A j \in Jobs : job[j].status = "active" => Current(j) # b /\ Current(j) \in Bodies
        BY <1>3, CurrentBody, BodyFacts DEF BodyInv
    <2>3. \A j \in Jobs : Current(j)' = Current(j)
        BY <2>1 DEF Current
    <2>4. \A j \in Jobs : Idle(j) => Idle(j)'
        <3> SUFFICES ASSUME NEW j \in Jobs, Idle(j) PROVE Idle(j)'
            OBVIOUS
        <3>1. \A c \in Bodies : c[1] = j => step'[c] = "idle"
            BY IdleBodies, <1>1
        <3> QED
            BY <3>1, BodyFacts DEF Idle
    <2>5. \A j \in Jobs : Open(j)' <=> Open(j)
        BY <2>1 DEF Open
    <2>6. {"lazy", "login"} \subseteq Jobs
        BY DEF Jobs
    <2>7. BodyInv'
        <3>1. (Direct \notin aborted)'
            BY <1>1 DEF BodyInv, Direct
        <3>2. \A c \in Bodies : step'[c] # "idle" => c = Direct \/ c[1] \in Jobs
            BY <1>1 DEF BodyInv
        <3>3. \A c \in Bodies \ aborted' : step'[c] # "idle" /\ c # Direct =>
                  job'[c[1]].status = "active" /\ c = Current(c[1])'
            BY <1>1, <2>1, <2>3, BodyFacts DEF BodyInv
        <3>4. \A c \in Bodies :
                  step'[c] # "idle" /\ c # Direct /\ Open(c[1])' => c[2] <= job'[c[1]].attempt
            BY <1>1, <2>1, <2>5 DEF BodyInv
        <3>5. \A j \in Jobs : job'[j].status = "active" =>
                  job'[j].attempt > 0 /\ step'[Current(j)'] # "idle" /\ Current(j)' \notin aborted'
            BY <1>1, <2>1, <2>2, <2>3 DEF BodyInv
        <3>6. \A j \in Jobs : job'[j].status = "waiting" => job'[j].attempt < MaxAttempts
            BY <2>1 DEF BodyInv
        <3>7. \A j \in {"lazy", "login"} : job'[j].status = "none" => Idle(j)'
            BY <2>1, <2>4, <2>6 DEF BodyInv
        <3> QED
            BY <3>1, <3>2, <3>3, <3>4, <3>5, <3>6, <3>7 DEF BodyInv, Direct
    <2> QED
        BY <1>1, <1>2, <1>t, <2>1, <2>7 DEF JobTypes, OnlyClosed, Open
<1>4. CASE ~(b = Direct \/ b \in aborted)
    <2> DEFINE j0 == b[1]
    <2>0. /\ j0 \in Jobs /\ job[j0].status = "active" /\ b = Current(j0)
          /\ Finish(j0, end)
        BY <1>4 DEF BodyInv, Ends
    <2> HIDE DEF j0
    <2>1. /\ job' \in [Jobs -> JobRec]
          /\ \A k \in Jobs \ {j0} : job'[k] = job[k]
          /\ job'[j0].status = "waiting" =>
                 job'[j0].attempt = job[j0].attempt /\ job[j0].attempt < MaxAttempts
          /\ job'[j0].status # "active"
          /\ job'[j0].status = "none" => j0 \in Slots
        BY <2>0, <1>t, Finished DEF JobTypes
    <2>2. OnlyClosed
        BY <2>0, <2>1 DEF OnlyClosed, Open
    <2>3. \A c \in Bodies \ {b} : c[1] = j0 /\ step[c] # "idle" => c \in aborted
        BY <2>0, BodyFacts DEF BodyInv
    <2>4. \A j \in Jobs \ {j0} : Current(j)' = Current(j)
        BY <2>1 DEF Current
    <2>5. \A j \in Jobs : job[j].status = "active" =>
              Current(j) \in Bodies /\ Current(j)[1] = j
        BY CurrentBody DEF BodyInv
    <2>6. \A j \in Jobs : Idle(j) => Idle(j)'
        <3> SUFFICES ASSUME NEW j \in Jobs, Idle(j) PROVE Idle(j)'
            OBVIOUS
        <3>1. \A c \in Bodies : c[1] = j => step'[c] = "idle"
            BY IdleBodies, <1>1
        <3> QED
            BY <3>1, BodyFacts DEF Idle
    <2>7. \A j \in {"lazy", "login"} : j \in Jobs /\ j \notin Slots
        BY TopStatsAssumption DEF TopStatsAssumption, Jobs
    <2>8. b[1] = j0
        BY DEF j0
    <2>9. BodyInv'
        <3>1. (Direct \notin aborted)'
            BY <1>1 DEF BodyInv, Direct
        <3>2. \A c \in Bodies : step'[c] # "idle" => c = Direct \/ c[1] \in Jobs
            BY <1>1 DEF BodyInv
        <3>3. \A c \in Bodies \ aborted' : step'[c] # "idle" /\ c # Direct =>
                  job'[c[1]].status = "active" /\ c = Current(c[1])'
            <4> SUFFICES ASSUME NEW c \in Bodies \ aborted', step'[c] # "idle", c # Direct
                         PROVE  job'[c[1]].status = "active" /\ c = Current(c[1])'
                OBVIOUS
            <4>1. c # b /\ c \notin aborted /\ step[c] # "idle" /\ c[1] \in Jobs
                BY <1>1, <3>2
            <4>2. c[1] # j0
                BY <4>1, <2>3
            <4> QED
                BY <4>1, <4>2, <2>1, <2>4 DEF BodyInv
        <3>4. \A c \in Bodies :
                  step'[c] # "idle" /\ c # Direct /\ Open(c[1])' => c[2] <= job'[c[1]].attempt
            BY <1>1, <2>2, <3>2 DEF BodyInv, OnlyClosed
        <3>5. \A j \in Jobs : job'[j].status = "active" =>
                  job'[j].attempt > 0 /\ step'[Current(j)'] # "idle" /\ Current(j)' \notin aborted'
            BY <1>1, <2>1, <2>4, <2>5, <2>8 DEF BodyInv
        <3>6. \A j \in Jobs : job'[j].status = "waiting" => job'[j].attempt < MaxAttempts
            BY <2>1 DEF BodyInv
        <3>7. \A j \in {"lazy", "login"} : job'[j].status = "none" => Idle(j)'
            BY <2>0, <2>1, <2>6, <2>7 DEF BodyInv
        <3> QED
            BY <3>1, <3>2, <3>3, <3>4, <3>5, <3>6, <3>7 DEF BodyInv, Direct
    <2> QED
        BY <1>1, <1>2, <2>1, <2>2, <2>9 DEF JobTypes
<1> QED
    BY <1>3, <1>4

LEMMA SameBodies ==
    ASSUME TypeOK, BodyInv, UNCHANGED <<job, step, aborted>>
    PROVE  JobTypes' /\ BodyInv'
    BY TypeParts DEF JobTypes, BodyInv, Open, Current, Idle, Direct

\* A body moves on.
LEMMA AdvanceKeeps ==
    ASSUME TypeOK, BodyInv, NEW b \in Bodies, NEW s, s = "fetch" \/ s = "catalog" \/ s = "tx",
           step[b] # "idle" \/ b = Direct,
           step' = [step EXCEPT ![b] = s], UNCHANGED <<job, aborted>>
    PROVE  JobTypes' /\ BodyInv'
<1>t. JobTypes
    BY TypeParts
<1>1. /\ step' \in [Bodies -> {"idle", "fetch", "catalog", "tx"}]
      /\ step'[b] # "idle" /\ \A c \in Bodies \ {b} : step'[c] = step[c]
    BY <1>t DEF JobTypes
<1>2. \A c \in Bodies : step'[c] # "idle" => step[c] # "idle" \/ c = Direct
    BY <1>1
<1>3. \A j \in Jobs : Idle(j) => Idle(j)'
    <2> SUFFICES ASSUME NEW j \in Jobs, Idle(j) PROVE Idle(j)'
        OBVIOUS
    <2>1. \A c \in Bodies : c[1] = j => step'[c] = "idle"
        BY IdleBodies, BodyFacts, <1>2, <1>1, <1>t DEF JobTypes
    <2> QED
        BY <2>1, BodyFacts DEF Idle
<1>4. \A j \in Jobs : job[j].status = "active" => Current(j) \in Bodies
    BY CurrentBody DEF BodyInv
<1>5. {"lazy", "login"} \subseteq Jobs
    BY DEF Jobs
<1>6. JobTypes'
    BY <1>t, <1>1 DEF JobTypes
<1>7. BodyInv'
    <2>1. \A j \in Jobs : job'[j].status = "active" =>
              job'[j].attempt > 0 /\ step'[Current(j)'] # "idle" /\ Current(j)' \notin aborted'
        BY <1>1, <1>4 DEF BodyInv, Current
    <2>2. \A j \in {"lazy", "login"} : job'[j].status = "none" => Idle(j)'
        BY <1>3, <1>5 DEF BodyInv
    <2>3. \A c \in Bodies \ aborted' : step'[c] # "idle" /\ c # Direct =>
              job'[c[1]].status = "active" /\ c = Current(c[1])'
        BY <1>2 DEF BodyInv, Current
    <2>4. \A c \in Bodies :
              step'[c] # "idle" /\ c # Direct /\ Open(c[1])' => c[2] <= job'[c[1]].attempt
        BY <1>2 DEF BodyInv, Open
    <2>5. \A c \in Bodies : step'[c] # "idle" => c = Direct \/ c[1] \in Jobs
        BY <1>2 DEF BodyInv
    <2> QED
        BY <2>1, <2>2, <2>3, <2>4, <2>5 DEF BodyInv, Direct
<1> QED
    BY <1>6, <1>7

\* A job that is not there is added or taken away while none of its bodies runs.
LEMMA ResetKeeps ==
    ASSUME TypeOK, BodyInv, NEW k \in Jobs, Idle(k), NEW s, s = "none" \/ s = "waiting",
           job' = [job EXCEPT ![k] = Fresh(s)], UNCHANGED <<step, aborted>>
    PROVE  JobTypes' /\ BodyInv'
<1>t. JobTypes
    BY TypeParts
<1>1. /\ job' \in [Jobs -> JobRec] /\ \A j \in Jobs \ {k} : job'[j] = job[j]
      /\ job'[k] = Fresh(s)
    BY <1>t, FreshType DEF JobTypes
<1>2. job'[k].status = s /\ job'[k].attempt = 0
    BY <1>1 DEF Fresh
<1>3. \A c \in Bodies : step[c] # "idle" => c[1] # k
    BY IdleBodies
<1>4. JobTypes'
    BY <1>t, <1>1 DEF JobTypes
<1>5. {"lazy", "login"} \subseteq Jobs
    BY DEF Jobs
<1>6. BodyInv'
    <2>1. \A j \in Jobs : job'[j].status = "active" =>
              job'[j].attempt > 0 /\ step'[Current(j)'] # "idle" /\ Current(j)' \notin aborted'
        BY <1>1, <1>2 DEF BodyInv, Current
    <2>2. \A j \in {"lazy", "login"} : job'[j].status = "none" => Idle(j)'
        BY <1>1, <1>5 DEF BodyInv, Idle
    <2>3. \A c \in Bodies \ aborted' : step'[c] # "idle" /\ c # Direct =>
              job'[c[1]].status = "active" /\ c = Current(c[1])'
        BY <1>1, <1>3 DEF BodyInv, Current
    <2>4. \A c \in Bodies :
              step'[c] # "idle" /\ c # Direct /\ Open(c[1])' => c[2] <= job'[c[1]].attempt
        BY <1>1, <1>3 DEF BodyInv, Open
    <2>5. \A j \in Jobs : job'[j].status = "waiting" => job'[j].attempt < MaxAttempts
        BY <1>1, <1>2, TopStatsAssumption DEF BodyInv, TopStatsAssumption
    <2> QED
        BY <2>1, <2>2, <2>3, <2>4, <2>5 DEF BodyInv, Direct
<1> QED
    BY <1>4, <1>6

LEMMA AddKeeps ==
    ASSUME TypeOK, BodyInv, NEW j \in Jobs, j \in FreeSlots \cup {"lazy", "login"},
           Add(j), UNCHANGED <<step, aborted>>
    PROVE  JobTypes' /\ BodyInv'
<1>1. CASE job[j].status = "none"
    <2>1. Idle(j)
        BY <1>1 DEF FreeSlots, BodyInv
    <2>2. job' = [job EXCEPT ![j] = Fresh("waiting")]
        BY <1>1 DEF Add
    <2> QED
        BY <2>1, <2>2, ResetKeeps
<1>2. CASE job[j].status # "none"
    BY <1>2, SameBodies DEF Add
<1> QED
    BY <1>1, <1>2

LEMMA TakeKeeps ==
    ASSUME TypeOK, BodyInv, NEW j \in Jobs, Take(j)
    PROVE  JobTypes' /\ BodyInv'
<1> DEFINE body == <<j, job[j].attempt + 1>>
<1>t. JobTypes
    BY TypeParts
<1>0. job[j] \in JobRec /\ job[j].status = "waiting" /\ job[j].attempt \in Nat
    BY <1>t DEF Take, JobTypes, JobRec
<1>1. job[j].attempt + 1 \in 1 .. MaxAttempts
    BY <1>0, TopStatsAssumption DEF BodyInv, TopStatsAssumption
<1>2. body \in Bodies /\ body[1] = j /\ body[2] = job[j].attempt + 1 /\ step[body] = "idle"
    BY <1>1, BodyFacts DEF Take
<1>3. /\ job' = [job EXCEPT ![j].status = "active", ![j].attempt = @ + 1]
      /\ step' = [step EXCEPT ![body] = "fetch"] /\ aborted' = aborted
    BY DEF Take
<1>4. job'[j].status = "active" /\ job'[j].attempt = job[j].attempt + 1
    BY <1>0, <1>3, <1>t DEF JobTypes, JobRec
<1>5. job' \in [Jobs -> JobRec] /\ \A k \in Jobs \ {j} : job'[k] = job[k]
    <2>1. [job[j] EXCEPT !.status = "active", !.attempt = @ + 1] \in JobRec
        <3>1. job[j].attempt + 1 \in 0 .. MaxAttempts
            BY <1>1, TopStatsAssumption DEF TopStatsAssumption
        <3>2. [job[j] EXCEPT !.status = "active"] \in JobRec
            BY <1>0 DEF JobRec
        <3> QED
            BY <1>0, <3>1, <3>2 DEF JobRec
    <2> QED
        BY <2>1, <1>3, <1>t DEF JobTypes
<1>6. Current(j)' = body
    BY <1>4 DEF Current
<1> HIDE DEF body
<1>7. /\ step' \in [Bodies -> {"idle", "fetch", "catalog", "tx"}]
      /\ step'[body] = "fetch" /\ \A c \in Bodies \ {body} : step'[c] = step[c]
    BY <1>t, <1>2, <1>3 DEF JobTypes
<1>8. body \notin aborted
    BY <1>t, <1>2 DEF JobTypes
<1>9. JobTypes'
    BY <1>t, <1>3, <1>5, <1>7 DEF JobTypes
<1>10. BodyInv'
    <2>0. \A c \in Bodies : step'[c] # "idle" => c = body \/ step[c] # "idle"
        BY <1>7
    <2>1. \A k \in Jobs : job'[k].status = "active" =>
              job'[k].attempt > 0 /\ step'[Current(k)'] # "idle" /\ Current(k)' \notin aborted'
        <3> SUFFICES ASSUME NEW k \in Jobs, job'[k].status = "active"
                     PROVE  /\ job'[k].attempt > 0
                            /\ step'[Current(k)'] # "idle" /\ Current(k)' \notin aborted'
            OBVIOUS
        <3>1. CASE k = j
            BY <3>1, <1>0, <1>3, <1>4, <1>6, <1>7, <1>8
        <3>2. CASE k # j
            <4>1. job'[k] = job[k] /\ Current(k)' = Current(k)
                BY <3>2, <1>5 DEF Current
            <4>2. Current(k) \in Bodies /\ Current(k)[1] = k
                BY <4>1, CurrentBody DEF BodyInv
            <4> QED
                BY <3>2, <4>1, <4>2, <1>2, <1>3, <1>7 DEF BodyInv
        <3> QED
            BY <3>1, <3>2
    <2>2. \A k \in {"lazy", "login"} : job'[k].status = "none" => Idle(k)'
        <3> SUFFICES ASSUME NEW k \in Jobs, k \in {"lazy", "login"}, job'[k].status = "none"
                     PROVE  Idle(k)'
            BY DEF Jobs
        <3>1. k # j /\ job[k].status = "none"
            BY <1>4, <1>5
        <3>2. \A c \in Bodies : c[1] = k => step'[c] = "idle"
            BY <3>1, IdleBodies, <1>2, <1>7 DEF BodyInv
        <3> QED
            BY <3>2, BodyFacts DEF Idle
    <2>3. \A c \in Bodies \ aborted' : step'[c] # "idle" /\ c # Direct =>
              job'[c[1]].status = "active" /\ c = Current(c[1])'
        <3> SUFFICES ASSUME NEW c \in Bodies \ aborted, step'[c] # "idle", c # Direct
                     PROVE  job'[c[1]].status = "active" /\ c = Current(c[1])'
            BY <1>3
        <3>1. CASE c = body
            BY <3>1, <1>2, <1>4, <1>6
        <3>2. CASE c # body
            <4>1. c[1] \in Jobs /\ job[c[1]].status = "active" /\ c = Current(c[1])
                BY <3>2, <2>0 DEF BodyInv
            <4>2. c[1] # j
                BY <4>1, <1>0
            <4> QED
                BY <4>1, <4>2, <1>5 DEF Current
        <3> QED
            BY <3>1, <3>2
    <2>4. \A c \in Bodies :
              step'[c] # "idle" /\ c # Direct /\ Open(c[1])' => c[2] <= job'[c[1]].attempt
        <3> SUFFICES ASSUME NEW c \in Bodies, step'[c] # "idle", c # Direct, Open(c[1])'
                     PROVE  c[2] <= job'[c[1]].attempt
            OBVIOUS
        <3>1. CASE c = body
            BY <3>1, <1>2, <1>4, <1>0
        <3>2. CASE c # body
            <4>1. step[c] # "idle" /\ c[1] \in Jobs /\ c[2] \in Nat
                BY <3>2, <2>0, BodyFacts DEF BodyInv
            <4>2. CASE c[1] = j
                BY <4>1, <4>2, <1>0, <1>4 DEF BodyInv, Open
            <4>3. CASE c[1] # j
                BY <4>1, <4>3, <1>5 DEF BodyInv, Open
            <4> QED
                BY <4>2, <4>3
        <3> QED
            BY <3>1, <3>2
    <2>5. \A k \in Jobs : job'[k].status = "waiting" => job'[k].attempt < MaxAttempts
        BY <1>4, <1>5 DEF BodyInv
    <2>6. \A c \in Bodies : step'[c] # "idle" => c = Direct \/ c[1] \in Jobs
        BY <2>0, <1>2 DEF BodyInv
    <2> QED
        BY <2>1, <2>2, <2>3, <2>4, <2>5, <2>6, <1>3 DEF BodyInv, Direct
<1> QED
    BY <1>9, <1>10

LEMMA TimesOutKeeps ==
    ASSUME TypeOK, BodyInv, NEW j \in Jobs, TimesOut(j)
    PROVE  JobTypes' /\ BodyInv' /\ OnlyClosed
<1>t. JobTypes
    BY TypeParts
<1>0. /\ job[j].status = "active" /\ Finish(j, "failed")
      /\ aborted' = aborted \cup {Current(j)} /\ step' = step
    BY DEF TimesOut
<1>1. /\ Current(j) \in Bodies /\ Current(j)[1] = j /\ step[Current(j)] # "idle"
      /\ Current(j) # Direct
    BY <1>0, CurrentBody, BodyFacts DEF BodyInv
<1>2. /\ job' \in [Jobs -> JobRec]
      /\ \A k \in Jobs \ {j} : job'[k] = job[k]
      /\ job'[j].status = "waiting" =>
             job'[j].attempt = job[j].attempt /\ job[j].attempt < MaxAttempts
      /\ job'[j].status # "active"
      /\ job'[j].status = "none" => j \in Slots
    BY <1>0, <1>t, Finished DEF JobTypes
<1>3. OnlyClosed
    BY <1>0, <1>2 DEF OnlyClosed, Open
<1>4. JobTypes'
    BY <1>t, <1>0, <1>1, <1>2 DEF JobTypes
<1>5. BodyInv'
    <2>1. \A k \in Jobs : job'[k].status = "active" =>
              job'[k].attempt > 0 /\ step'[Current(k)'] # "idle" /\ Current(k)' \notin aborted'
        <3> SUFFICES ASSUME NEW k \in Jobs, job'[k].status = "active"
                     PROVE  /\ job'[k].attempt > 0
                            /\ step'[Current(k)'] # "idle" /\ Current(k)' \notin aborted'
            OBVIOUS
        <3>1. k # j /\ job'[k] = job[k] /\ Current(k)' = Current(k)
            BY <1>2 DEF Current
        <3>2. Current(k)[1] = k
            BY <3>1, CurrentBody DEF BodyInv
        <3> QED
            BY <3>1, <3>2, <1>0, <1>1 DEF BodyInv
    <2>2. \A k \in {"lazy", "login"} : job'[k].status = "none" => Idle(k)'
        <3> SUFFICES ASSUME NEW k \in Jobs, k \in {"lazy", "login"}, job'[k].status = "none"
                     PROVE  Idle(k)'
            BY DEF Jobs
        <3>1. k # j
            BY <1>2, TopStatsAssumption DEF TopStatsAssumption
        <3> QED
            BY <3>1, <1>0, <1>2 DEF BodyInv, Idle
    <2>3. \A c \in Bodies \ aborted' : step'[c] # "idle" /\ c # Direct =>
              job'[c[1]].status = "active" /\ c = Current(c[1])'
        <3> SUFFICES ASSUME NEW c \in Bodies, c \notin aborted, c # Current(j),
                            step[c] # "idle", c # Direct
                     PROVE  job'[c[1]].status = "active" /\ c = Current(c[1])'
            BY <1>0
        <3>1. c[1] \in Jobs /\ job[c[1]].status = "active" /\ c = Current(c[1])
            BY DEF BodyInv
        <3>2. c[1] # j
            BY <3>1
        <3> QED
            BY <3>1, <3>2, <1>2 DEF Current
    <2>4. \A c \in Bodies :
              step'[c] # "idle" /\ c # Direct /\ Open(c[1])' => c[2] <= job'[c[1]].attempt
        BY <1>0, <1>3 DEF BodyInv, OnlyClosed
    <2>5. \A k \in Jobs : job'[k].status = "waiting" => job'[k].attempt < MaxAttempts
        BY <1>2 DEF BodyInv
    <2>6. Direct \notin aborted'
        BY <1>0, <1>1 DEF BodyInv
    <2> QED
        BY <2>1, <2>2, <2>3, <2>4, <2>5, <2>6, <1>0 DEF BodyInv, Direct
<1> QED
    BY <1>3, <1>4, <1>5

\* After a restart no body runs, and no job is active.
LEMMA RestartKeeps ==
    ASSUME TypeOK, BodyInv, Restart
    PROVE  /\ JobTypes' /\ BodyInv'
           /\ ~missed' => ~missed /\ \A j \in Jobs : Open(j) => Open(j)'
<1>t. JobTypes
    BY TypeParts
<1> DEFINE resumed == {j \in Active : job[j].stalls < MaxStalls}
<1>1. /\ step' = [b \in Bodies |-> "idle"] /\ aborted' = {}
      /\ missed' = (missed \/ Active # resumed)
    BY DEF Restart
<1>2. PICK healed \in SUBSET FreeSlots :
          job' = [j \in Jobs |->
              CASE j \in healed -> Fresh("waiting")
                [] j \in resumed -> [status |-> "waiting", stalls |-> job[j].stalls + 1,
                                     attempt |-> job[j].attempt - 1]
                [] j \in Active \ resumed -> Fresh(IF j \in Slots THEN "none" ELSE "failed")
                [] OTHER -> job[j]]
    BY DEF Restart
<1>3. \A j \in healed : j \in Jobs /\ j \notin Active /\ job[j].status = "none"
    BY DEF FreeSlots, Active, Jobs
<1>4. \A j \in resumed : j \in Jobs /\ job[j].attempt > 0 /\ job[j].stalls < MaxStalls
    BY DEF Active, BodyInv
<1>5. \A j \in Jobs \ (healed \cup Active) : job[j].status # "active"
    BY DEF Active
<1>6. resumed \subseteq Active
    OBVIOUS
<1> HIDE DEF resumed
<1>7. \A j \in healed : job'[j] = Fresh("waiting")
    BY <1>2, <1>3, <1>6
<1>8. \A j \in resumed : job'[j] = [status |-> "waiting", stalls |-> job[j].stalls + 1,
                                    attempt |-> job[j].attempt - 1]
    BY <1>2, <1>3, <1>4, <1>6
<1>9. \A j \in Active \ resumed :
          job'[j] = Fresh("none") \/ job'[j] = Fresh("failed")
    BY <1>2, <1>3, <1>6 DEF Active
<1>10. \A j \in Jobs \ (healed \cup Active) : job'[j] = job[j]
    BY <1>2, <1>6
<1>11. \A j \in resumed :
          job'[j] \in JobRec /\ job'[j].status = "waiting" /\ job'[j].attempt < MaxAttempts
    <2> SUFFICES ASSUME NEW j \in resumed
                 PROVE  /\ job'[j] \in JobRec /\ job'[j].status = "waiting"
                        /\ job'[j].attempt < MaxAttempts
        OBVIOUS
    <2> DEFINE m == job[j].stalls + 1
               n == job[j].attempt - 1
    <2>1. job[j] \in JobRec
        BY <1>4, <1>t DEF JobTypes
    <2>2. job[j].stalls \in 0 .. MaxStalls /\ job[j].attempt \in 0 .. MaxAttempts
        BY <2>1 DEF JobRec
    <2>3. m \in 0 .. MaxStalls /\ n \in 0 .. MaxAttempts /\ n < MaxAttempts
        BY <2>2, <1>4, TopStatsAssumption DEF TopStatsAssumption
    <2>4. job'[j] = [status |-> "waiting", stalls |-> m, attempt |-> n]
        BY <1>8
    <2> HIDE DEF m, n
    <2> QED
        BY <2>3, <2>4 DEF JobRec
<1>12. \A j \in Jobs : job'[j] \in JobRec /\ job'[j].status # "active"
    <2>1. \A j \in healed : job'[j] \in JobRec /\ job'[j].status = "waiting"
        BY <1>7, FreshType DEF Fresh
    <2>2. \A j \in resumed : job'[j] \in JobRec /\ job'[j].status = "waiting"
        BY <1>11
    <2>3. \A j \in Active \ resumed : job'[j] \in JobRec /\ job'[j].status # "active"
        BY <1>9, FreshType DEF Fresh
    <2>4. \A j \in Jobs \ (healed \cup Active) : job'[j] \in JobRec /\ job'[j].status # "active"
        BY <1>5, <1>10, <1>t DEF JobTypes
    <2> QED
        BY <2>1, <2>2, <2>3, <2>4
<1>13. JobTypes'
    <2>1. job' \in [Jobs -> JobRec]
        BY <1>2, <1>12
    <2> QED
        BY <2>1, <1>1 DEF JobTypes
<1>14. \A j \in Jobs : job'[j].status = "waiting" => job'[j].attempt < MaxAttempts
    <2>1. \A j \in healed : job'[j].attempt < MaxAttempts
        BY <1>7, TopStatsAssumption DEF Fresh, TopStatsAssumption
    <2>2. \A j \in resumed : job'[j].attempt < MaxAttempts
        BY <1>11
    <2>3. \A j \in Active \ resumed : job'[j].status # "waiting"
        BY <1>9 DEF Fresh
    <2> QED
        BY <2>1, <2>2, <2>3, <1>10 DEF BodyInv
<1>15. BodyInv'
    <2>1. \A b \in Bodies : step'[b] = "idle"
        BY <1>1
    <2>2. \A j \in Jobs : Idle(j)'
        BY <2>1, BodyFacts DEF Idle
    <2>3. {"lazy", "login"} \subseteq Jobs
        BY DEF Jobs
    <2>4. aborted' = {}
        BY <1>1
    <2>5. \A j \in Jobs : job'[j].status # "active"
        BY <1>12
    <2>6. Direct \notin aborted'
        BY <2>4
    <2>7. \A j \in {"lazy", "login"} : Idle(j)'
        BY <2>2, <2>3
    <2> QED
        BY <1>14, <2>1, <2>5, <2>6, <2>7 DEF BodyInv, Direct
<1>16. ~(Active # resumed) => \A j \in Jobs : Open(j) => Open(j)'
    <2>1. \A j \in resumed : job'[j].status = "waiting"
        BY <1>11
    <2>2. \A j \in Jobs : Open(j) => j \in Active \/ job[j].status = "waiting"
        BY DEF Open, Active
    <2>3. \A j \in healed : job'[j].status = "waiting"
        BY <1>7 DEF Fresh
    <2> QED
        BY <2>1, <2>2, <2>3, <1>10 DEF Open
<1> QED
    BY <1>1, <1>13, <1>15, <1>16

-----------------------------------------------------------------------------
\* The queue of open transactions.

\* What is left of a sequence without its element at place i.
LEMMA Removed ==
    ASSUME NEW S, NEW s \in Seq(S), NEW i \in 1 .. Len(s)
    PROVE  /\ RemoveAt(s, i) \in Seq(S)
           /\ Len(RemoveAt(s, i)) = Len(s) - 1
           /\ \A k \in 1 .. Len(s) - 1 :
                  RemoveAt(s, i)[k] = IF k < i THEN s[k] ELSE s[k + 1]
<1> DEFINE front == SubSeq(s, 1, i - 1)
           rest == SubSeq(s, i + 1, Len(s))
<1>0. Len(s) \in Nat
    BY LenProperties
<1>1. /\ front \in Seq(S) /\ Len(front) = i - 1
      /\ \A k \in 1 .. i - 1 : front[k] = s[k]
    <2>1. \A k \in 1 .. i - 1 : s[k] \in S
        BY <1>0, ElementOfSeq
    <2>2. 1 \in Int /\ i - 1 \in Int
        BY <1>0
    <2> QED
        BY <2>1, <2>2, <1>0, SubSeqProperties
<1>2. /\ rest \in Seq(S) /\ Len(rest) = Len(s) - i
      /\ \A k \in 1 .. Len(s) - i : rest[k] = s[i + k]
    <2>1. \A k \in i + 1 .. Len(s) : s[k] \in S
        BY <1>0, ElementOfSeq
    <2>2. i + 1 \in Int /\ Len(s) \in Int
        BY <1>0
    <2> QED
        BY <2>1, <2>2, <1>0, SubSeqProperties
<1>3. RemoveAt(s, i) = front \o rest
    BY DEF RemoveAt
<1> HIDE DEF front, rest
<1>4. /\ front \o rest \in Seq(S) /\ Len(front \o rest) = Len(front) + Len(rest)
      /\ \A k \in 1 .. Len(front) + Len(rest) : (front \o rest)[k] =
             IF k <= Len(front) THEN front[k] ELSE rest[k - Len(front)]
    BY <1>1, <1>2, ConcatProperties
<1>5. \A k \in 1 .. Len(s) - 1 :
          (front \o rest)[k] = IF k < i THEN s[k] ELSE s[k + 1]
    <2> SUFFICES ASSUME NEW k \in 1 .. Len(s) - 1
                 PROVE  (front \o rest)[k] = IF k < i THEN s[k] ELSE s[k + 1]
        OBVIOUS
    <2>1. CASE k < i
        BY <2>1, <1>0, <1>1, <1>2, <1>4
    <2>2. CASE ~(k < i)
        <3>1. k - (i - 1) \in 1 .. Len(s) - i /\ i + (k - (i - 1)) = k + 1
            BY <2>2, <1>0
        <3>2. rest[k - (i - 1)] = s[k + 1]
            BY <3>1, <1>2
        <3> QED
            BY <2>2, <3>2, <1>0, <1>1, <1>2, <1>4
    <2> QED
        BY <2>1, <2>2
<1> QED
    BY <1>0, <1>1, <1>2, <1>3, <1>4, <1>5

QueueTypes == txQueue \in Seq({b \in Bodies : step[b] = "tx"})

LEMMA QueueElements ==
    ASSUME TypeOK
    PROVE  /\ txQueue \in Seq(Bodies) /\ Len(txQueue) \in Nat
           /\ DOMAIN txQueue = 1 .. Len(txQueue)
           /\ \A p \in 1 .. Len(txQueue) :
                  txQueue[p] \in Bodies /\ step[txQueue[p]] = "tx"
<1> DEFINE T == {b \in Bodies : step[b] = "tx"}
<1>1. txQueue \in Seq(T)
    BY DEF TypeOK
<1>2. txQueue \in Seq(Bodies)
    BY <1>1, SeqMonotonic
<1>3. \A p \in 1 .. Len(txQueue) : txQueue[p] \in T
    BY <1>1, ElementOfSeq
<1> QED
    BY <1>2, <1>3, LenProperties

LEMMA QueueOf ==
    ASSUME NEW S, NEW T, NEW s \in Seq(S), \A p \in 1 .. Len(s) : s[p] \in T
    PROVE  s \in Seq(T)
<1>1. Len(s) \in Nat /\ s \in [1 .. Len(s) -> S]
    BY LenProperties
<1>2. s \in [1 .. Len(s) -> T]
    BY <1>1
<1> QED
    BY <1>1, <1>2

\* The queue stays as it is while no attempt goes back.
LEMMA QueueStays ==
    ASSUME TypeOK, BodyInv, QueueInv, JobTypes', txQueue' = txQueue,
           \A b \in Bodies : step'[b] = "tx" <=> step[b] = "tx",
           written' \in [Jobs -> 0 .. MaxAttempts],
           \A j \in Jobs : written'[j] <= written[j],
           \A j \in Jobs : Open(j)' =>
               written'[j] = 0 \/ (Open(j) /\ job'[j].attempt >= job[j].attempt)
    PROVE  QueueTypes' /\ QueueInv'
<1>1. QueueTypes'
    BY QueueElements, QueueOf DEF QueueTypes
<1>2. \A j \in Jobs : job'[j].attempt \in Nat /\ job[j].attempt \in Nat /\ written[j] \in Nat
    <2>1. \A j \in Jobs : job[j] \in JobRec /\ job'[j] \in JobRec
        BY TypeParts DEF JobTypes
    <2>2. \A r \in JobRec : r.attempt \in Nat
        BY DEF JobRec
    <2>3. \A j \in Jobs : written[j] \in Nat
        BY TopStatsAssumption DEF TypeOK, TopStatsAssumption
    <2> QED
        BY <2>1, <2>2, <2>3
<1>3. \A j \in Jobs : Open(j)' => written'[j] <= job'[j].attempt
    BY <1>2 DEF QueueInv
<1>4. \A p \in DOMAIN txQueue : txQueue[p] # Direct =>
          txQueue[p][1] \in Jobs /\ txQueue[p][2] \in Nat
    BY QueueElements, BodyFacts DEF BodyInv
<1>5. \A p \in DOMAIN txQueue : txQueue[p] # Direct => written'[txQueue[p][1]] <= txQueue[p][2]
    BY <1>2, <1>4 DEF QueueInv
<1> QED
    BY <1>1, <1>3, <1>5 DEF QueueInv, Direct

\* What a job has written and the numbers of its attempts are naturals.
LEMMA Counts ==
    ASSUME TypeOK
    PROVE  /\ \A j \in Jobs : job[j].attempt \in 0 .. MaxAttempts
           /\ \A j \in Jobs : written[j] \in 0 .. MaxAttempts
           /\ \A n \in 0 .. MaxAttempts : n \in Nat
<1>1. \A j \in Jobs : job[j] \in JobRec
    BY TypeParts DEF JobTypes
<1>2. \A r \in JobRec : r.attempt \in 0 .. MaxAttempts
    BY DEF JobRec
<1> QED
    BY <1>1, <1>2, TopStatsAssumption DEF TypeOK, TopStatsAssumption

\* A transaction is opened by the body of the latest attempt.
LEMMA QueueGrows ==
    ASSUME TypeOK, BodyInv, QueueInv, NEW b \in Bodies,
           step[b] = "catalog", b \notin aborted, step' = [step EXCEPT ![b] = "tx"],
           txQueue' = Append(txQueue, b), UNCHANGED <<job, written>>
    PROVE  QueueTypes' /\ QueueInv'
<1> DEFINE n == Len(txQueue)
<1>0. /\ txQueue \in Seq(Bodies) /\ n \in Nat /\ DOMAIN txQueue = 1 .. n
      /\ \A p \in 1 .. n : txQueue[p] \in Bodies /\ step[txQueue[p]] = "tx"
    BY QueueElements
<1>1. /\ txQueue' \in Seq(Bodies) /\ Len(txQueue') = n + 1 /\ DOMAIN txQueue' = 1 .. n + 1
      /\ \A p \in 1 .. n : txQueue'[p] = txQueue[p]
      /\ txQueue'[n + 1] = b
    BY <1>0, AppendProperties, LenProperties
<1> HIDE DEF n
<1>2. step'[b] = "tx" /\ \A c \in Bodies \ {b} : step'[c] = step[c]
    BY TypeParts DEF JobTypes
<1>3. \A p \in 1 .. n + 1 : p \in 1 .. n \/ p = n + 1
    BY <1>0
<1>4. \A p \in 1 .. n + 1 : txQueue'[p] \in {c \in Bodies : step'[c] = "tx"}
    BY <1>0, <1>1, <1>2, <1>3
<1>5. QueueTypes'
    BY <1>1, <1>4, QueueOf DEF QueueTypes
<1>6. b # Direct => b[1] \in Jobs /\ job[b[1]].status = "active" /\ b[2] = job[b[1]].attempt
    <2> HAVE b # Direct
    <2>1. b[1] \in Jobs /\ job[b[1]].status = "active" /\ b = Current(b[1])
        BY DEF BodyInv
    <2> QED
        BY <2>1, CurrentBody DEF BodyInv
<1>7. \A p \in 1 .. n : txQueue[p] # b
    BY <1>0
<1>8. \A p \in 1 .. n : txQueue[p][1] = b[1] => txQueue[p][2] < b[2]
    <2> SUFFICES ASSUME NEW p \in 1 .. n, txQueue[p][1] = b[1] PROVE txQueue[p][2] < b[2]
        OBVIOUS
    <2>1. txQueue[p] \in Bodies /\ step[txQueue[p]] # "idle" /\ txQueue[p] # b
        BY <1>0, <1>7
    <2>2. txQueue[p][2] # b[2] /\ txQueue[p][2] \in 1 .. MaxAttempts /\ b[2] \in 1 .. MaxAttempts
        BY <2>1, BodyFacts
    <2>3. CASE b = Direct
        <3>1. txQueue[p] # Direct /\ txQueue[p][1] \notin Jobs
            BY <2>1, <2>3, BodyFacts
        <3> QED
            BY <2>1, <3>1 DEF BodyInv
    <2>4. CASE b # Direct
        <3>1. txQueue[p] # Direct
            BY <1>6, <2>4, BodyFacts
        <3>2. txQueue[p][2] <= job[b[1]].attempt
            BY <1>6, <2>1, <2>4, <3>1 DEF BodyInv, Open
        <3> QED
            BY <1>6, <2>2, <2>4, <3>2, TopStatsAssumption DEF TopStatsAssumption
    <2> QED
        BY <2>3, <2>4
<1>9. QueueInv'
    <2>1. \A c \in Bodies : step'[c] = "tx" => \E p \in DOMAIN txQueue' : txQueue'[p] = c
        <3> SUFFICES ASSUME NEW c \in Bodies, step'[c] = "tx"
                     PROVE  \E p \in DOMAIN txQueue' : txQueue'[p] = c
            OBVIOUS
        <3>1. CASE c = b
            BY <3>1, <1>0, <1>1
        <3>2. CASE c # b
            <4>1. PICK p \in 1 .. n : txQueue[p] = c
                BY <3>2, <1>0, <1>2 DEF QueueInv
            <4>2. p \in 1 .. n + 1
                BY <1>0
            <4> QED
                BY <4>1, <4>2, <1>1
        <3> QED
            BY <3>1, <3>2
    <2>2. \A p, q \in DOMAIN txQueue' :
              p < q /\ txQueue'[p][1] = txQueue'[q][1] => txQueue'[p][2] < txQueue'[q][2]
        <3> SUFFICES ASSUME NEW p \in 1 .. n + 1, NEW q \in 1 .. n + 1, p < q,
                            txQueue'[p][1] = txQueue'[q][1]
                     PROVE  txQueue'[p][2] < txQueue'[q][2]
            BY <1>1
        <3>1. p \in 1 .. n
            BY <1>0
        <3>2. CASE q = n + 1
            BY <3>1, <3>2, <1>1, <1>8
        <3>3. CASE q \in 1 .. n
            BY <3>1, <3>3, <1>0, <1>1 DEF QueueInv
        <3> QED
            BY <3>2, <3>3, <1>3
    <2>3. \A p \in DOMAIN txQueue' :
              txQueue'[p] # Direct => written'[txQueue'[p][1]] <= txQueue'[p][2]
        <3> SUFFICES ASSUME NEW p \in 1 .. n + 1, txQueue'[p] # Direct
                     PROVE  written[txQueue'[p][1]] <= txQueue'[p][2]
            BY <1>1
        <3>1. CASE p = n + 1
            BY <3>1, <1>1, <1>6 DEF QueueInv, Open
        <3>2. CASE p \in 1 .. n
            BY <3>2, <1>0, <1>1 DEF QueueInv
        <3> QED
            BY <3>1, <3>2, <1>3
    <2>4. \A j \in Jobs : Open(j)' => written'[j] <= job'[j].attempt
        BY DEF QueueInv, Open
    <2> QED
        BY <2>1, <2>2, <2>3, <2>4 DEF QueueInv, Direct
<1> QED
    BY <1>5, <1>9

\* A transaction leaves the queue: it has failed, or, as the first, it has written.
LEMMA QueueLoses ==
    ASSUME TypeOK, BodyInv, QueueInv, JobTypes', OnlyClosed, NEW i \in 1 .. Len(txQueue),
           step' = [step EXCEPT ![txQueue[i]] = "idle"],
           txQueue' \in Seq(Bodies), Len(txQueue') = Len(txQueue) - 1,
           \A k \in 1 .. Len(txQueue) - 1 :
               txQueue'[k] = IF k < i THEN txQueue[k] ELSE txQueue[k + 1],
           \/ written' = written
           \/ i = 1 /\ txQueue[1] # Direct
              /\ written' = [written EXCEPT ![txQueue[1][1]] = txQueue[1][2]]
    PROVE  /\ QueueTypes' /\ QueueInv'
           /\ written' \in [Jobs -> 0 .. MaxAttempts]
           /\ \A j \in Jobs : written[j] <= written'[j]
<1> DEFINE n == Len(txQueue)
           b == txQueue[i]
           From(k) == IF k < i THEN k ELSE k + 1
<1>0. /\ n \in Nat /\ DOMAIN txQueue = 1 .. n
      /\ \A p \in 1 .. n : txQueue[p] \in Bodies /\ step[txQueue[p]] = "tx"
    BY QueueElements
<1>1. DOMAIN txQueue' = 1 .. n - 1
    BY <1>0, LenProperties
<1>2. \A k \in 1 .. n - 1 : /\ From(k) \in 1 .. n /\ From(k) # i
                             /\ txQueue'[k] = txQueue[From(k)]
    BY <1>0
<1>3. \A k, m \in 1 .. n - 1 : k < m => From(k) < From(m)
    BY <1>0
<1>4. \A p \in 1 .. n : p # i => \E k \in 1 .. n - 1 : From(k) = p
    <2> SUFFICES ASSUME NEW p \in 1 .. n, p # i PROVE \E k \in 1 .. n - 1 : From(k) = p
        OBVIOUS
    <2>1. CASE p < i
        BY <2>1, <1>0
    <2>2. CASE p > i
        <3>1. p - 1 \in 1 .. n - 1 /\ From(p - 1) = p
            BY <2>2, <1>0
        <3> QED
            BY <3>1
    <2> QED
        BY <2>1, <2>2, <1>0
<1>5. b \in Bodies /\ step'[b] = "idle" /\ \A c \in Bodies \ {b} : step'[c] = step[c]
    BY <1>0, TypeParts DEF JobTypes
<1>6. \A p, q \in 1 .. n : p # q => txQueue[p] # txQueue[q]
    <2> SUFFICES ASSUME NEW p \in 1 .. n, NEW q \in 1 .. n, p < q, txQueue[p] = txQueue[q]
                 PROVE  FALSE
        BY <1>0
    <2>1. txQueue[p][2] < txQueue[p][2]
        BY <1>0 DEF QueueInv
    <2>2. txQueue[p][2] \in Nat
        BY <1>0, BodyFacts
    <2> QED
        BY <2>1, <2>2
<1>7. i \in 1 .. n
    OBVIOUS
<1> HIDE DEF n, From
<1>8. \A k \in 1 .. n - 1 : txQueue'[k] # b
    BY <1>2, <1>6, <1>7
<1>9. QueueTypes'
    <2>1. \A k \in 1 .. n - 1 : txQueue'[k] \in {c \in Bodies : step'[c] = "tx"}
        BY <1>0, <1>2, <1>5, <1>8
    <2> QED
        BY <2>1, QueueOf DEF QueueTypes, n
<1> HIDE DEF b
<1>10. /\ written' \in [Jobs -> 0 .. MaxAttempts]
       /\ \A j \in Jobs : written[j] <= written'[j]
       /\ \A k \in 1 .. n - 1 : txQueue'[k] # Direct => written'[txQueue'[k][1]] <= txQueue'[k][2]
       /\ \A j \in Jobs : Open(j)' => written'[j] <= job'[j].attempt
    <2>0. /\ \A j \in Jobs : written[j] \in Nat
          /\ \A p \in 1 .. n : txQueue[p] # Direct => txQueue[p][1] \in Jobs
          /\ \A p \in 1 .. n : txQueue[p][2] \in 1 .. MaxAttempts
        BY <1>0, Counts, BodyFacts DEF BodyInv
    <2>1. CASE written' = written
        <3>1. \A j \in Jobs : Open(j)' => written[j] <= job'[j].attempt
            BY DEF OnlyClosed, QueueInv
        <3>2. \A k \in 1 .. n - 1 :
                  txQueue'[k] # Direct => written[txQueue'[k][1]] <= txQueue'[k][2]
            BY <1>0, <1>2 DEF QueueInv
        <3>3. written \in [Jobs -> 0 .. MaxAttempts]
            BY DEF TypeOK
        <3> QED
            BY <2>0, <2>1, <3>1, <3>2, <3>3
    <2>2. CASE written' # written
        <3> DEFINE j0 == txQueue[1][1]
                   a0 == txQueue[1][2]
        <3>1. /\ i = 1 /\ 1 \in 1 .. n /\ txQueue[1] # Direct
              /\ written' = [written EXCEPT ![j0] = a0]
            BY <2>2 DEF n
        <3>2. j0 \in Jobs /\ a0 \in 1 .. MaxAttempts /\ written[j0] <= a0
            BY <2>0, <3>1, <1>0 DEF QueueInv
        <3>3. Open(j0) => a0 <= job[j0].attempt
            BY <1>0, <3>1 DEF BodyInv
        <3> HIDE DEF j0, a0
        <3>4. written \in [Jobs -> 0 .. MaxAttempts]
            BY DEF TypeOK
        <3>5. written'[j0] = a0 /\ \A j \in Jobs \ {j0} : written'[j] = written[j]
            BY <3>1, <3>2, <3>4
        <3>6. written' \in [Jobs -> 0 .. MaxAttempts]
            BY <3>1, <3>2, <3>4
        <3>7. \A j \in Jobs : written[j] <= written'[j]
            BY <2>0, <3>2, <3>5
        <3>8. \A j \in Jobs : Open(j)' => written'[j] <= job'[j].attempt
            BY <3>2, <3>3, <3>5 DEF OnlyClosed, QueueInv
        <3>9. \A k \in 1 .. n - 1 :
                  txQueue'[k] # Direct => written'[txQueue'[k][1]] <= txQueue'[k][2]
            <4> SUFFICES ASSUME NEW k \in 1 .. n - 1, txQueue'[k] # Direct
                         PROVE  written'[txQueue'[k][1]] <= txQueue'[k][2]
                OBVIOUS
            <4>1. /\ From(k) \in 1 .. n /\ 1 < From(k) /\ txQueue'[k] = txQueue[From(k)]
                BY <1>0, <1>2, <3>1
            <4>2. txQueue'[k][1] \in Jobs /\ txQueue'[k][2] \in Nat
                BY <2>0, <4>1
            <4>3. CASE txQueue'[k][1] = j0
                <5>1. a0 < txQueue'[k][2]
                    <6>1. txQueue[1][1] = txQueue[From(k)][1]
                        BY <4>1, <4>3, <3>1 DEF j0
                    <6>2. txQueue[1][2] < txQueue[From(k)][2]
                        BY <6>1, <4>1, <3>1, <1>0 DEF QueueInv
                    <6> QED
                        BY <6>2, <4>1, <3>1 DEF a0
                <5> QED
                    BY <5>1, <4>2, <4>3, <3>2, <3>5
            <4>4. CASE txQueue'[k][1] # j0
                <5>1. written'[txQueue'[k][1]] = written[txQueue'[k][1]]
                    BY <4>2, <4>4, <3>5
                <5>2. written[txQueue[From(k)][1]] <= txQueue[From(k)][2]
                    BY <4>1, <1>0 DEF QueueInv
                <5> QED
                    BY <5>1, <5>2, <4>1
            <4> QED
                BY <4>3, <4>4
        <3> QED
            BY <3>6, <3>7, <3>8, <3>9
    <2> QED
        BY <2>1, <2>2
<1>11. QueueInv'
    <2>1. \A c \in Bodies : step'[c] = "tx" => \E k \in 1 .. n - 1 : txQueue'[k] = c
        <3> SUFFICES ASSUME NEW c \in Bodies, step'[c] = "tx"
                     PROVE  \E k \in 1 .. n - 1 : txQueue'[k] = c
            OBVIOUS
        <3>1. step[c] = "tx" /\ c # b
            BY <1>5
        <3>2. PICK p \in 1 .. n : txQueue[p] = c
            BY <3>1, <1>0 DEF QueueInv
        <3>3. p # i
            BY <3>1, <3>2 DEF b
        <3> QED
            BY <3>2, <3>3, <1>2, <1>4
    <2>2. \A k, m \in 1 .. n - 1 :
              k < m /\ txQueue'[k][1] = txQueue'[m][1] => txQueue'[k][2] < txQueue'[m][2]
        <3> SUFFICES ASSUME NEW k \in 1 .. n - 1, NEW m \in 1 .. n - 1, k < m,
                            txQueue'[k][1] = txQueue'[m][1]
                     PROVE  txQueue'[k][2] < txQueue'[m][2]
            OBVIOUS
        <3>1. /\ From(k) \in 1 .. n /\ txQueue'[k] = txQueue[From(k)]
              /\ From(m) \in 1 .. n /\ txQueue'[m] = txQueue[From(m)]
            BY <1>2
        <3>2. From(k) < From(m)
            BY <1>3
        <3>3. txQueue[From(k)][1] = txQueue[From(m)][1]
            BY <3>1
        <3>4. txQueue[From(k)][2] < txQueue[From(m)][2]
            BY <3>1, <3>2, <3>3, <1>0 DEF QueueInv
        <3> QED
            BY <3>1, <3>4
    <2>3. \A k \in DOMAIN txQueue' :
              txQueue'[k] # Direct => written'[txQueue'[k][1]] <= txQueue'[k][2]
        BY <1>1, <1>10
    <2>4. \A j \in Jobs : Open(j)' => written'[j] <= job'[j].attempt
        BY <1>10
    <2> QED
        BY <2>1, <2>2, <2>3, <2>4, <1>1 DEF QueueInv, Direct
<1> QED
    BY <1>9, <1>10, <1>11

-----------------------------------------------------------------------------
\* The steps.

\* A commit or an attempt that ends leaves what has been written where it is, or raises it.
Forgetful == \A j \in Jobs : written'[j] < written[j] => written'[j] = 0

\* Every job has ended well: so it had before, unless this step has refreshed.
AllWell == ~missed /\ \A j \in Jobs : ~Open(j)
Settles == AllWell' => \/ refreshAge' = 0
                       \/ /\ AllWell /\ refreshAge' = refreshAge
                          /\ loginAge' \in {loginAge, 0}

Kept == TypeOK' /\ BodyInv' /\ QueueInv' /\ Forgetful

LEMMA Ages ==
    ASSUME TypeOK
    PROVE  /\ loginAge \in 0 .. MaxLoginAge
           /\ refreshAge \in (0 .. MaxRefreshAge) \cup {Never}
           /\ valid \in BOOLEAN /\ missed \in BOOLEAN /\ faults \in 0 .. MaxFaults
           /\ written \in [Jobs -> 0 .. MaxAttempts]
           /\ Fault => faults' \in 0 .. MaxFaults
    BY TopStatsAssumption DEF TypeOK, Fault, TopStatsAssumption

\* A step that writes nothing and leaves the queue alone.
LEMMA QueueUntouched ==
    ASSUME TypeOK, BodyInv, QueueInv, JobTypes', UNCHANGED <<txQueue, written>>,
           \A b \in Bodies : step'[b] = "tx" <=> step[b] = "tx",
           \A j \in Jobs : Open(j)' => Open(j) /\ job'[j].attempt >= job[j].attempt
    PROVE  QueueTypes' /\ QueueInv' /\ Forgetful
<1>1. \A j \in Jobs : written[j] \in Nat
    BY Counts
<1>2. QueueTypes' /\ QueueInv'
    BY <1>1, Ages, QueueStays
<1> QED
    BY <1>1, <1>2 DEF Forgetful

\* A job without an id BullMQ has is added.
LEMMA Added ==
    ASSUME TypeOK, BodyInv, QueueInv, NEW j \in Jobs, j \in FreeSlots \cup {"lazy", "login"},
           Add(j), UNCHANGED <<step, aborted, txQueue>>
    PROVE  /\ JobTypes' /\ BodyInv' /\ QueueTypes' /\ QueueInv' /\ Forgetful
           /\ written' \in [Jobs -> 0 .. MaxAttempts]
           /\ \A k \in Jobs : Open(k) => Open(k)'
           /\ job[j].status = "none" => Open(j)'
<1>1. JobTypes' /\ BodyInv'
    BY AddKeeps
<1>2. /\ \A k \in Jobs : written[k] \in Nat
      /\ \A k \in Jobs : job[k].attempt \in Nat
      /\ written \in [Jobs -> 0 .. MaxAttempts] /\ job \in [Jobs -> JobRec]
    BY Counts, Ages, TypeParts DEF JobTypes
<1>3. CASE job[j].status = "none"
    <2>1. job' = [job EXCEPT ![j] = Fresh("waiting")] /\ written' = [written EXCEPT ![j] = 0]
        BY <1>3 DEF Add
    <2>2. /\ job'[j] = Fresh("waiting") /\ \A k \in Jobs \ {j} : job'[k] = job[k]
          /\ written'[j] = 0 /\ \A k \in Jobs \ {j} : written'[k] = written[k]
        BY <2>1, <1>2
    <2>3. written' \in [Jobs -> 0 .. MaxAttempts]
        BY <2>1, <1>2, TopStatsAssumption DEF TopStatsAssumption
    <2>4. \A k \in Jobs : Open(k)' =>
              written'[k] = 0 \/ (Open(k) /\ job'[k].attempt >= job[k].attempt)
        BY <2>2, <1>2 DEF Open
    <2>5. \A k \in Jobs : written'[k] <= written[k]
        BY <2>2, <1>2
    <2>6. QueueTypes' /\ QueueInv'
        BY <1>1, <2>3, <2>4, <2>5, QueueStays
    <2>7. Forgetful
        BY <2>2, <1>2 DEF Forgetful
    <2>8. Open(j)'
        BY <2>2 DEF Open, Fresh
    <2>9. \A k \in Jobs : Open(k) => Open(k)'
        BY <2>2, <2>8 DEF Open
    <2> QED
        BY <1>1, <2>3, <2>6, <2>7, <2>8, <2>9
<1>4. CASE job[j].status # "none"
    <2>1. UNCHANGED <<job, written>>
        BY <1>4 DEF Add
    <2>2. \A k \in Jobs : Open(k)' <=> Open(k)
        BY <2>1 DEF Open
    <2>3. QueueTypes' /\ QueueInv' /\ Forgetful
        BY <1>1, <1>2, <2>1, <2>2, QueueUntouched
    <2> QED
        BY <1>1, <1>2, <1>4, <2>1, <2>2, <2>3
<1> QED
    BY <1>3, <1>4

LEMMA AskedKeeps ==
    ASSUME TypeOK, BodyInv, QueueInv, Visit \/ Login \/ Manual
    PROVE  Kept /\ Settles
<1>1. PICK j \in Jobs : j \in FreeSlots \cup {"lazy", "login"} /\ Add(j)
    BY DEF Visit, Login, Manual, FreeSlots, Jobs
<1>2. /\ UNCHANGED <<step, aborted, txQueue, missed, faults, refreshAge>>
      /\ loginAge' \in {loginAge, 0}
    BY DEF Visit, Login, Manual, userVars
<1>3. /\ JobTypes' /\ BodyInv' /\ QueueTypes' /\ QueueInv' /\ Forgetful
      /\ written' \in [Jobs -> 0 .. MaxAttempts]
      /\ \A k \in Jobs : Open(k) => Open(k)'
    BY <1>1, <1>2, Added
<1>v. valid' \in BOOLEAN
    BY Ages DEF Visit, Login, Manual, userVars
<1>l. loginAge' \in 0 .. MaxLoginAge
    BY <1>2, Ages DEF MaxLoginAge
<1>4. TypeOK'
    BY <1>2, <1>3, <1>v, <1>l, Ages DEF TypeOK, JobTypes, QueueTypes, JobRec
<1> QED
    BY <1>2, <1>3, <1>4 DEF Kept, Settles, AllWell

\* At 3 AM either a job is queued, or the rankings are young enough for another day.
LEMMA DayKeeps ==
    ASSUME TypeOK, BodyInv, QueueInv, Day
    PROVE  Kept /\ (StaleInv => StaleInv')
<1>0. /\ UNCHANGED <<valid, step, aborted, txQueue, faults>>
      /\ missed' = (missed \/ ~valid)
      /\ loginAge' = Older(loginAge, MaxLoginAge)
      /\ refreshAge' = IF refreshAge = Never THEN Never ELSE Older(refreshAge, MaxRefreshAge)
      /\ \A j \in Jobs : ~Open(j)
    BY DEF Day, Quiet, Open
<1>1. /\ loginAge' \in 0 .. MaxLoginAge
      /\ refreshAge' \in (0 .. MaxRefreshAge) \cup {Never}
    BY <1>0, Ages DEF Older, MaxLoginAge, MaxRefreshAge, Never
<1>m. missed' \in BOOLEAN
    BY <1>0, Ages
<1>2. CASE valid /\ SweepDue(loginAge, refreshAge)
    <2>1. PICK s \in FreeSlots : Add(s)
        BY <1>2 DEF Day
    <2>2. s \in Jobs /\ job[s].status = "none"
        BY DEF FreeSlots, Jobs
    <2>3. /\ JobTypes' /\ BodyInv' /\ QueueTypes' /\ QueueInv' /\ Forgetful
          /\ written' \in [Jobs -> 0 .. MaxAttempts] /\ Open(s)'
        BY <1>0, <2>1, <2>2, Added
    <2>4. TypeOK'
        BY <1>0, <1>1, <1>m, <2>3, Ages DEF TypeOK, JobTypes, QueueTypes, JobRec
    <2>5. StaleInv'
        BY <2>2, <2>3 DEF StaleInv
    <2> QED
        BY <2>3, <2>4, <2>5 DEF Kept
<1>3. CASE ~(valid /\ SweepDue(loginAge, refreshAge))
    <2>1. UNCHANGED <<job, written>>
        BY <1>3 DEF Day
    <2>2. JobTypes' /\ BodyInv'
        BY <1>0, <2>1, SameBodies
    <2>3. \A j \in Jobs : Open(j)' => Open(j) /\ job'[j].attempt >= job[j].attempt
        BY <1>0, <2>1 DEF Open
    <2>4. QueueTypes' /\ QueueInv' /\ Forgetful
        BY <1>0, <2>1, <2>2, <2>3, QueueUntouched
    <2>5. TypeOK'
        BY <1>0, <1>1, <1>m, <2>1, <2>2, <2>4, Ages DEF TypeOK, JobTypes, QueueTypes, JobRec
    <2>6. ASSUME StaleInv PROVE StaleInv'
        <3> SUFFICES ASSUME ~missed, valid, loginAge' \in 1 .. 7
                     PROVE  refreshAge' <= IF loginAge' <= 2 THEN 1 ELSE 3
            BY <1>0 DEF StaleInv
        <3>1. loginAge \in 0 .. 6 /\ loginAge' = loginAge + 1
            BY <1>0, Ages DEF Older, MaxLoginAge
        <3>2. CASE loginAge \in {0, 1}
            <4>1. refreshAge = 0
                BY <1>3, <3>2, Ages DEF SweepDue, MaxRefreshAge, Never
            <4> QED
                BY <4>1, <3>1, <3>2, <1>0 DEF Older, MaxRefreshAge, Never
        <3>3. CASE loginAge = 2
            <4>1. refreshAge <= 1
                BY <2>6, <3>3, <1>0 DEF StaleInv
            <4> QED
                BY <4>1, <3>1, <3>3, <1>0, Ages DEF Older, MaxRefreshAge, Never
        <3>4. CASE loginAge \in 3 .. 6
            <4>1. refreshAge \in 0 .. 2
                BY <1>3, <3>4, Ages DEF SweepDue, MaxRefreshAge, Never
            <4> QED
                BY <4>1, <3>1, <3>4, <1>0 DEF Older, MaxRefreshAge, Never
        <3> QED
            BY <3>1, <3>2, <3>3, <3>4
    <2> QED
        BY <2>2, <2>4, <2>5, <2>6 DEF Kept
<1> QED
    BY <1>2, <1>3

LEMMA ForgetKeeps ==
    ASSUME TypeOK, BodyInv, QueueInv, NEW j \in Jobs, Forget(j)
    PROVE  Kept /\ Settles
<1>0. /\ job[j].status \in {"completed", "failed"} /\ Idle(j)
      /\ job' = [job EXCEPT ![j] = Fresh("none")]
      /\ written' = [written EXCEPT ![j] = 0]
      /\ UNCHANGED <<userVars, missed, step, aborted, txQueue, faults>>
    BY DEF Forget
<1>1. JobTypes' /\ BodyInv'
    BY <1>0, ResetKeeps
<1>2. /\ \A k \in Jobs : written[k] \in Nat
      /\ \A k \in Jobs : job[k].attempt \in Nat
      /\ written \in [Jobs -> 0 .. MaxAttempts] /\ job \in [Jobs -> JobRec]
    BY Counts, Ages, TypeParts DEF JobTypes
<1>3. /\ job'[j] = Fresh("none") /\ \A k \in Jobs \ {j} : job'[k] = job[k]
      /\ written'[j] = 0 /\ \A k \in Jobs \ {j} : written'[k] = written[k]
    BY <1>0, <1>2
<1>4. written' \in [Jobs -> 0 .. MaxAttempts]
    BY <1>0, <1>2, TopStatsAssumption DEF TopStatsAssumption
<1>5. ~Open(j)' /\ ~Open(j) /\ \A k \in Jobs \ {j} : Open(k)' <=> Open(k)
    BY <1>0, <1>3 DEF Open, Fresh
<1>6. \A k \in Jobs : Open(k)' => Open(k) /\ job'[k].attempt >= job[k].attempt
    BY <1>2, <1>3, <1>5
<1>7. \A k \in Jobs : written'[k] <= written[k]
    BY <1>2, <1>3
<1>8. QueueTypes' /\ QueueInv'
    BY <1>0, <1>1, <1>4, <1>6, <1>7, QueueStays
<1>9. Forgetful
    BY <1>2, <1>3 DEF Forgetful
<1>10. TypeOK'
    BY <1>0, <1>1, <1>4, <1>8, Ages DEF TypeOK, JobTypes, QueueTypes, JobRec, userVars
<1>11. Settles
    BY <1>0, <1>5 DEF Settles, AllWell, userVars
<1> QED
    BY <1>1, <1>8, <1>9, <1>10, <1>11 DEF Kept

LEMMA RequestKeeps ==
    ASSUME TypeOK, BodyInv, QueueInv, Request
    PROVE  Kept /\ Settles
<1>0. /\ step[Direct] = "idle" /\ step' = [step EXCEPT ![Direct] = "fetch"]
      /\ UNCHANGED <<userVars, missed, job, aborted, txQueue, written, faults>>
    BY DEF Request
<1>1. JobTypes' /\ BodyInv'
    BY <1>0, BodyFacts, AdvanceKeeps
<1>2. \A b \in Bodies : step'[b] = "tx" <=> step[b] = "tx"
    BY <1>0, TypeParts DEF JobTypes
<1>3. \A j \in Jobs : Open(j)' <=> Open(j)
    BY <1>0 DEF Open
<1>4. QueueTypes' /\ QueueInv' /\ Forgetful
    BY <1>0, <1>1, <1>2, <1>3, Counts, QueueUntouched
<1>5. TypeOK'
    BY <1>0, <1>1, <1>4, Ages DEF TypeOK, JobTypes, QueueTypes, JobRec, userVars
<1> QED
    BY <1>0, <1>1, <1>3, <1>4, <1>5 DEF Kept, Settles, AllWell, userVars

LEMMA TakenKeeps ==
    ASSUME TypeOK, BodyInv, QueueInv, NEW j \in Jobs, Take(j)
    PROVE  Kept /\ Settles
<1> DEFINE body == <<j, job[j].attempt + 1>>
<1>0. /\ job[j].status = "waiting" /\ step[body] = "idle"
      /\ job' = [job EXCEPT ![j].status = "active", ![j].attempt = @ + 1]
      /\ step' = [step EXCEPT ![body] = "fetch"]
      /\ UNCHANGED <<userVars, missed, aborted, txQueue, written, faults>>
    BY DEF Take
<1> HIDE DEF body
<1>1. JobTypes' /\ BodyInv'
    BY TakeKeeps
<1>2. \A b \in Bodies : step'[b] = "tx" <=> step[b] = "tx"
    BY <1>0, TypeParts DEF JobTypes
<1>3. /\ \A k \in Jobs : job[k].attempt \in Nat
      /\ job \in [Jobs -> JobRec] /\ job[j] \in JobRec
    BY Counts, TypeParts DEF JobTypes
<1>4. job'[j].attempt = job[j].attempt + 1 /\ job'[j].status = "active"
    BY <1>0, <1>3 DEF JobRec
<1>5. \A k \in Jobs \ {j} : job'[k] = job[k]
    BY <1>0, <1>3
<1>6. \A k \in Jobs : (Open(k)' <=> Open(k)) /\ job'[k].attempt >= job[k].attempt
    BY <1>0, <1>3, <1>4, <1>5 DEF Open
<1>7. QueueTypes' /\ QueueInv' /\ Forgetful
    BY <1>0, <1>1, <1>2, <1>6, QueueUntouched
<1>8. TypeOK'
    BY <1>0, <1>1, <1>7, Ages DEF TypeOK, JobTypes, QueueTypes, JobRec, userVars
<1> QED
    BY <1>0, <1>1, <1>6, <1>7, <1>8 DEF Kept, Settles, AllWell, userVars

\* A body that leaves ends its attempt for good, or the job waits for another.
LEMMA LeavesEnds ==
    ASSUME TypeOK, BodyInv, NEW b \in Bodies, step[b] # "idle",
           NEW end, end = "completed" \/ end = "failed" \/ end = "unrecoverable", Leaves(b, end)
    PROVE  /\ Ends(b, end) /\ JobTypes' /\ BodyInv' /\ OnlyClosed
           /\ missed' \in BOOLEAN /\ (AllWell' => AllWell)
<1>1. Ends(b, end)
    BY DEF Leaves, Ends
<1>2. JobTypes' /\ BodyInv' /\ OnlyClosed
    BY <1>1, EndsKeeps
<1>3. CASE b = Direct \/ b \in aborted
    <2>1. UNCHANGED <<job, missed>>
        BY <1>3 DEF Leaves
    <2> QED
        BY <1>1, <1>2, <2>1, Ages DEF AllWell, Open
<1>4. CASE ~(b = Direct \/ b \in aborted)
    <2> DEFINE j0 == b[1]
    <2>1. /\ j0 \in Jobs /\ Finish(j0, end)
          /\ missed' = (missed \/ GivenUp(j0, end))
        BY <1>4 DEF Leaves, BodyInv
    <2> HIDE DEF j0
    <2>2. /\ \A k \in Jobs \ {j0} : job'[k] = job[k]
          /\ IF GivenUp(j0, end) THEN job'[j0].status # "waiting"
             ELSE job'[j0].status = "waiting"
        BY <2>1, Finished, TypeParts DEF JobTypes
    <2>3. missed' \in BOOLEAN
        BY <2>1, Ages DEF GivenUp
    <2>4. AllWell' => AllWell
        BY <2>1, <2>2 DEF AllWell, Open
    <2> QED
        BY <1>1, <1>2, <2>3, <2>4
<1> QED
    BY <1>3, <1>4

\* A body that has no transaction leaves.
LEMMA LeavesEarly ==
    ASSUME TypeOK, BodyInv, QueueInv, NEW b \in Bodies, step[b] # "idle", step[b] # "tx",
           NEW end, end = "completed" \/ end = "failed" \/ end = "unrecoverable", Leaves(b, end),
           UNCHANGED <<ageVars, txQueue, written>>, valid' \in BOOLEAN,
           faults' = faults \/ Fault
    PROVE  Kept /\ Settles
<1>1. /\ Ends(b, end) /\ JobTypes' /\ BodyInv' /\ OnlyClosed
      /\ missed' \in BOOLEAN /\ (AllWell' => AllWell)
    BY LeavesEnds
<1>2. \A c \in Bodies : step'[c] = "tx" <=> step[c] = "tx"
    BY <1>1, TypeParts DEF Ends, JobTypes
<1>3. \A j \in Jobs : Open(j)' => Open(j) /\ job'[j].attempt >= job[j].attempt
    BY <1>1, Counts DEF OnlyClosed
<1>4. QueueTypes' /\ QueueInv' /\ Forgetful
    BY <1>1, <1>2, <1>3, QueueUntouched
<1>5. TypeOK'
    BY <1>1, <1>4, Ages DEF TypeOK, JobTypes, QueueTypes, JobRec, ageVars
<1> QED
    BY <1>1, <1>4, <1>5 DEF Kept, Settles, ageVars

\* A transaction that leaves the queue keeps everything about jobs and bodies in order.
LEMMA TransactionEnds ==
    ASSUME TypeOK, BodyInv, QueueInv, JobTypes', BodyInv', OnlyClosed,
           NEW i \in 1 .. Len(txQueue), step' = [step EXCEPT ![txQueue[i]] = "idle"],
           txQueue' \in Seq(Bodies), Len(txQueue') = Len(txQueue) - 1,
           \A k \in 1 .. Len(txQueue) - 1 :
               txQueue'[k] = IF k < i THEN txQueue[k] ELSE txQueue[k + 1],
           \/ written' = written
           \/ i = 1 /\ txQueue[1] # Direct
              /\ written' = [written EXCEPT ![txQueue[1][1]] = txQueue[1][2]],
           loginAge' = loginAge, refreshAge' \in {refreshAge, 0},
           valid' \in BOOLEAN, missed' \in BOOLEAN,
           faults' = faults \/ Fault
    PROVE  Kept
<1>1. /\ QueueTypes' /\ QueueInv'
      /\ written' \in [Jobs -> 0 .. MaxAttempts]
      /\ \A j \in Jobs : written[j] <= written'[j]
    BY QueueLoses
<1>2. refreshAge' \in (0 .. MaxRefreshAge) \cup {Never}
    BY Ages DEF MaxRefreshAge
<1>3. TypeOK'
    BY <1>1, <1>2, Ages DEF TypeOK, JobTypes, QueueTypes, JobRec
<1>4. \A j \in Jobs : written[j] \in Nat /\ written'[j] \in Nat
    BY <1>1, Counts
<1>5. Forgetful
    BY <1>1, <1>4 DEF Forgetful
<1> QED
    BY <1>1, <1>3, <1>5 DEF Kept

LEMMA FetchedKeeps ==
    ASSUME TypeOK, BodyInv, QueueInv, NEW b \in Bodies, Fetched(b)
    PROVE  Kept /\ Settles
<1>0. step[b] = "fetch" /\ UNCHANGED <<userVars, txQueue, written, faults>>
    BY DEF Fetched
<1>1. CASE b \in aborted
    <2>1. Leaves(b, "completed")
        BY <1>1 DEF Fetched
    <2> QED
        BY <1>0, <2>1, Ages, LeavesEarly DEF userVars, ageVars
<1>2. CASE b \notin aborted
    <2>1. step' = [step EXCEPT ![b] = "catalog"] /\ UNCHANGED <<missed, job, aborted>>
        BY <1>2 DEF Fetched
    <2>2. JobTypes' /\ BodyInv'
        BY <1>0, <2>1, AdvanceKeeps
    <2>3. \A c \in Bodies : step'[c] = "tx" <=> step[c] = "tx"
        BY <1>0, <2>1, TypeParts DEF JobTypes
    <2>4. \A j \in Jobs : Open(j)' <=> Open(j)
        BY <2>1 DEF Open
    <2>5. QueueTypes' /\ QueueInv' /\ Forgetful
        BY <1>0, <2>1, <2>2, <2>3, <2>4, Counts, QueueUntouched
    <2>6. TypeOK'
        BY <1>0, <2>1, <2>2, <2>5, Ages DEF TypeOK, JobTypes, QueueTypes, JobRec, userVars
    <2> QED
        BY <1>0, <2>1, <2>2, <2>4, <2>5, <2>6 DEF Kept, Settles, AllWell, userVars
<1> QED
    BY <1>1, <1>2

LEMMA NoTokenKeeps ==
    ASSUME TypeOK, BodyInv, QueueInv, NEW b \in Bodies, NoToken(b)
    PROVE  Kept /\ Settles
<1>1. valid' \in BOOLEAN /\ (faults' = faults \/ Fault)
    BY Ages DEF NoToken
<1> QED
    BY <1>1, LeavesEarly DEF NoToken

LEMMA CatalogedKeeps ==
    ASSUME TypeOK, BodyInv, QueueInv, NEW b \in Bodies, Cataloged(b)
    PROVE  Kept /\ Settles
<1>0. step[b] = "catalog" /\ UNCHANGED <<userVars, written, faults>>
    BY DEF Cataloged
<1>1. CASE b \in aborted
    <2>1. Leaves(b, "failed") /\ UNCHANGED txQueue
        BY <1>1 DEF Cataloged
    <2> QED
        BY <1>0, <2>1, Ages, LeavesEarly DEF userVars, ageVars
<1>2. CASE b \notin aborted
    <2>1. /\ step' = [step EXCEPT ![b] = "tx"] /\ txQueue' = Append(txQueue, b)
          /\ UNCHANGED <<missed, job, aborted>>
        BY <1>2 DEF Cataloged
    <2>2. JobTypes' /\ BodyInv'
        BY <1>0, <2>1, AdvanceKeeps
    <2>3. QueueTypes' /\ QueueInv'
        BY <1>0, <1>2, <2>1, QueueGrows
    <2>4. \A j \in Jobs : Open(j)' <=> Open(j)
        BY <2>1 DEF Open
    <2>5. TypeOK'
        BY <1>0, <2>1, <2>2, <2>3, Ages DEF TypeOK, JobTypes, QueueTypes, JobRec, userVars
    <2>6. Forgetful
        BY <1>0, Counts DEF Forgetful
    <2> QED
        BY <1>0, <2>1, <2>2, <2>3, <2>4, <2>5, <2>6 DEF Kept, Settles, AllWell, userVars
<1> QED
    BY <1>1, <1>2

LEMMA BodyFailsKeeps ==
    ASSUME TypeOK, BodyInv, QueueInv, NEW b \in Bodies, BodyFails(b)
    PROVE  Kept /\ Settles
<1>0. step[b] # "idle" /\ Fault /\ UNCHANGED <<ageVars, written>>
    BY DEF BodyFails
<1>e. PICK end \in {"failed", "unrecoverable"} : Leaves(b, end)
    BY DEF BodyFails
<1>v. valid' \in BOOLEAN
    BY Ages DEF BodyFails
<1>1. CASE step[b] # "tx"
    <2>1. UNCHANGED txQueue
        BY <1>1 DEF BodyFails
    <2> QED
        BY <1>0, <1>e, <1>v, <1>1, <2>1, LeavesEarly
<1>2. CASE step[b] = "tx"
    <2>1. PICK i \in DOMAIN txQueue : txQueue[i] = b /\ txQueue' = RemoveAt(txQueue, i)
        BY <1>2 DEF BodyFails
    <2>2. i \in 1 .. Len(txQueue) /\ txQueue \in Seq(Bodies)
        BY <2>1, QueueElements
    <2>3. /\ txQueue' \in Seq(Bodies) /\ Len(txQueue') = Len(txQueue) - 1
          /\ \A k \in 1 .. Len(txQueue) - 1 :
                 txQueue'[k] = IF k < i THEN txQueue[k] ELSE txQueue[k + 1]
        BY <2>1, <2>2, Removed
    <2>4. /\ Ends(b, end) /\ JobTypes' /\ BodyInv' /\ OnlyClosed
          /\ missed' \in BOOLEAN /\ (AllWell' => AllWell)
        BY <1>0, <1>e, LeavesEnds
    <2>5. step' = [step EXCEPT ![txQueue[i]] = "idle"]
        BY <2>1, <2>4 DEF Ends
    <2>6. loginAge' = loginAge /\ refreshAge' \in {refreshAge, 0} /\ written' = written
        BY <1>0 DEF ageVars
    <2>7. Kept
        BY <1>0, <1>v, <2>2, <2>3, <2>4, <2>5, <2>6, TransactionEnds
    <2> QED
        BY <1>0, <2>4, <2>7 DEF Settles, ageVars
<1> QED
    BY <1>1, <1>2

LEMMA CommitKeeps ==
    ASSUME TypeOK, BodyInv, QueueInv, NEW b \in Bodies, Commit(b)
    PROVE  Kept /\ Settles
<1>0. /\ txQueue # <<>> /\ b = Head(txQueue) /\ txQueue' = Tail(txQueue)
      /\ refreshAge' = 0 /\ missed' = FALSE
      /\ step' = [step EXCEPT ![b] = "idle"]
      /\ UNCHANGED <<loginAge, valid>> /\ (faults' = faults \/ Fault)
      /\ written' = IF b = Direct THEN written ELSE [written EXCEPT ![b[1]] = b[2]]
    BY DEF Commit
<1>1. txQueue \in Seq(Bodies) /\ Len(txQueue) \in Nat
    BY QueueElements
<1>2. Len(txQueue) > 0
    BY <1>0, <1>1, EmptySeq
<1>3. 1 \in 1 .. Len(txQueue)
    BY <1>1, <1>2
<1>4. /\ b = txQueue[1] /\ txQueue' \in Seq(Bodies) /\ Len(txQueue') = Len(txQueue) - 1
      /\ \A k \in 1 .. Len(txQueue) - 1 : txQueue'[k] = txQueue[k + 1]
    BY <1>0, <1>1, HeadTailProperties
<1>5. step[b] # "idle"
    BY <1>3, <1>4, QueueElements
<1>6. PICK end \in {"completed", "failed"} : Ends(b, end)
    BY DEF Commit, Ends
<1>7. JobTypes' /\ BodyInv' /\ OnlyClosed
    BY <1>5, <1>6, EndsKeeps
<1>8. \A k \in 1 .. Len(txQueue) - 1 :
          txQueue'[k] = IF k < 1 THEN txQueue[k] ELSE txQueue[k + 1]
    BY <1>1, <1>4
<1>9. step' = [step EXCEPT ![txQueue[1]] = "idle"]
    BY <1>0, <1>4
<1>10. \/ written' = written
       \/ 1 = 1 /\ txQueue[1] # Direct
          /\ written' = [written EXCEPT ![txQueue[1][1]] = txQueue[1][2]]
    BY <1>0, <1>4
<1>11. valid' \in BOOLEAN
    BY <1>0, Ages
<1>12. Kept
    BY <1>0, <1>3, <1>4, <1>7, <1>8, <1>9, <1>10, <1>11, TransactionEnds
<1> QED
    BY <1>0, <1>12 DEF Settles

\* Nothing about the jobs hangs on the authorization.
LEMMA AuthKeeps ==
    ASSUME TypeOK, BodyInv, QueueInv, AuthChanges
    PROVE  Kept /\ Settles
<1>0. /\ Fault /\ valid' \in BOOLEAN
      /\ UNCHANGED <<ageVars, missed, job, step, aborted, txQueue, written>>
    BY Ages DEF AuthChanges
<1>1. JobTypes' /\ BodyInv'
    BY <1>0, SameBodies
<1>2. \A j \in Jobs : Open(j)' <=> Open(j)
    BY <1>0 DEF Open
<1>3. QueueTypes' /\ QueueInv' /\ Forgetful
    BY <1>0, <1>1, <1>2, Counts, QueueUntouched
<1>4. TypeOK'
    BY <1>0, <1>1, <1>3, Ages DEF TypeOK, JobTypes, QueueTypes, JobRec, ageVars
<1> QED
    BY <1>0, <1>1, <1>2, <1>3, <1>4 DEF Kept, Settles, AllWell, ageVars

LEMMA TimedOutKeeps ==
    ASSUME TypeOK, BodyInv, QueueInv, NEW j \in Jobs, TimesOut(j)
    PROVE  Kept /\ Settles
<1>0. /\ Fault /\ Finish(j, "failed") /\ missed' = (missed \/ GivenUp(j, "failed"))
      /\ UNCHANGED <<userVars, step, txQueue, written>>
    BY DEF TimesOut
<1>1. JobTypes' /\ BodyInv' /\ OnlyClosed
    BY TimesOutKeeps
<1>2. /\ \A k \in Jobs \ {j} : job'[k] = job[k]
      /\ IF GivenUp(j, "failed") THEN job'[j].status # "waiting"
         ELSE job'[j].status = "waiting"
    BY <1>0, Finished, TypeParts DEF JobTypes
<1>3. AllWell' => AllWell
    BY <1>0, <1>2 DEF AllWell, Open
<1>4. \A k \in Jobs : Open(k)' => Open(k) /\ job'[k].attempt >= job[k].attempt
    BY <1>1, Counts DEF OnlyClosed
<1>5. QueueTypes' /\ QueueInv' /\ Forgetful
    BY <1>0, <1>1, <1>4, QueueUntouched
<1>6. missed' \in BOOLEAN
    BY <1>0, Ages DEF GivenUp
<1>7. TypeOK'
    BY <1>0, <1>1, <1>5, <1>6, Ages DEF TypeOK, JobTypes, QueueTypes, JobRec, userVars
<1> QED
    BY <1>0, <1>1, <1>3, <1>5, <1>7 DEF Kept, Settles, userVars

LEMMA RestartedKeeps ==
    ASSUME TypeOK, BodyInv, QueueInv, Restart
    PROVE  Kept /\ Settles
<1>0. /\ Fault /\ step' = [b \in Bodies |-> "idle"] /\ txQueue' = <<>>
      /\ written' = [j \in Jobs |-> 0] /\ UNCHANGED userVars
      /\ missed' \in BOOLEAN
    BY Ages DEF Restart
<1>1. /\ JobTypes' /\ BodyInv'
      /\ ~missed' => ~missed /\ \A j \in Jobs : Open(j) => Open(j)'
    BY RestartKeeps
<1>2. \A j \in Jobs : job'[j].attempt \in Nat
    <2>1. \A j \in Jobs : job'[j] \in JobRec
        BY <1>1 DEF JobTypes
    <2>2. \A r \in JobRec : r.attempt \in Nat
        BY DEF JobRec
    <2> QED
        BY <2>1, <2>2
<1>3. Len(txQueue') = 0 /\ DOMAIN txQueue' = {} /\ QueueTypes'
    BY <1>0 DEF QueueTypes
<1>4. QueueInv'
    <2>1. \A b \in Bodies : step'[b] # "tx"
        BY <1>0
    <2>2. \A j \in Jobs : Open(j)' => written'[j] <= job'[j].attempt
        BY <1>0, <1>2
    <2> QED
        BY <1>3, <2>1, <2>2 DEF QueueInv, Direct
<1>5. Forgetful
    BY <1>0 DEF Forgetful
<1>6. TypeOK'
    BY <1>0, <1>1, <1>3, Ages, TopStatsAssumption
    DEF TypeOK, JobTypes, QueueTypes, JobRec, userVars, TopStatsAssumption
<1> QED
    BY <1>0, <1>1, <1>4, <1>5, <1>6 DEF Kept, Settles, AllWell, userVars

-----------------------------------------------------------------------------
\* What the specification guarantees.

LEMMA InitHolds == Init => TypeOK /\ BodyInv /\ QueueInv /\ StaleInv
<1> SUFFICES ASSUME Init PROVE TypeOK /\ BodyInv /\ QueueInv /\ StaleInv
    OBVIOUS
<1>1. /\ \A j \in Jobs : job[j] = Fresh("none")
      /\ \A b \in Bodies : step[b] = "idle"
      /\ aborted = {} /\ DOMAIN txQueue = {} /\ \A j \in Jobs : written[j] = 0
      /\ loginAge = MaxLoginAge
    BY DEF Init
<1>2. \A j \in Jobs : job[j].status = "none" /\ job[j].attempt = 0
    BY <1>1 DEF Fresh
<1>3. \A j \in Jobs : Idle(j)
    BY <1>1, BodyFacts DEF Idle
<1>4. TypeOK
    <2>1. loginAge \in 0 .. MaxLoginAge /\ refreshAge \in (0 .. MaxRefreshAge) \cup {Never}
        BY DEF Init, MaxLoginAge, MaxRefreshAge
    <2>2. job \in [Jobs -> JobRec]
        BY FreshType DEF Init
    <2>3. /\ step \in [Bodies -> {"idle", "fetch", "catalog", "tx"}]
          /\ written \in [Jobs -> 0 .. MaxAttempts] /\ faults \in 0 .. MaxFaults
        BY TopStatsAssumption DEF Init, TopStatsAssumption
    <2>4. /\ aborted \in SUBSET {b \in Bodies : step[b] # "idle"}
          /\ valid \in BOOLEAN /\ missed \in BOOLEAN
        BY DEF Init
    <2>5. txQueue \in Seq({b \in Bodies : step[b] = "tx"})
        BY DEF Init
    <2> QED
        BY <2>1, <2>2, <2>3, <2>4, <2>5 DEF TypeOK, JobRec
<1>5. BodyInv
    BY <1>1, <1>2, <1>3 DEF BodyInv, Open, Jobs
<1>6. QueueInv
    BY <1>1, <1>2 DEF QueueInv, Open
<1>7. StaleInv
    BY <1>1 DEF StaleInv, MaxLoginAge
<1> QED
    BY <1>4, <1>5, <1>6, <1>7

\* Age for age, only a refresh or the sweep's choice decides.
LEMMA SettledIsFresh ==
    ASSUME TypeOK, StaleInv, Settles
    PROVE  StaleInv'
    BY Ages DEF StaleInv, Settles, AllWell, MaxLoginAge

LEMMA StepHolds ==
    TypeOK /\ BodyInv /\ QueueInv /\ StaleInv /\ [Next]_vars => Kept /\ StaleInv'
<1> SUFFICES ASSUME TypeOK, BodyInv, QueueInv, StaleInv, [Next]_vars
             PROVE  Kept /\ StaleInv'
    OBVIOUS
<1>1. CASE Visit \/ Login \/ Manual
    BY <1>1, AskedKeeps, SettledIsFresh
<1>2. CASE Request
    BY <1>2, RequestKeeps, SettledIsFresh
<1>3. CASE Day
    BY <1>3, DayKeeps
<1>4. ASSUME NEW b \in Bodies, Fetched(b) PROVE Kept /\ StaleInv'
    BY <1>4, FetchedKeeps, SettledIsFresh
<1>5. ASSUME NEW b \in Bodies, Cataloged(b) PROVE Kept /\ StaleInv'
    BY <1>5, CatalogedKeeps, SettledIsFresh
<1>6. ASSUME NEW b \in Bodies, Commit(b) PROVE Kept /\ StaleInv'
    BY <1>6, CommitKeeps, SettledIsFresh
<1>7. ASSUME NEW b \in Bodies, NoToken(b) PROVE Kept /\ StaleInv'
    BY <1>7, NoTokenKeeps, SettledIsFresh
<1>8. ASSUME NEW b \in Bodies, BodyFails(b) PROVE Kept /\ StaleInv'
    BY <1>8, BodyFailsKeeps, SettledIsFresh
<1>9. ASSUME NEW j \in Jobs, TimesOut(j) PROVE Kept /\ StaleInv'
    BY <1>9, TimedOutKeeps, SettledIsFresh
<1>10. CASE Restart
    BY <1>10, RestartedKeeps, SettledIsFresh
<1>11. ASSUME NEW j \in Jobs, Take(j) PROVE Kept /\ StaleInv'
    BY <1>11, TakenKeeps, SettledIsFresh
<1>12. ASSUME NEW j \in Jobs, Forget(j) PROVE Kept /\ StaleInv'
    BY <1>12, ForgetKeeps, SettledIsFresh
<1>13. CASE AuthChanges
    BY <1>13, AuthKeeps, SettledIsFresh
<1>14. CASE UNCHANGED vars
    <2>1. /\ UNCHANGED <<job, step, aborted, txQueue, written, missed, faults>>
          /\ UNCHANGED <<loginAge, refreshAge, valid>>
        BY <1>14 DEF vars
    <2>2. JobTypes' /\ BodyInv'
        BY <2>1, SameBodies
    <2>3. \A j \in Jobs : Open(j)' <=> Open(j)
        BY <2>1 DEF Open
    <2>4. QueueTypes' /\ QueueInv' /\ Forgetful
        BY <2>1, <2>2, <2>3, Counts, QueueUntouched
    <2>5. TypeOK'
        BY <2>1, <2>2, <2>4, Ages DEF TypeOK, JobTypes, QueueTypes, JobRec
    <2>6. Settles
        BY <2>1, <2>3 DEF Settles, AllWell
    <2> QED
        BY <2>2, <2>4, <2>5, <2>6, SettledIsFresh DEF Kept
<1> QED
    BY <1>1, <1>2, <1>3, <1>4, <1>5, <1>6, <1>7, <1>8, <1>9, <1>10, <1>11, <1>12, <1>13, <1>14
    DEF Next, Asked, BodyStep, Failure

LEMMA AllHolds == Spec => [](TypeOK /\ BodyInv /\ QueueInv /\ StaleInv)
<1>1. Init => TypeOK /\ BodyInv /\ QueueInv /\ StaleInv
    BY InitHolds
<1>2. TypeOK /\ BodyInv /\ QueueInv /\ StaleInv /\ [Next]_vars
          => (TypeOK /\ BodyInv /\ QueueInv /\ StaleInv)'
    BY StepHolds DEF Kept
<1> QED
    BY <1>1, <1>2, PTL DEF Spec

\* Whatever interleaving of attempts, timeouts and restarts has led there, an open
\* transaction belongs to a body that waits for it, and only a body that runs can have
\* been told to stop (top-stats-service.ts:439).
THEOREM TopStatsTypeCorrect == Spec => []TypeOK
    BY AllHolds, PTL

\* However many attempts overlap, none replaces what a later attempt of its job has
\* stored: a body opens its transaction only while its attempt is the latest, and the
\* transactions run in the order of the queue (top-stats-worker.ts:46-60).
THEOREM RetryNotUndoneCorrect == Spec => RetryNotUndone
<1>1. TypeOK /\ BodyInv /\ QueueInv /\ StaleInv /\ [Next]_vars
          => [\A j \in Jobs : written'[j] < written[j] => written'[j] = 0]_vars
    BY StepHolds DEF Kept, Forgetful
<1> QED
    BY <1>1, AllHolds, PTL DEF Spec, RetryNotUndone

\* With any number of jobs, attempts and failures the rankings of a user whose jobs have
\* not failed, and whose authorization was valid at each 3 AM since the last refresh, are
\* as young as the sweep's windows promise from the first 3 AM after the login on
\* (cron.ts:138-160), whatever attempts were given up and restarts happened before.
THEOREM StalenessBoundedCorrect == Spec => []StalenessBounded
<1>1. StaleInv => StalenessBounded
    BY DEF StaleInv, StalenessBounded, Quiet, Open
<1> QED
    BY <1>1, AllHolds, PTL

=============================================================================
