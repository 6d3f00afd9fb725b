------------------------ MODULE PlaylistSlotsProofs ------------------------
(***************************************************************************)
(* What PlaylistSlots guarantees for any number of requests, limits,       *)
(* attempts and faults.                                                    *)
(*                                                                         *)
(* The argument has three layers.  LifeInv says how far a request is when  *)
(* its row and its job exist, from which types and the unique key follow.  *)
(* ExcessInv bounds what is left in pendingKey by the faults so far.       *)
(* And while nothing fails, HourInv and PendingInv read each counter less  *)
(* the requests about to take their increment back: that is at least what  *)
(* requests and jobs still need, and never above the limit.                *)
(***************************************************************************)
EXTENDS PlaylistSlots, FiniteSetTheorems, TLAPS

Life(r) ==
  /\ queue[r] # "none" => rpc[r] = "accepted"
  /\ queue[r] # "none" \/ rpc[r] = "enqueue" => row[r] # "none"
  /\ queue[r] \in {"none", "waiting", "active"} => failures[r] < MaxAttempts

LifeInv == TypeOK /\ \A r \in Request : Life(r)

(* Every subset of the requests can be counted.                            *)
LEMMA Countable ==
  ASSUME NEW S \in SUBSET Request
  PROVE  /\ IsFiniteSet(S) /\ Cardinality(S) \in Nat
         /\ Cardinality(S) <= Cardinality(Request)
BY FS_Subset, FS_CardinalityType, SlotsAssumption DEF SlotsAssumption

-----------------------------------------------------------------------------
(* Type correctness.                                                       *)

LEMMA LifeInit == Init => LifeInv
BY SlotsAssumption DEF SlotsAssumption, Init, LifeInv, Life, TypeOK, Idle

LEMMA LifeRequest ==
  ASSUME LifeInv, NEW r \in Request, Serve(r)
  PROVE  LifeInv'
<1> USE DEF LifeInv, Life, TypeOK, Goto, Idle, redis, database, bull, events
<1>1. CASE Find(r)
  BY <1>1 DEF Find
<1>2. CASE IncrPending(r)
  BY <1>2 DEF IncrPending
<1>3. CASE RollBack(r)
  BY <1>3 DEF RollBack
<1>4. CASE IncrHourly(r)
  BY <1>4 DEF IncrHourly
<1>5. CASE UndoPending(r)
  BY <1>5 DEF UndoPending
<1>6. CASE UndoHourly(r)
  BY <1>6 DEF UndoHourly
<1>7. CASE Fallback(r)
  BY <1>7, SlotsAssumption DEF Fallback, Fault, SlotsAssumption
<1>8. CASE Create(r)
  BY <1>8 DEF Create
<1>9. CASE Enqueue(r)
  BY <1>9 DEF Enqueue
<1>10. CASE RequestFails(r)
  BY <1>10, SlotsAssumption DEF RequestFails, Fault, SlotsAssumption
<1>11. CASE Cancel(r)
  BY <1>11 DEF Cancel
<1> QED
  BY <1>1, <1>2, <1>3, <1>4, <1>5, <1>6, <1>7, <1>8, <1>9, <1>10, <1>11 DEF Serve

LEMMA LifeWork ==
  ASSUME LifeInv, NEW r \in Request, Work(r)
  PROVE  LifeInv'
<1> USE DEF LifeInv, Life, TypeOK, Idle, redis, database, bull, events
<1>1. CASE Begin(r)
  BY <1>1 DEF Begin
<1>2. CASE Succeed(r)
  BY <1>2 DEF Succeed
<1>3. CASE Fail(r)
  BY <1>3, SlotsAssumption DEF Fail, SlotsAssumption
<1> QED
  BY <1>1, <1>2, <1>3 DEF Work

LEMMA LifeCrash == ASSUME LifeInv, Crash PROVE LifeInv'
<1> USE DEF LifeInv, Life, TypeOK, Idle, Crash, Fault, redis, database, bull, events
<1>1. releases' \in Nat
  BY Countable
<1>2. faults' \in 0..MaxFaults /\ stalls' \in [Request -> Nat] /\ resets' \in Nat
  BY SlotsAssumption DEF SlotsAssumption
<1> QED
  BY <1>1, <1>2

LEMMA LifeNext == LifeInv /\ [Next]_vars => LifeInv'
<1> SUFFICES ASSUME LifeInv, [Next]_vars PROVE LifeInv'
  OBVIOUS
<1>1. CASE \E r \in Request : Serve(r) \/ Work(r)
  BY <1>1, LifeRequest, LifeWork
<1>2. CASE Release \/ Reset
  BY <1>2 DEF Release, Reset, LifeInv, Life, TypeOK, redis, database, bull, events
<1>3. CASE PendingKeyExpires \/ HourPasses
  BY <1>3, SlotsAssumption
     DEF SlotsAssumption, PendingKeyExpires, HourPasses, Fault, LifeInv, Life, TypeOK,
         redis, database, bull, events
<1>4. CASE Crash
  BY <1>4, LifeCrash
<1>5. CASE UNCHANGED vars
  BY <1>5 DEF vars, LifeInv, Life, TypeOK, redis, database, bull, events
<1> QED
  BY <1>1, <1>2, <1>3, <1>4, <1>5 DEF Next

LEMMA AlwaysLife == Spec => []LifeInv
BY LifeInit, LifeNext, PTL DEF Spec

(* Every variable keeps its type: attempts never exceed MaxAttempts, and   *)
(* the counters stay integers (rate-limiter.ts:180-248).                   *)
THEOREM TypeCorrect == Spec => []TypeOK
<1>1. LifeInv => TypeOK
  BY DEF LifeInv
<1> QED
  BY <1>1, AlwaysLife, PTL

-----------------------------------------------------------------------------
(* One job for each token.                                                 *)

(* Only Create gives a request its row, and only if no other with the same *)
(* token has one.                                                          *)
LEMMA UniqueNext ==
  ASSUME LifeInv, OneJobPerToken, [Next]_vars
  PROVE  OneJobPerToken'
<1>1. CASE \E r \in Request : Create(r)
  <2>1. PICK r \in Request : Create(r)
    BY <1>1
  <2> QED
    BY <2>1 DEF Create, KeyTaken, OneJobPerToken, LifeInv, TypeOK, database
<1>2. CASE \A q \in Request : (row'[q] # "none") => (row[q] # "none")
  <2>1. token' = token
    BY DEF Next, vars, Serve, Work, Find, IncrPending, RollBack, IncrHourly, UndoPending,
           UndoHourly, Fallback, Create, Enqueue, RequestFails, Cancel, Begin, Succeed,
           Fail, Release, Reset, PendingKeyExpires, HourPasses, Crash
  <2> QED
    BY <1>2, <2>1 DEF OneJobPerToken
<1>3. CASE \E r \in Request : (Serve(r) \/ Work(r)) /\ ~Create(r)
  <2>1. PICK r \in Request : (Serve(r) \/ Work(r)) /\ ~Create(r)
    BY <1>3
  <2>2. ASSUME NEW q \in Request, row'[q] # "none" PROVE row[q] # "none"
    <3>1. CASE row' = row
      BY <2>2, <3>1
    <3>2. CASE Cancel(r) \/ Work(r)
      BY <2>2, <3>2
         DEF Cancel, Work, Begin, Succeed, Fail, LifeInv, Life, TypeOK
    <3> QED
      BY <2>1, <3>1, <3>2
         DEF Serve, Find, IncrPending, RollBack, IncrHourly, UndoPending, UndoHourly,
             Fallback, Enqueue, RequestFails, database
  <2> QED
    BY <1>2, <2>2
<1>4. CASE Release \/ Reset \/ PendingKeyExpires \/ HourPasses \/ Crash \/ UNCHANGED vars
  <2>1. row' = row
    BY <1>4 DEF Release, Reset, PendingKeyExpires, HourPasses, Crash, vars, database
  <2> QED
    BY <1>2, <2>1
<1> QED
  BY <1>1, <1>3, <1>4 DEF Next

(* However requests that repeat each other interleave, one token makes one *)
(* job (playlists.ts:324).                                                 *)
THEOREM OneJobPerTokenCorrect == Spec => []OneJobPerToken
<1>1. Init => OneJobPerToken
  BY DEF Init, OneJobPerToken
<1>2. LifeInv /\ OneJobPerToken /\ [Next]_vars => OneJobPerToken'
  BY UniqueNext
<1> QED
  BY <1>1, <1>2, AlwaysLife, PTL DEF Spec

-----------------------------------------------------------------------------
(* What faults leave in pendingKey.                                        *)

At(places) == {r \in Request : rpc[r] \in places}

Excess == faults * Cardinality(Request)

ExcessInv == slots <= MaxPending + Excess + Cardinality(At({"rollback"}))

LEMMA ExcessIsNat == ASSUME LifeInv PROVE Excess \in Nat
<1>1. Cardinality(Request) \in Nat
  BY Countable
<1>2. faults \in Nat
  BY SlotsAssumption DEF SlotsAssumption, LifeInv, TypeOK
<1> QED
  BY <1>1, <1>2 DEF Excess

(* A fault pays for every request whose increment it may have left behind. *)
LEMMA ExcessGrows ==
  ASSUME LifeInv, Fault
  PROVE  Excess' = Excess + Cardinality(Request)
<1>1. Cardinality(Request) \in Nat
  BY Countable
<1>2. faults \in Nat /\ faults' = faults + 1
  BY SlotsAssumption DEF SlotsAssumption, LifeInv, TypeOK, Fault
<1> QED
  BY <1>1, <1>2 DEF Excess

(* How At changes when one request moves on.                               *)
LEMMA Moved ==
  ASSUME LifeInv, NEW r \in Request, NEW s, Goto(r, s), NEW places
  PROVE  /\ s \in places => At(places)' = At(places) \union {r}
         /\ s \notin places => At(places)' = At(places) \ {r}
BY DEF LifeInv, TypeOK, Goto, At

(* And how that changes their number.                                      *)
LEMMA OneMore ==
  ASSUME NEW S \in SUBSET Request, NEW r \in Request
  PROVE  /\ Cardinality(S) \in Nat
         /\ Cardinality(S \union {r}) \in Nat
         /\ Cardinality(S \ {r}) \in Nat
         /\ Cardinality(S \union {r}) = IF r \in S THEN Cardinality(S) ELSE Cardinality(S) + 1
         /\ Cardinality(S \ {r}) = IF r \in S THEN Cardinality(S) - 1 ELSE Cardinality(S)
<1>1. S \union {r} \in SUBSET Request /\ S \ {r} \in SUBSET Request
  OBVIOUS
<1> QED
  BY <1>1, Countable, FS_AddElement, FS_RemoveElement

LEMMA ExcessRequest ==
  ASSUME LifeInv, ExcessInv, NEW r \in Request, Serve(r)
  PROVE  ExcessInv'
<1> DEFINE B == At({"rollback"})
<1>1. /\ Cardinality(B) \in Nat /\ Cardinality(B \ {r}) \in Nat
      /\ Cardinality(B \union {r}) = IF r \in B THEN Cardinality(B) ELSE Cardinality(B) + 1
      /\ Cardinality(B \ {r}) = IF r \in B THEN Cardinality(B) - 1 ELSE Cardinality(B)
  BY OneMore DEF At
<1>2. slots \in Int /\ Excess \in Nat /\ MaxPending \in Nat
  BY ExcessIsNat, SlotsAssumption DEF SlotsAssumption, LifeInv, TypeOK
<1>3. r \in B <=> rpc[r] = "rollback"
  BY DEF At
<1>a. slots <= MaxPending + Excess + Cardinality(B)
  BY DEF ExcessInv
<1>b. SUFFICES slots' <= MaxPending + Excess' + Cardinality(B')
  BY DEF ExcessInv
<1>c. faults' = faults => Excess' = Excess
  BY DEF Excess
<1> HIDE DEF B
<1>4. CASE IncrPending(r)
  <2>1. CASE slots + 1 > MaxPending
    <3>1. B' = B \union {r}
      BY <1>4, <2>1, Moved DEF IncrPending, B
    <3>2. slots' = slots + 1 /\ Excess' = Excess /\ r \notin B
      BY <1>3, <1>4, <1>c DEF IncrPending
    <3>3. Cardinality(B') = Cardinality(B) + 1
      BY <1>1, <3>1, <3>2
    <3> QED
      BY <1>1, <1>2, <1>a, <3>2, <3>3
  <2>2. CASE ~(slots + 1 > MaxPending)
    <3>1. B' = B \ {r}
      BY <1>4, <2>2, Moved DEF IncrPending, B
    <3>2. slots' = slots + 1 /\ Excess' = Excess /\ r \notin B
      BY <1>3, <1>4, <1>c DEF IncrPending
    <3>3. Cardinality(B') = Cardinality(B)
      BY <1>1, <3>1, <3>2
    <3> QED
      BY <1>1, <1>2, <2>2, <3>2, <3>3
  <2> QED
    BY <2>1, <2>2
<1>5. CASE RollBack(r) \/ UndoPending(r)
  <2>1. B' = B \ {r}
    BY <1>5, Moved DEF RollBack, UndoPending, B
  <2>2. slots' = slots - 1 /\ Excess' = Excess
    BY <1>5, <1>c DEF RollBack, UndoPending
  <2>3. Cardinality(B') \in Nat /\ Cardinality(B') >= Cardinality(B) - 1
    BY <1>1, <2>1
  <2> QED
    BY <1>1, <1>2, <1>a, <2>2, <2>3
<1>6. CASE Fallback(r) \/ RequestFails(r)
  <2>1. B' = B \ {r}
    BY <1>6, Moved DEF Fallback, RequestFails, B
  <2>2. Excess' = Excess + Cardinality(Request)
    BY <1>6, ExcessGrows DEF Fallback, RequestFails
  <2>3. Cardinality(Request) \in Nat /\ Cardinality(Request) >= 1
    <3>1. IsFiniteSet(Request) /\ Request # {}
      BY SlotsAssumption DEF SlotsAssumption
    <3> QED
      BY <3>1, FS_EmptySet, FS_CardinalityType
  <2>4. slots' = slots
    BY <1>6 DEF Fallback, RequestFails, redis
  <2>5. Cardinality(B') \in Nat /\ Cardinality(B') >= Cardinality(B) - 1
    BY <1>1, <2>1
  <2> QED
    BY <1>1, <1>2, <1>a, <2>2, <2>3, <2>4, <2>5
<1>7. CASE Find(r) \/ IncrHourly(r) \/ UndoHourly(r) \/ Create(r) \/ Enqueue(r)
  <2>1. B' = B /\ slots' = slots /\ faults' = faults
    <3>1. B' = B \ {r} /\ r \notin B
      BY <1>7, <1>3, Moved DEF Find, IncrHourly, UndoHourly, Create, Enqueue, B
    <3> QED
      BY <1>7, <3>1 DEF Find, IncrHourly, UndoHourly, Create, Enqueue, redis
  <2> QED
    BY <2>1, <1>a, <1>c
<1>8. CASE Cancel(r)
  BY <1>8, <1>a, <1>c DEF Cancel, At, B, redis
<1> QED
  BY <1>4, <1>5, <1>6, <1>7, <1>8 DEF Serve

LEMMA ExcessNext == LifeInv /\ ExcessInv /\ [Next]_vars => ExcessInv'
<1> SUFFICES ASSUME LifeInv, ExcessInv, [Next]_vars PROVE ExcessInv'
  OBVIOUS
<1>1. /\ Cardinality(At({"rollback"})) \in Nat
      /\ Cardinality(At({"rollback"})) <= Cardinality(Request)
      /\ Cardinality(Request) \in Nat /\ Cardinality(At({"rollback"})') \in Nat
  BY Countable DEF At
<1>2. slots \in Int /\ Excess \in Nat /\ MaxPending \in Nat
  BY ExcessIsNat, SlotsAssumption DEF SlotsAssumption, LifeInv, TypeOK
<1>3. CASE \E r \in Request : Serve(r)
  BY <1>3, ExcessRequest
<1>4. CASE \E r \in Request : Work(r)
  BY <1>4 DEF Work, Begin, Succeed, Fail, ExcessInv, Excess, At, redis
<1>5. CASE Release \/ Reset
  <2>1. At({"rollback"})' = At({"rollback"}) /\ Excess' = Excess
    BY <1>5 DEF Release, Reset, At, Excess
  <2>2. slots' = slots - 1 \/ slots' = 0
    BY <1>5 DEF Release, Reset
  <2> QED
    BY <1>1, <1>2, <2>1, <2>2 DEF ExcessInv
<1>6. CASE PendingKeyExpires \/ HourPasses \/ Crash
  <2>1. Excess' = Excess + Cardinality(Request)
    BY <1>6, ExcessGrows DEF PendingKeyExpires, HourPasses, Crash
  <2>2. slots' = slots \/ slots' = 0
    BY <1>6 DEF PendingKeyExpires, HourPasses, Crash, redis
  <2> QED
    BY <1>1, <1>2, <2>1, <2>2 DEF ExcessInv
<1>7. CASE UNCHANGED vars
  BY <1>7 DEF vars, redis, ExcessInv, Excess, At
<1> QED
  BY <1>3, <1>4, <1>5, <1>6, <1>7 DEF Next

(* Whatever fails, the counter is above the limit only by increments that  *)
(* are about to be taken back or whose taking back has failed              *)
(* (rate-limiter.ts:193-225).                                              *)
THEOREM SlotsWithinLimitCorrect == Spec => []SlotsWithinLimit
<1>1. Init => ExcessInv
  <2>1. At({"rollback"}) \in SUBSET Request
    BY DEF At
  <2>2. Cardinality(At({"rollback"})) \in Nat /\ Cardinality(Request) \in Nat
    BY <2>1, Countable
  <2> QED
    BY <2>2, SlotsAssumption DEF SlotsAssumption, Init, ExcessInv, Excess
<1>2. ExcessInv => SlotsWithinLimit
  <2>1. At({"rollback"}) = {r \in Request : rpc[r] = "rollback"}
    BY DEF At
  <2> QED
    BY <2>1 DEF ExcessInv, Excess, SlotsWithinLimit
<1> QED
  BY <1>1, <1>2, ExcessNext, AlwaysLife, PTL DEF Spec

-----------------------------------------------------------------------------
(* The hourly limit.                                                       *)

Undoing == At({"undoPending", "undoHourly"})
Hour    == recent \union At({"create"})

HourInv ==
  faults = 0 => /\ Cardinality(Hour) + Cardinality(Undoing) <= hourly
                /\ hourly <= MaxHourly + Cardinality(Undoing)

LEMMA HourRequest ==
  ASSUME LifeInv, HourInv, faults = 0, NEW r \in Request, Serve(r), faults' = 0
  PROVE  HourInv'
<1> DEFINE H == Hour  U == Undoing
<1>1. /\ Cardinality(H) \in Nat
      /\ Cardinality(H \union {r}) = IF r \in H THEN Cardinality(H) ELSE Cardinality(H) + 1
      /\ Cardinality(H \ {r}) = IF r \in H THEN Cardinality(H) - 1 ELSE Cardinality(H)
  BY OneMore DEF Hour, At, LifeInv, TypeOK
<1>2. /\ Cardinality(U) \in Nat
      /\ Cardinality(U \union {r}) = IF r \in U THEN Cardinality(U) ELSE Cardinality(U) + 1
      /\ Cardinality(U \ {r}) = IF r \in U THEN Cardinality(U) - 1 ELSE Cardinality(U)
  BY OneMore DEF Undoing, At
<1>3. hourly \in Int /\ MaxHourly \in Nat
  BY SlotsAssumption DEF SlotsAssumption, LifeInv, TypeOK
<1>4. Cardinality(H) + Cardinality(U) <= hourly /\ hourly <= MaxHourly + Cardinality(U)
  BY DEF HourInv
<1>5. SUFFICES /\ Cardinality(H') + Cardinality(U') <= hourly'
               /\ hourly' <= MaxHourly + Cardinality(U')
  BY DEF HourInv
<1>6. /\ r \in U <=> rpc[r] \in {"undoPending", "undoHourly"}
      /\ rpc[r] = "create" => r \in H
  BY DEF Undoing, Hour, At
<1>7. ~Fault
  BY DEF Fault
<1> HIDE DEF H, U
<1>8. CASE IncrHourly(r)
  <2>1. hourly' = hourly + 1 /\ r \notin U
    BY <1>6, <1>8 DEF IncrHourly
  <2>2. CASE hourly + 1 > MaxHourly
    <3>1. H' = H \ {r} \/ H' = H
      BY <1>8, <2>2, Moved DEF IncrHourly, H, Hour, database, LifeInv, TypeOK
    <3>2. U' = U \union {r}
      BY <1>8, <2>2, Moved DEF IncrHourly, U, Undoing
    <3>3. Cardinality(H') <= Cardinality(H) /\ Cardinality(H') \in Nat
      BY <1>1, <3>1, OneMore DEF H, Hour, At, LifeInv, TypeOK
    <3> QED
      BY <1>1, <1>2, <1>3, <1>4, <2>1, <3>2, <3>3
  <2>3. CASE ~(hourly + 1 > MaxHourly)
    <3>1. H' = H \union {r}
      BY <1>8, <2>3, Moved DEF IncrHourly, H, Hour, database
    <3>2. U' = U
      <4>1. U' = U \ {r}
        BY <1>8, <2>3, Moved DEF IncrHourly, U, Undoing
      <4> QED
        BY <4>1, <2>1
    <3> QED
      BY <1>1, <1>2, <1>3, <1>4, <2>1, <2>3, <3>1, <3>2
  <2> QED
    BY <2>2, <2>3
<1>9. CASE UndoHourly(r)
  <2>1. hourly' = hourly - 1 /\ r \in U
    BY <1>6, <1>9 DEF UndoHourly
  <2>2. U' = U \ {r}
    BY <1>9, Moved DEF UndoHourly, U, Undoing
  <2>3. H' = H
    BY <1>9 DEF UndoHourly, Goto, H, Hour, At, database, LifeInv, TypeOK
  <2> QED
    BY <1>1, <1>2, <1>3, <1>4, <2>1, <2>2, <2>3
<1>10. CASE Create(r)
  <2>1. H' = H \ {r} \/ H' = H
    BY <1>10, Moved DEF Create, Goto, H, Hour, At, database, LifeInv, TypeOK
  <2>2. U' = U /\ hourly' = hourly
    BY <1>10 DEF Create, Goto, U, Undoing, At, redis, LifeInv, TypeOK
  <2> QED
    BY <1>1, <1>2, <1>3, <1>4, <2>1, <2>2
<1>11. CASE UndoPending(r)
  BY <1>11, <1>4
     DEF UndoPending, Goto, H, Hour, U, Undoing, At, database, LifeInv, TypeOK
<1>12. CASE Find(r) \/ IncrPending(r) \/ RollBack(r) \/ Enqueue(r)
  <2>1. hourly' = hourly /\ recent' = recent
    BY <1>12 DEF Find, IncrPending, RollBack, Enqueue, database, redis
  <2>2. PICK s : Goto(r, s) /\ s \notin {"create", "undoPending", "undoHourly"}
    BY <1>12 DEF Find, IncrPending, RollBack, Enqueue
  <2>3. rpc[r] \notin {"create", "undoPending", "undoHourly"}
    BY <1>12 DEF Find, IncrPending, RollBack, Enqueue
  <2>4. H' = H /\ U' = U
    BY <2>1, <2>2, <2>3 DEF Goto, H, Hour, U, Undoing, At, LifeInv, TypeOK
  <2> QED
    BY <1>4, <2>1, <2>4
<1>13. CASE Cancel(r)
  BY <1>13, <1>4 DEF Cancel, H, Hour, U, Undoing, At, redis
<1> QED
  BY <1>7, <1>8, <1>9, <1>10, <1>11, <1>12, <1>13 DEF Serve, Fallback, RequestFails

LEMMA HourNext == LifeInv /\ HourInv /\ [Next]_vars => HourInv'
<1> SUFFICES ASSUME LifeInv, HourInv, [Next]_vars, faults' = 0 PROVE HourInv'
  BY DEF HourInv
<1>1. faults \in Nat
  BY SlotsAssumption DEF SlotsAssumption, LifeInv, TypeOK
<1>2. ~Fault
  BY <1>1 DEF Fault
<1>3. CASE \E r \in Request : Serve(r)
  <2>1. PICK r \in Request : Serve(r)
    BY <1>3
  <2>2. faults = 0
    BY <1>2, <2>1
       DEF Serve, Find, IncrPending, RollBack, IncrHourly, UndoPending, UndoHourly,
           Fallback, Create, Enqueue, RequestFails, Cancel
  <2> QED
    BY <2>1, <2>2, HourRequest
<1>4. CASE \E r \in Request : Work(r)
  BY <1>4
     DEF Work, Begin, Succeed, Fail, HourInv, Hour, Undoing, At, redis
<1>5. CASE Release \/ Reset
  BY <1>5 DEF Release, Reset, HourInv, Hour, Undoing, At, database
<1>6. CASE UNCHANGED vars
  BY <1>6 DEF vars, redis, database, HourInv, Hour, Undoing, At
<1> QED
  BY <1>2, <1>3, <1>4, <1>5, <1>6 DEF Next, PendingKeyExpires, HourPasses, Crash

-----------------------------------------------------------------------------
(* The limit on jobs under way.                                            *)

Returning == At({"rollback", "undoPending"})

NoneFailed == \A r \in Request : failures[r] = 0

PendingInv ==
  faults = 0 /\ NoneFailed =>
    /\ resets = 0
    /\ Cardinality(Admitted) + releases + Cardinality(Returning) <= slots
    /\ slots <= MaxPending + Cardinality(Returning)

LEMMA PendingRequest ==
  ASSUME LifeInv, PendingInv, faults = 0, NoneFailed, NEW r \in Request, Serve(r), faults' = 0
  PROVE  PendingInv'
<1> DEFINE A == Admitted  R == Returning
<1>1. /\ Cardinality(A) \in Nat /\ Cardinality(A \ {r}) \in Nat
      /\ Cardinality(A \union {r}) = IF r \in A THEN Cardinality(A) ELSE Cardinality(A) + 1
      /\ Cardinality(A \ {r}) = IF r \in A THEN Cardinality(A) - 1 ELSE Cardinality(A)
  BY OneMore DEF Admitted
<1>2. /\ Cardinality(R) \in Nat
      /\ Cardinality(R \union {r}) = IF r \in R THEN Cardinality(R) ELSE Cardinality(R) + 1
      /\ Cardinality(R \ {r}) = IF r \in R THEN Cardinality(R) - 1 ELSE Cardinality(R)
  BY OneMore DEF Returning, At
<1>3. slots \in Int /\ MaxPending \in Nat /\ releases \in Nat
  BY SlotsAssumption DEF SlotsAssumption, LifeInv, TypeOK
<1>4. /\ resets = 0
      /\ Cardinality(A) + releases + Cardinality(R) <= slots
      /\ slots <= MaxPending + Cardinality(R)
  BY DEF PendingInv
<1>5. ~Fault
  BY DEF Fault
<1>6. resets' = resets /\ releases' = releases
  BY <1>5 DEF Serve, Find, IncrPending, RollBack, IncrHourly, UndoPending, UndoHourly,
              Fallback, Create, Enqueue, RequestFails, Cancel, events
<1>7. SUFFICES /\ Cardinality(A') + releases + Cardinality(R') <= slots'
               /\ slots' <= MaxPending + Cardinality(R')
  BY <1>4, <1>6 DEF PendingInv
<1>8. /\ r \in R <=> rpc[r] \in {"rollback", "undoPending"}
      /\ rpc[r] \in {"hour", "create", "enqueue"} => r \in A
      /\ rpc[r] = "incr" => r \notin A
  BY DEF Returning, At, Admitted, LifeInv, Life, TypeOK
<1> HIDE DEF A, R
<1>9. CASE IncrPending(r)
  <2>1. slots' = slots + 1 /\ r \notin R /\ r \notin A
    BY <1>8, <1>9 DEF IncrPending
  <2>2. CASE slots + 1 > MaxPending
    <3>1. R' = R \union {r}
      BY <1>9, <2>2, Moved DEF IncrPending, R, Returning
    <3>2. A' = A
      BY <1>9, <2>2 DEF IncrPending, Goto, A, Admitted, bull, LifeInv, TypeOK
    <3> QED
      BY <1>1, <1>2, <1>3, <1>4, <2>1, <3>1, <3>2
  <2>3. CASE ~(slots + 1 > MaxPending)
    <3>1. R' = R
      BY <1>9, <2>3 DEF IncrPending, Goto, R, Returning, At, LifeInv, TypeOK
    <3>2. A' = A \union {r}
      BY <1>9, <2>3 DEF IncrPending, Goto, A, Admitted, bull, LifeInv, TypeOK
    <3> QED
      BY <1>1, <1>2, <1>3, <1>4, <2>1, <2>3, <3>1, <3>2
  <2> QED
    BY <2>2, <2>3
<1>10. CASE RollBack(r) \/ UndoPending(r)
  <2>1. slots' = slots - 1 /\ r \in R
    BY <1>8, <1>10 DEF RollBack, UndoPending
  <2>2. R' = R \ {r}
    BY <1>10, Moved DEF RollBack, UndoPending, R, Returning
  <2>3. A' = A
    BY <1>10 DEF RollBack, UndoPending, Goto, A, Admitted, bull, LifeInv, TypeOK
  <2> QED
    BY <1>1, <1>2, <1>3, <1>4, <2>1, <2>2, <2>3
<1>11. CASE IncrHourly(r)
  <2>1. slots' = slots /\ r \in A /\ r \notin R
    BY <1>8, <1>11 DEF IncrHourly
  <2>2. CASE hourly + 1 > MaxHourly
    <3>1. R' = R \union {r}
      BY <1>11, <2>2, Moved DEF IncrHourly, R, Returning
    <3>2. A' = A \ {r}
      BY <1>11, <2>2
         DEF IncrHourly, Goto, A, Admitted, bull, LifeInv, Life, TypeOK
    <3> QED
      BY <1>1, <1>2, <1>3, <1>4, <2>1, <3>1, <3>2
  <2>3. CASE ~(hourly + 1 > MaxHourly)
    <3>1. A' = A /\ R' = R
      BY <1>11, <2>3
         DEF IncrHourly, Goto, A, Admitted, R, Returning, At, bull, LifeInv, TypeOK
    <3> QED
      BY <1>4, <2>1, <3>1
  <2> QED
    BY <2>2, <2>3
<1>12. CASE Create(r) \/ Enqueue(r) \/ Cancel(r)
  <2>1. A' = A \ {r} \/ A' = A
    <3>1. CASE Create(r)
      BY <3>1 DEF Create, Goto, A, Admitted, bull, LifeInv, Life, TypeOK
    <3>2. CASE Enqueue(r)
      BY <3>2 DEF Enqueue, Goto, A, Admitted, LifeInv, Life, TypeOK
    <3>3. CASE Cancel(r)
      BY <3>3 DEF Cancel, A, Admitted, LifeInv, Life, TypeOK
    <3> QED
      BY <1>12, <3>1, <3>2, <3>3
  <2>2. R' = R /\ slots' = slots
    BY <1>12
       DEF Create, Enqueue, Cancel, Goto, R, Returning, At, redis, LifeInv, TypeOK
  <2>3. Cardinality(A') <= Cardinality(A) /\ Cardinality(A') \in Nat
    <3>1. CASE A' = A
      BY <1>1, <3>1
    <3>2. CASE A' = A \ {r}
      BY <1>1, <3>2
    <3> QED
      BY <2>1, <3>1, <3>2
  <2> QED
    BY <1>1, <1>2, <1>3, <1>4, <2>2, <2>3
<1>13. CASE Find(r) \/ UndoHourly(r)
  BY <1>13, <1>4
     DEF Find, UndoHourly, Goto, A, Admitted, R, Returning, At, redis, bull, LifeInv, TypeOK
<1> QED
  BY <1>5, <1>9, <1>10, <1>11, <1>12, <1>13 DEF Serve, Fallback, RequestFails

LEMMA PendingWork ==
  ASSUME LifeInv, PendingInv, faults = 0, NoneFailed, NEW r \in Request, Work(r), NoneFailed'
  PROVE  PendingInv'
<1>1. ~Fail(r)
  <2>1. SUFFICES ASSUME failures' = [failures EXCEPT ![r] = @ + 1] PROVE FALSE
    BY DEF Fail
  <2>2. failures'[r] = 1
    BY <2>1 DEF NoneFailed, LifeInv, TypeOK
  <2> QED
    BY <2>2 DEF NoneFailed
<1>2. CASE Begin(r)
  BY <1>2 DEF Begin, PendingInv, Admitted, Returning, At, redis, events, LifeInv, TypeOK,
              NoneFailed
<1>3. CASE Succeed(r)
  <2>1. Admitted' = Admitted \ {r} /\ r \in Admitted
    BY <1>3 DEF Succeed, Admitted, LifeInv, Life, TypeOK
  <2>2. Cardinality(Admitted') = Cardinality(Admitted) - 1 /\ Cardinality(Admitted) \in Nat
    <3>1. Admitted \in SUBSET Request
      BY DEF Admitted
    <3> QED
      BY <2>1, <3>1, OneMore
  <2>3. releases' = releases + 1 /\ releases \in Nat /\ slots' = slots /\ resets' = resets
        /\ Returning' = Returning
    BY <1>3 DEF Succeed, redis, Returning, At, LifeInv, TypeOK
  <2>4. Cardinality(Returning) \in Nat /\ slots \in Int
    BY Countable DEF Returning, At, LifeInv, TypeOK
  <2>5. Cardinality(Admitted') + releases' = Cardinality(Admitted) + releases
    BY <2>2, <2>3
  <2>6. /\ resets = 0
        /\ Cardinality(Admitted) + releases + Cardinality(Returning) <= slots
        /\ slots <= MaxPending + Cardinality(Returning)
    BY DEF PendingInv
  <2> QED
    BY <2>3, <2>4, <2>5, <2>6 DEF PendingInv
<1> QED
  BY <1>1, <1>2, <1>3 DEF Work

LEMMA PendingNext == LifeInv /\ PendingInv /\ [Next]_vars => PendingInv'
<1> SUFFICES ASSUME LifeInv, PendingInv, [Next]_vars, faults' = 0, NoneFailed'
             PROVE  PendingInv'
  BY DEF PendingInv
<1>1. ~Fault
  BY SlotsAssumption DEF SlotsAssumption, LifeInv, TypeOK, Fault
<1>2. CASE \E r \in Request : Serve(r)
  <2>1. PICK r \in Request : Serve(r)
    BY <1>2
  <2>2. faults = 0 /\ failures' = failures
    BY <1>1, <2>1
       DEF Serve, Find, IncrPending, RollBack, IncrHourly, UndoPending, UndoHourly,
           Fallback, Create, Enqueue, RequestFails, Cancel, bull
  <2>3. NoneFailed
    BY <2>2 DEF NoneFailed
  <2> QED
    BY <2>1, <2>2, <2>3, PendingRequest
<1>3. CASE \E r \in Request : Work(r)
  <2>1. PICK r \in Request : Work(r)
    BY <1>3
  <2>2. faults = 0
    BY <2>1 DEF Work, Begin, Succeed, Fail
  <2>3. NoneFailed
    BY <2>1, SlotsAssumption
       DEF Work, Begin, Succeed, Fail, NoneFailed, LifeInv, TypeOK, SlotsAssumption
  <2> QED
    BY <2>1, <2>2, <2>3, PendingWork
<1>4. CASE Release
  <2>1. faults = 0 /\ NoneFailed
    BY <1>4 DEF Release, bull, NoneFailed
  <2>2. Admitted' = Admitted /\ Returning' = Returning
    BY <1>4 DEF Release, bull, Admitted, Returning, At
  <2>3. /\ Cardinality(Admitted) \in Nat /\ Cardinality(Returning) \in Nat
        /\ releases \in Nat /\ slots \in Int /\ MaxPending \in Nat
    BY Countable, SlotsAssumption
       DEF Admitted, Returning, At, LifeInv, TypeOK, SlotsAssumption
  <2>4. /\ resets = 0
        /\ Cardinality(Admitted) + releases + Cardinality(Returning) <= slots
        /\ slots <= MaxPending + Cardinality(Returning)
    BY <2>1 DEF PendingInv
  <2>5. releases > 0 /\ releases' = releases - 1 /\ slots' = slots - 1
    BY <1>4 DEF Release
  <2>6. resets' = 0
    BY <1>4, <2>3, <2>4, <2>5 DEF Release
  <2>7. /\ Cardinality(Admitted) + releases' + Cardinality(Returning) <= slots'
        /\ slots' <= MaxPending + Cardinality(Returning)
    BY <2>3, <2>4, <2>5
  <2> QED
    BY <2>2, <2>6, <2>7 DEF PendingInv
<1>5. CASE Reset
  <2>1. faults = 0 /\ NoneFailed
    BY <1>5 DEF Reset, bull, NoneFailed
  <2> QED
    BY <1>5, <2>1 DEF Reset, PendingInv
<1>6. CASE UNCHANGED vars
  BY <1>6 DEF vars, redis, bull, events, PendingInv, NoneFailed, Admitted, Returning, At
<1> QED
  BY <1>1, <1>2, <1>3, <1>4, <1>5, <1>6 DEF Next, PendingKeyExpires, HourPasses, Crash

(* However requests, cancellations and completions interleave, no more     *)
(* than MaxPending jobs are under way while none fails, and no more than   *)
(* MaxHourly made in the hour, without faults (rate-limiter.ts:186-212).   *)
THEOREM LimitsHoldCorrect == Spec => []LimitsHold
<1>1. Init => HourInv /\ PendingInv
  <2>1. SUFFICES ASSUME Init PROVE HourInv /\ PendingInv
    OBVIOUS
  <2>2. Hour = {} /\ Undoing = {} /\ Admitted = {} /\ Returning = {}
    BY <2>1 DEF Init, Hour, Undoing, Admitted, Returning, At
  <2> QED
    BY <2>1, <2>2, FS_EmptySet, SlotsAssumption
       DEF Init, HourInv, PendingInv, SlotsAssumption
<1>2. LifeInv /\ HourInv /\ PendingInv => LimitsHold
  <2>1. SUFFICES ASSUME LifeInv, HourInv, PendingInv, faults = 0 PROVE LimitsHold
    BY DEF LimitsHold
  <2>2. /\ Hour \in SUBSET Request /\ Undoing \in SUBSET Request
        /\ Admitted \in SUBSET Request /\ Returning \in SUBSET Request
    BY <2>1 DEF Hour, Undoing, Admitted, Returning, At, LifeInv, TypeOK
  <2>3. Cardinality(recent) <= MaxHourly
    <3>1. IsFiniteSet(Hour) /\ recent \subseteq Hour
      BY <2>2, Countable DEF Hour
    <3>2. Cardinality(recent) <= Cardinality(Hour) /\ Cardinality(recent) \in Nat
      BY <3>1, FS_Subset, FS_CardinalityType
    <3>3. Cardinality(Hour) \in Nat /\ Cardinality(Undoing) \in Nat
      BY <2>2, Countable
    <3>4. hourly \in Int /\ MaxHourly \in Nat
      BY <2>1, SlotsAssumption DEF LifeInv, TypeOK, SlotsAssumption
    <3> QED
      BY <2>1, <3>2, <3>3, <3>4 DEF HourInv
  <2>4. ASSUME NoneFailed PROVE Cardinality(Admitted) <= MaxPending
    <3>1. Cardinality(Admitted) \in Nat /\ Cardinality(Returning) \in Nat
      BY <2>2, Countable
    <3>2. slots \in Int /\ MaxPending \in Nat /\ releases \in Nat
      BY <2>1, SlotsAssumption DEF LifeInv, TypeOK, SlotsAssumption
    <3> QED
      BY <2>1, <2>4, <3>1, <3>2 DEF PendingInv
  <2> QED
    BY <2>3, <2>4 DEF LimitsHold, NoneFailed
<1> QED
  BY <1>1, <1>2, HourNext, PendingNext, AlwaysLife, PTL DEF Spec

=============================================================================
