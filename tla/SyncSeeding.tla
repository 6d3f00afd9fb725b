---------------------------- MODULE SyncSeeding ----------------------------
(***************************************************************************)
(* Whether anybody asks for the sync jobs of ListeningIngestion.           *)
(*                                                                         *)
(* The cron job seeds a user every five minutes whose authorization is     *)
(* valid and who has never been ingested, or has logged in within the last *)
(* seven days (routes/cron.ts 76-88).  Everybody else waits for a login,   *)
(* which makes the user eligible and queues a job of its own.  The         *)
(* authorization is invalidated by the workers and by token refreshes, and *)
(* a refresh that was under way may store it as valid again.               *)
(***************************************************************************)
EXTENDS ListeningIngestion

VARIABLE
  user  \* "recent" or "away": the last login is at most seven days ago, or
        \* longer; "invalid": auth.isValid is false, whenever the login was

SeedInit == Init /\ user = "recent"

\* The where-clause of seed-sync; the cooldown passes.
Seeded == user = "recent" \/ (user = "away" /\ lastIngested = 0)

Login ==
  /\ user # "recent"
  /\ user' = "recent"
  /\ UNCHANGED vars

StaysAway ==
  /\ user = "recent"
  /\ user' = "away"
  /\ UNCHANGED vars

Invalidate ==
  /\ user # "invalid"
  /\ user' = "invalid"
  /\ UNCHANGED vars

RefreshStoresValid ==
  /\ user = "invalid"
  /\ user' \in {"recent", "away"}
  /\ UNCHANGED vars

UserStep == Login \/ StaysAway \/ Invalidate \/ RefreshStoresValid

SeedNext == (Next /\ UNCHANGED user) \/ UserStep

(* While the user is seeded, a free slot gets a job again and again, and   *)
(* the event loop runs every job that can take a step, seeded or not.      *)
Fairness == \A w \in SyncWorker : WF_vars((pc[w] # "idle" \/ Seeded) /\ SyncStep(w))

SeedSpec == SeedInit /\ [][SeedNext]_<<vars, user>> /\ Fairness

(* Every play is eventually settled: sync jobs that fail, crash, or race   *)
(* with each other do not keep it out of the database for ever.  This is   *)
(* promised only while cron seeds the user: from the day on which the      *)
(* authorization is invalidated, or a week has passed since the last       *)
(* login, nobody fetches the plays until the next login (cron.ts 76-88).   *)
EveryPlaySettled == \A p \in Play : (p <= now) ~> (Settled(p) \/ ~Seeded)
=============================================================================
