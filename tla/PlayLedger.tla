----------------------------- MODULE PlayLedger -----------------------------
(***************************************************************************)
(* What the ingestion pipeline promises about one user's listening         *)
(* history, with no jobs, pages, transactions or retries in it.            *)
(*                                                                         *)
(* A play is written into the ledger once.  It may be written as an        *)
(* estimate (the sync job knows only the length of the track) or as the    *)
(* actual listening time (an imported Spotify export); an estimate may     *)
(* later become actual, and nothing is ever erased or downgraded.  The     *)
(* watermark is the playedAt up to which the user's history is settled: a  *)
(* play at or below it is in the ledger or has been given up.  Recording   *)
(* an estimate and crediting it to the user's play count are one step.     *)
(***************************************************************************)
EXTENDS Naturals

CONSTANTS
  Play,        \* the plays of one user, numbered in the order of playedAt
  MaxCredit    \* how often one play can be credited at most

VARIABLES
  ledger,      \* what is recorded of each play
  credit,      \* how often each play was added to the user's play count
  watermark,   \* history is settled up to this play, 0 for none
  givenUp      \* plays that can no longer be obtained

ledgerVars == <<ledger, credit, watermark, givenUp>>

Quality == {"absent", "estimated", "actual"}

LedgerTypeOK ==
  /\ ledger \in [Play -> Quality]
  /\ credit \in [Play -> 0..MaxCredit]
  /\ watermark \in Play \union {0}
  /\ givenUp \subseteq Play

LedgerInit ==
  /\ ledger = [p \in Play |-> "absent"]
  /\ credit = [p \in Play |-> 0]
  /\ watermark = 0
  /\ givenUp = {}

Recorded(p) == ledger[p] # "absent"

(* Plays of S enter the ledger as estimates unless they are already there, *)
(* and every play of S is credited: a play that is already recorded may be *)
(* credited again, but never more than MaxCredit times.                    *)
RecordEstimates(S) ==
  /\ S # {}
  /\ ledger' = [p \in Play |->
                  IF p \in S /\ ~Recorded(p) THEN "estimated" ELSE ledger[p]]
  /\ credit' = [p \in Play |-> IF p \in S THEN credit[p] + 1 ELSE credit[p]]
  /\ \A p \in S : credit'[p] <= MaxCredit
  /\ UNCHANGED <<watermark, givenUp>>

(* The plays of S become actual, recorded before or not.                   *)
RecordActuals(S) ==
  /\ S # {}
  /\ ledger' = [p \in Play |-> IF p \in S THEN "actual" ELSE ledger[p]]
  /\ UNCHANGED <<credit, watermark, givenUp>>

GiveUp(S) ==
  /\ givenUp' = givenUp \union S
  /\ UNCHANGED <<ledger, credit, watermark>>

(* The watermark may move anywhere below which nothing is missing, back-   *)
(* wards too: a sync job that ran late writes an older one.                *)
Settle(n) ==
  /\ \A p \in Play : p <= n => Recorded(p) \/ p \in givenUp
  /\ watermark' = n
  /\ UNCHANGED <<ledger, credit, givenUp>>

LedgerNext ==
  \/ \E S \in SUBSET Play : RecordEstimates(S) \/ RecordActuals(S) \/ GiveUp(S)
  \/ \E n \in Play : Settle(n)

LedgerSpec == LedgerInit /\ [][LedgerNext]_ledgerVars
=============================================================================
