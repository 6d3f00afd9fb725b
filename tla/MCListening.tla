---------------------------- MODULE MCListening ----------------------------
(***************************************************************************)
(* ListeningIngestion for TLC.  The slots of the sync queue are            *)
(* interchangeable.                                                        *)
(***************************************************************************)
EXTENDS ListeningIngestion, TLC

Symmetry == Permutations(SyncWorker)
=============================================================================
