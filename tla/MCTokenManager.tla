--------------------------- MODULE MCTokenManager ---------------------------
(***************************************************************************)
(* TokenManager for TLC.  Callers are interchangeable.                     *)
(***************************************************************************)
EXTENDS TokenManager, TLC

Symmetry == Permutations(Caller)
=============================================================================
