-------------------------- MODULE MCPlaylistSlots --------------------------
(***************************************************************************)
(* PlaylistSlots for TLC.  Requests and tokens are interchangeable.        *)
(***************************************************************************)
EXTENDS PlaylistSlots, TLC

Symmetry == Permutations(Request) \union Permutations(Token)
=============================================================================
