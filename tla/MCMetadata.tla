----------------------------- MODULE MCMetadata -----------------------------
(* An instance of MetadataQueue for TLC: one track with all the artists.    *)
EXTENDS MetadataQueue

TracksArtists == [t \in Tracks |-> Artists]

=============================================================================
