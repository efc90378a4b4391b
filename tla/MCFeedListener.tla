--------------------------- MODULE MCFeedListener ---------------------------
(***************************************************************************)
(* FeedListener for TLC: the hashes that tell apart all shard counts of    *)
(* the instances, up to three.                                             *)
(***************************************************************************)
EXTENDS FeedListener

MCHashes == 0..5

=============================================================================
